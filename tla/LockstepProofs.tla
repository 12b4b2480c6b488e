--------------------------- MODULE LockstepProofs ---------------------------
(***************************************************************************)
(* What holds of Lockstep for every delay, ring and tick size, time-out    *)
(* and set of inputs.                                                      *)
(*                                                                         *)
(* TypeOK is inductive.  PhasesKept is inductive relative to it.  Both     *)
(* follow the code's shape: a lemma per routine on a console's memory,     *)
(* then one per step of LS_PASS, then one case per frame handler.  The     *)
(* second part is about state images: ImageAtomic and NoChunkRefused.      *)
(***************************************************************************)
EXTENDS Lockstep, TLAPS, SequenceTheorems

-----------------------------------------------------------------------------
(* Type correctness.                                                       *)

(* A tick sum is a tick: the 16-bit addition of LS_PASS and RS_PUSH wraps. *)
LEMMA PlusType ==
  ASSUME NEW t \in Int, NEW n \in Int
  PROVE  Plus(t, n) \in Tick
BY SizeAssumption DEF Plus, Tick

(* A ring page has no more slots than there are ticks.                     *)
LEMMA PageInSpan == PageSize <= TickSpan
<1>1. PageSize \in Nat \ {0} /\ TickSpan \in Nat \ {0} /\ TickSpan % PageSize = 0
  BY SizeAssumption
<1>2. SUFFICES ASSUME TickSpan < PageSize PROVE FALSE
  BY <1>1
<1>3. TickSpan % PageSize = TickSpan
  BY <1>1, <1>2
<1>. QED
  BY <1>1, <1>3

(* There are two seats.                                                    *)
LEMMA PeerType ==
  ASSUME NEW c \in Seat
  PROVE  Peer(c) \in Seat /\ Peer(c) # c
BY DEF Seat, Peer

(* What LS_RING_INIT leaves in the rings is input.                         *)
LEMMA IdleRingsType == IdleRings \in [Seat -> [Slots -> Inputs]]
BY InputAssumption DEF IdleRings

(* What RS_CLR_CRC leaves in the records are well-formed records.          *)
LEMMA NoCrcType == NoCrc \in [CrcSlots -> [t : Tick, sum : [Summed -> Label]]]
BY SizeAssumption DEF NoCrc, Tick, Label

(* LS_CKSUM reads part of the state image.                                 *)
LEMMA CksumType ==
  ASSUME NEW w \in [Parts -> Label]
  PROVE  Cksum(w) \in [Summed -> Label]
BY SizeAssumption DEF Cksum, Parts

(* Stopping the phases leaves a console a console.                         *)
LEMMA FreezeType ==
  ASSUME NEW m \in Console
  PROVE  Freeze(m) \in Console
BY ZenonT(40) DEF Freeze, Console

(* So does starting them,                                                  *)
LEMMA UnfreezeType ==
  ASSUME NEW m \in Console
  PROVE  Unfreeze(m) \in Console
<1>1. m.saved \in BOOLEAN
  BY DEF Console
<1>2. [m EXCEPT !.froze = FALSE, !.phase = m.saved, !.waitc = 0] \in Console
  BY <1>1 DEF Console
<1>. QED
  BY <1>2 DEF Unfreeze

(* idling the remote seat (LS_IDLE_RMT),                                   *)
LEMMA IdleRemoteType ==
  ASSUME NEW m \in Console
  PROVE  IdleRemote(m) \in Console
<1>1. m.tick \in Int
  BY DEF Console, Tick
<1>2. TickSpan \div 2 \in Int
  BY SizeAssumption
<1>3. Plus(m.tick, TickSpan \div 4) \in Tick
  BY <1>1, PlusType, SizeAssumption
<1>. QED
  BY <1>3, IdleRingsType DEF IdleRemote, Console

(* re-baselining (RS_REBASE),                                              *)
LEMMA RebaseType ==
  ASSUME NEW m \in Console
  PROVE  Rebase(m) \in Console
<1>1. m.resume \in Int /\ Delay - 1 \in Int
  BY SizeAssumption DEF Console, Tick
<1>2. Plus(m.resume, Delay - 1) \in Tick
  BY <1>1, PlusType
<1>3. m.epoch + 1 \in Nat
  BY DEF Console
<1>. QED
  BY <1>2, <1>3, IdleRingsType, NoCrcType DEF Rebase, Console

(* keeping a checksum (RS_RECORD_CRC),                                     *)
LEMMA RecordCrcType ==
  ASSUME NEW m \in Console
  PROVE  RecordCrc(m) \in Console
<1>1. Cksum(m.world) \in [Summed -> Label]
  BY CksumType DEF Console
<1>. QED
  BY <1>1 DEF RecordCrc, Console

(* setting NET_DROPPED,                                                    *)
LEMMA DropType ==
  ASSUME NEW m \in Console, NEW reason \in {"lost", "left"}
  PROVE  Drop(m, reason) \in Console
<1>1. [m EXCEPT !.dropped = TRUE, !.why = reason] \in Console
  BY DEF Console
<1>. QED
  BY <1>1, IdleRemoteType DEF Drop

(* entering a hold (RS_ENTER_HOLD),                                        *)
LEMMA EnterHoldType ==
  ASSUME NEW m \in Console
  PROVE  EnterHold(m) \in Console
BY NoCrcType DEF EnterHold, Console

(* wanting a resync,                                                       *)
LEMMA WantType ==
  ASSUME NEW m \in Console
  PROVE  Want(m) \in Console
BY DEF Want, Console

(* applying or refusing a chunk (RS_ON_STATE),                             *)
LEMMA PutChunkType ==
  ASSUME NEW m \in Console, NEW f \in [type : {"CHUNK"}, pos : Parts, data : Label]
  PROVE  PutChunk(m, f) \in Console
<1>1. f.pos \in Parts /\ f.data \in Label
  OBVIOUS
<1>2. [m EXCEPT !.world[f.pos] = f.data, !.applied = @ \cup {f.pos}] \in Console
  BY <1>1 DEF Console
<1>3. [m EXCEPT !.rej = TRUE] \in Console
  BY DEF Console
<1>. QED
  BY <1>2, <1>3 DEF PutChunk

(* and coming to the head of a pass.                                       *)
LEMMA PassType ==
  ASSUME NEW m \in Console
  PROVE  Pass(m) \in Console
<1>1. Freeze(m) \in Console
  BY FreezeType
<1>2. [Freeze(m) EXCEPT !.pc = "parked"] \in Console
  BY <1>1 DEF Console
<1>3. [Freeze(m) EXCEPT !.pc = "hold", !.begun = FALSE] \in Console
  BY <1>1 DEF Console
<1>4. [m EXCEPT !.pc = "pump", !.begun = FALSE] \in Console
  BY DEF Console
<1>. QED
  BY <1>2, <1>3, <1>4 DEF Pass

(* NET_WRITE of frames leaves a network of frames.                         *)
LEMMA SentType ==
  ASSUME NEW ch \in [Seat -> Seq(Frame)], NEW c \in Seat, NEW frames \in Seq(Frame)
  PROVE  Sent(ch, c, frames) \in [Seat -> Seq(Frame)]
<1>1. Peer(c) \in Seat
  BY PeerType
<1>2. ch[Peer(c)] \o frames \in Seq(Frame)
  BY <1>1, ConcatProperties
<1>. QED
  BY <1>1, <1>2 DEF Sent

(* The frame at the head of a channel is a frame, and so is what is left.  *)
LEMMA ConsumedType ==
  ASSUME TypeOK, NEW c \in Seat, chan[c] # <<>>
  PROVE  /\ Head(chan[c]) \in Frame
         /\ Consumed(c) \in [Seat -> Seq(Frame)]
<1>1. chan[c] \in Seq(Frame)
  BY DEF TypeOK
<1>2. Head(chan[c]) \in Frame /\ Tail(chan[c]) \in Seq(Frame)
  BY <1>1, HeadTailProperties
<1>. QED
  BY <1>2 DEF Consumed, TypeOK

(* RS_PUSH writes frames.                                                  *)
LEMMA PushFramesType ==
  ASSUME NEW m \in Console
  PROVE  PushFrames(m) \in Seq(Frame)
<1>1. <<[type |-> "BEGIN", tick |-> m.resume]>> \in Seq(Frame)
  BY DEF Frame, Console
<1>2. [i \in Parts |-> [type |-> "CHUNK", pos |-> i, data |-> m.world[i]]]
        \in Seq(Frame)
  <2>1. \A i \in Parts : [type |-> "CHUNK", pos |-> i, data |-> m.world[i]] \in Frame
    BY DEF Frame, Console
  <2>. QED
    BY <2>1, SizeAssumption, IsASeq DEF Parts
<1>3. <<[type |-> "END"]>> \in Seq(Frame)
  BY DEF Frame
<1>. QED
  BY <1>1, <1>2, <1>3, ConcatProperties DEF PushFrames

(* Writing a console back leaves two consoles.                             *)
LEMMA ConUpdate ==
  ASSUME TypeOK, NEW c \in Seat, NEW m \in Console
  PROVE  [con EXCEPT ![c] = m] \in [Seat -> Console]
BY DEF TypeOK

(* RS_PENDING keeps the types,                                             *)
LEMMA PendingType ==
  ASSUME TypeOK, NEW c \in Seat, NEW m \in Console,
         NEW ch \in [Seat -> Seq(Frame)], Pending(c, m, ch)
  PROVE  con' \in [Seat -> Console] /\ chan' \in [Seat -> Seq(Frame)]
<1>. DEFINE waited == [m EXCEPT !.ptmo = @ + 1]
            held == [EnterHold(waited) EXCEPT !.resume = Plus(m.tick, ResumeAhead)]
<1>1. waited \in Console
  <2>1. m.ptmo + 1 \in Nat
    BY DEF Console
  <2>. QED
    BY <2>1 DEF Console
<1>2. EnterHold(waited) \in Console
  BY <1>1, EnterHoldType
<1>3. Plus(m.tick, ResumeAhead) \in Tick
  <2>1. m.tick \in Int /\ ResumeAhead \in Int
    BY SizeAssumption DEF Console, Tick
  <2>. QED
    BY <2>1, PlusType
<1>4. held \in Console
  BY <1>2, <1>3 DEF Console
<1>5. Pass(waited) \in Console /\ Pass(m) \in Console /\ Pass(Rebase(held)) \in Console
  BY <1>1, <1>4, PassType, RebaseType
<1>6. Sent(ch, c, PushFrames(held)) \in [Seat -> Seq(Frame)]
  BY <1>4, PushFramesType, SentType
<1>7. \/ con' = [con EXCEPT ![c] = Pass(waited)] /\ chan' = ch
      \/ con' = [con EXCEPT ![c] = Pass(Rebase(held))] /\ chan' = Sent(ch, c, PushFrames(held))
      \/ con' = [con EXCEPT ![c] = Pass(m)] /\ chan' = ch
  BY DEF Pending
<1>. HIDE DEF waited, held
<1>. QED
  BY <1>5, <1>6, <1>7, ConUpdate

(* a tick keeps them,                                                      *)
LEMMA RunTickType ==
  ASSUME TypeOK, NEW c \in Seat, NEW m \in Console,
         NEW ch \in [Seat -> Seq(Frame)], RunTick(c, m, ch)
  PROVE  con' \in [Seat -> Console] /\ chan' \in [Seat -> Seq(Frame)]
<1>. DEFINE ran == Unfreeze(m)
            reported == IF CrcDue(m.tick) THEN RecordCrc(ran) ELSE ran
            report == [type |-> "CRC", tick |-> m.tick, sum |-> Cksum(m.world)]
            counted == [reported EXCEPT !.tick = Plus(m.tick, 1)]
            net == IF CrcDue(m.tick) THEN Sent(ch, c, <<report>>) ELSE ch
<1>1. reported \in Console
  BY UnfreezeType, RecordCrcType
<1>2. Plus(m.tick, 1) \in Tick
  BY PlusType DEF Console, Tick
<1>3. counted \in Console
  BY <1>1, <1>2 DEF Console
<1>4. <<report>> \in Seq(Frame)
  <2>1. m.tick \in Tick /\ Cksum(m.world) \in [Summed -> Label]
    BY CksumType DEF Console
  <2>. QED
    BY <2>1 DEF Frame
<1>5. net \in [Seat -> Seq(Frame)]
  BY <1>4, SentType
<1>6. Pending(c, counted, net)
  BY DEF RunTick
<1>. HIDE DEF counted, net
<1>. QED
  BY <1>3, <1>5, <1>6, PendingType

(* and so does coming to the gate.                                         *)
LEMMA GateType ==
  ASSUME TypeOK, NEW c \in Seat, NEW m \in Console,
         NEW ch \in [Seat -> Seq(Frame)], Gate(c, m, ch)
  PROVE  con' \in [Seat -> Console] /\ chan' \in [Seat -> Seq(Frame)]
<1>1. CASE RunTick(c, m, ch)
  BY <1>1, RunTickType
<1>2. CASE /\ con' = [con EXCEPT ![c] = [Freeze(m) EXCEPT !.pc = "stall", !.begun = FALSE]]
           /\ chan' = ch
  <2>1. Freeze(m) \in Console
    BY FreezeType
  <2>2. [Freeze(m) EXCEPT !.pc = "stall", !.begun = FALSE] \in Console
    BY <2>1 DEF Console
  <2>. QED
    BY <1>2, <2>2, ConUpdate
<1>. QED
  BY <1>1, <1>2 DEF Gate

(* Every frame handler keeps the types.                                    *)
LEMMA DeliverType ==
  ASSUME TypeOK, NEW c \in Seat, Deliver(c)
  PROVE  TypeOK'
<1>. DEFINE m == con[c]
            f == Head(chan[c])
<1>1. m \in Console
  BY DEF TypeOK
<1>2. chan[c] # <<>>
  BY DEF Deliver, OnInput, OnCrc, OnReq, OnBegin, OnChunk, OnEnd, OnPeerLeft, Arrives
<1>3. f \in Frame /\ Consumed(c) \in [Seat -> Seq(Frame)]
  BY <1>2, ConsumedType
<1>4. room' = room /\ glitches' = glitches
  BY DEF Deliver, OnInput, OnCrc, OnReq, OnBegin, OnChunk, OnEnd, OnPeerLeft
<1>5. SUFFICES con' \in [Seat -> Console] /\ chan' \in [Seat -> Seq(Frame)]
  BY <1>4 DEF TypeOK
<1>6. CASE OnInput(c)
  <2>1. f \in [type : {"INPUT"}, tick : Tick, in : Inputs]
    BY <1>3, <1>6 DEF Frame, OnInput, Arrives
  <2>2. [m EXCEPT !.ring[Peer(c)][Slot(f.tick)] = f.in, !.wm = f.tick] \in Console
    BY <1>1, <2>1, PeerType DEF Console
  <2>3. con' = con \/ con' = [con EXCEPT ![c] = [m EXCEPT !.ring[Peer(c)][Slot(f.tick)] = f.in, !.wm = f.tick]]
    BY <1>6 DEF OnInput, TypeOK, Console
  <2>. QED
    BY <1>3, <1>6, <2>2, <2>3, ConUpdate DEF OnInput, TypeOK
<1>7. CASE OnCrc(c)
  <2>1. f \in [type : {"CRC"}, tick : Tick, sum : [Summed -> Label]]
    BY <1>3, <1>7 DEF Frame, OnCrc, Arrives
  <2>2. <<[type |-> "REQ", tick |-> f.tick]>> \in Seq(Frame)
    BY <2>1 DEF Frame
  <2>3. Want(m) \in Console
    BY <1>1, WantType
  <2>4. chan' = Consumed(c) \/ chan' = Sent(Consumed(c), c, <<[type |-> "REQ", tick |-> f.tick]>>)
    BY <1>7 DEF OnCrc
  <2>5. con' = con \/ con' = [con EXCEPT ![c] = Want(m)]
    BY <1>7 DEF OnCrc
  <2>6. Sent(Consumed(c), c, <<[type |-> "REQ", tick |-> f.tick]>>) \in [Seat -> Seq(Frame)]
    BY <1>3, <2>2, SentType
  <2>7. con' \in [Seat -> Console]
    BY <2>3, <2>5, ConUpdate DEF TypeOK
  <2>. QED
    BY <1>3, <2>4, <2>6, <2>7
<1>8. CASE OnReq(c)
  <2>1. Want(m) \in Console
    BY <1>1, WantType
  <2>2. con' = con \/ con' = [con EXCEPT ![c] = Want(m)]
    BY <1>8 DEF OnReq
  <2>. QED
    BY <1>3, <1>8, <2>1, <2>2, ConUpdate DEF TypeOK, OnReq
<1>9. CASE OnBegin(c)
  <2>1. f \in [type : {"REQ", "BEGIN"}, tick : Tick]
    BY <1>3, <1>9 DEF Frame, OnBegin, Arrives
  <2>2. EnterHold(m) \in Console
    BY <1>1, EnterHoldType
  <2>3. [EnterHold(m) EXCEPT !.resume = f.tick, !.begun = TRUE] \in Console
    BY <2>1, <2>2 DEF Console
  <2>. QED
    BY <1>3, <1>9, <2>3, ConUpdate DEF OnBegin
<1>10. CASE OnChunk(c)
  <2>1. f \in [type : {"CHUNK"}, pos : Parts, data : Label]
    BY <1>3, <1>10 DEF Frame, OnChunk, Arrives
  <2>. QED
    BY <1>1, <1>3, <1>10, <2>1, PutChunkType, ConUpdate DEF OnChunk
<1>11. CASE OnEnd(c)
  <2>1. con' = con \/ con' = [con EXCEPT ![c] = Rebase(m)]
    BY <1>11 DEF OnEnd
  <2>. QED
    BY <1>1, <1>3, <1>11, <2>1, RebaseType, ConUpdate DEF OnEnd, TypeOK
<1>12. CASE OnPeerLeft(c)
  BY <1>1, <1>3, <1>12, DropType, ConUpdate DEF OnPeerLeft
<1>. QED
  BY <1>6, <1>7, <1>8, <1>9, <1>10, <1>11, <1>12 DEF Deliver

(* Every step of LS_PASS keeps the types.                                  *)
LEMMA StepType ==
  ASSUME TypeOK, NEW c \in Seat, Step(c)
  PROVE  TypeOK'
<1>1. con[c] \in Console /\ chan \in [Seat -> Seq(Frame)]
  BY DEF TypeOK
<1>2. room' = room /\ glitches' = glitches
  BY DEF Step, SampleInput, StallRound, HoldRound, Park, vars
<1>3. SUFFICES con' \in [Seat -> Console] /\ chan' \in [Seat -> Seq(Frame)]
  BY <1>2 DEF TypeOK
<1>4. CASE SampleInput(c)
  <2>. DEFINE t == Plus(con[c].tick, Delay)
  <2>1. PICK v \in Inputs :
          Gate(c, [con[c] EXCEPT !.ring[c][Slot(t)] = v],
               Sent(chan, c, <<[type |-> "INPUT", tick |-> t, in |-> v]>>))
    BY <1>4 DEF SampleInput
  <2>2. t \in Tick
    <3>1. con[c].tick \in Int /\ Delay \in Int
      BY <1>1, SizeAssumption DEF Console, Tick
    <3>. QED
      BY <3>1, PlusType
  <2>3. <<[type |-> "INPUT", tick |-> t, in |-> v]>> \in Seq(Frame)
    BY <2>2 DEF Frame
  <2>4. [con[c] EXCEPT !.ring[c][Slot(t)] = v] \in Console
    BY <1>1 DEF Console
  <2>. HIDE DEF t
  <2>5. Sent(chan, c, <<[type |-> "INPUT", tick |-> t, in |-> v]>>) \in [Seat -> Seq(Frame)]
    BY <1>1, <2>3, SentType
  <2>. QED
    BY <2>1, <2>4, <2>5, GateType
<1>5. CASE StallRound(c)
  <2>. DEFINE m == [con[c] EXCEPT !.waitc = IF GateRounds = 0 THEN 0 ELSE @ + 1]
              n == IF GateRounds # 0 /\ m.waitc >= GateRounds THEN Drop(m, "lost") ELSE m
  <2>1. m \in Console
    <3>1. con[c].waitc + 1 \in Nat
      BY <1>1 DEF Console
    <3>. QED
      BY <1>1, <3>1 DEF Console
  <2>2. n \in Console
    BY <2>1, DropType
  <2>3. Gate(c, n, chan)
    BY <1>5 DEF StallRound
  <2>. HIDE DEF n
  <2>. QED
    BY <1>1, <2>2, <2>3, GateType
<1>6. CASE HoldRound(c)
  <2>. DEFINE m == [con[c] EXCEPT !.rsto = IF HoldRounds = 0 THEN 0 ELSE @ + 1]
              n == IF HoldRounds # 0 /\ m.rsto >= HoldRounds
                   THEN Drop([m EXCEPT !.hold = FALSE], "lost") ELSE m
  <2>1. m \in Console
    <3>1. con[c].rsto + 1 \in Nat
      BY <1>1 DEF Console
    <3>. QED
      BY <1>1, <3>1 DEF Console
  <2>2. [m EXCEPT !.hold = FALSE] \in Console
    BY <2>1 DEF Console
  <2>3. n \in Console
    BY <2>1, <2>2, DropType
  <2>4. con' = [con EXCEPT ![c] = Pass(n)] /\ chan' = chan
    BY <1>6 DEF HoldRound
  <2>. HIDE DEF n
  <2>. QED
    BY <1>1, <2>3, <2>4, PassType, ConUpdate
<1>7. CASE Park(c)
  BY <1>1, <1>7 DEF Park, vars, TypeOK
<1>. QED
  BY <1>4, <1>5, <1>6, <1>7 DEF Step

(* A divergence of the game state keeps the types.                         *)
LEMMA GlitchType ==
  ASSUME TypeOK, NEW c \in Seat, Glitch(c)
  PROVE  TypeOK'
<1>1. con[c] \in Console /\ glitches + 1 \in 0 .. MaxGlitch /\ glitches \in Nat
  BY SizeAssumption DEF TypeOK, Glitch
<1>2. PICK p \in Parts : con' = [con EXCEPT ![c] = [@ EXCEPT !.world[p] = glitches + 1]]
  BY DEF Glitch
<1>3. [con[c] EXCEPT !.world[p] = glitches + 1] \in Console
  BY <1>1 DEF Console, Label
<1>4. con' \in [Seat -> Console]
  BY <1>2, <1>3, ConUpdate
<1>. QED
  BY <1>1, <1>4 DEF Glitch, TypeOK

(* Losing the room keeps the types.                                        *)
LEMMA LoseRoomType ==
  ASSUME TypeOK, NEW c \in Seat, LoseRoom(c)
  PROVE  TypeOK'
<1>1. PICK n \in 0 .. Len(chan[c]), k \in 0 .. Len(chan[Peer(c)]) :
        chan' = [chan EXCEPT ![c] = SubSeq(@, 1, n),
                             ![Peer(c)] = Append(SubSeq(@, 1, k), [type |-> "LEFT"])]
  BY DEF LoseRoom
<1>2. chan \in [Seat -> Seq(Frame)] /\ Peer(c) \in Seat /\ Peer(c) # c
  BY PeerType DEF TypeOK
<1>3. SubSeq(chan[c], 1, n) \in Seq(Frame) /\ SubSeq(chan[Peer(c)], 1, k) \in Seq(Frame)
  BY <1>2, SubSeqProperties
<1>4. [type |-> "LEFT"] \in Frame
  BY DEF Frame
<1>5. Append(SubSeq(chan[Peer(c)], 1, k), [type |-> "LEFT"]) \in Seq(Frame)
  BY <1>3, <1>4, AppendProperties
<1>6. chan' \in [Seat -> Seq(Frame)]
  BY <1>1, <1>2, <1>3, <1>5
<1>. QED
  BY <1>6 DEF LoseRoom, TypeOK

(* The START handler makes consoles of the right type.                     *)
LEMMA InitType == Init => TypeOK
<1>. SUFFICES ASSUME Init PROVE TypeOK
  OBVIOUS
<1>1. 0 \in Tick /\ 0 \in Label /\ 0 \in 0 .. MaxGlitch
  BY SizeAssumption DEF Tick, Label
<1>2. (Delay - 1) % PageSize \in Tick
  <2>1. (Delay - 1) % PageSize \in 0 .. PageSize - 1
    BY SizeAssumption
  <2>2. PageSize \in Nat /\ TickSpan \in Nat
    BY SizeAssumption
  <2>. QED
    BY <2>1, <2>2, PageInSpan DEF Tick
<1>3. con \in [Seat -> Console]
  BY <1>1, <1>2, IdleRingsType, NoCrcType DEF Init, Console
<1>4. chan \in [Seat -> Seq(Frame)]
  BY DEF Init
<1>. QED
  BY <1>1, <1>3, <1>4 DEF Init, TypeOK

(* The cells of both consoles and the frames in flight keep their types,   *)
(* whatever the delay, the sizes, the time-outs and the inputs are.        *)
THEOREM TypeCorrect == Spec => []TypeOK
<1>1. Init => TypeOK
  BY InitType
<1>2. TypeOK /\ [Next]_vars => TypeOK'
  <2>. SUFFICES ASSUME TypeOK, [Next]_vars PROVE TypeOK'
    OBVIOUS
  <2>1. ASSUME NEW c \in Seat, Step(c) PROVE TypeOK'
    BY <2>1, StepType
  <2>2. ASSUME NEW c \in Seat, Deliver(c) PROVE TypeOK'
    BY <2>2, DeliverType
  <2>3. ASSUME NEW c \in Seat, Glitch(c) PROVE TypeOK'
    BY <2>3, GlitchType
  <2>4. ASSUME NEW c \in Seat, LoseRoom(c) PROVE TypeOK'
    BY <2>4, LoseRoomType
  <2>5. CASE UNCHANGED vars
    BY <2>5 DEF vars, TypeOK
  <2>. QED
    BY <2>1, <2>2, <2>3, <2>4, <2>5 DEF Next
<1>. QED
  BY <1>1, <1>2, PTL DEF Spec

-----------------------------------------------------------------------------
(* The phases.  Steady holds of a console at any point of a step, Phased   *)
(* where a step ends.                                                      *)
Steady(m) == m.phase = ~m.froze /\ (m.froze => m.saved)
Phased(m) == Steady(m) /\ (m.pc \in {"stall", "hold", "parked"} => m.froze)

(* n is m as far as the phases and the place in the pass go.               *)
SamePhase(m, n) ==
  n.pc = m.pc /\ n.froze = m.froze /\ n.phase = m.phase /\ n.saved = m.saved

(* Only the freeze, the thaw and the head of a pass touch the phases.      *)
LEMMA RoutinesKeepPhase ==
  ASSUME NEW m \in Console
  PROVE  /\ SamePhase(m, Rebase(m))
         /\ SamePhase(m, EnterHold(m))
         /\ SamePhase(m, Want(m))
         /\ SamePhase(m, RecordCrc(m))
         /\ \A reason \in {"lost", "left"} : SamePhase(m, Drop(m, reason))
         /\ \A f \in Frame : SamePhase(m, PutChunk(m, f))
BY DEF Console, SamePhase, Rebase, EnterHold, Want, RecordCrc, Drop, IdleRemote, PutChunk

(* A freeze keeps what it saved, taken once or twice.                      *)
LEMMA FreezeSteady ==
  ASSUME NEW m \in Console, Steady(m)
  PROVE  Freeze(m).froze /\ Steady(Freeze(m))
BY DEF Console, Steady, Freeze

(* A thaw restores the running phases.                                     *)
LEMMA UnfreezeSteady ==
  ASSUME NEW m \in Console, Steady(m)
  PROVE  Steady(Unfreeze(m))
BY DEF Console, Steady, Unfreeze

(* A pass that leaves the tick path has frozen the phases first.           *)
LEMMA PassPhased ==
  ASSUME NEW m \in Console, Steady(m)
  PROVE  Phased(Pass(m))
<1>1. Freeze(m) \in Console /\ Freeze(m).froze /\ Steady(Freeze(m))
  BY FreezeType, FreezeSteady
<1>2. Phased([Freeze(m) EXCEPT !.pc = "parked"])
  BY <1>1 DEF Phased, Steady, Console
<1>3. Phased([Freeze(m) EXCEPT !.pc = "hold", !.begun = FALSE])
  BY <1>1 DEF Phased, Steady, Console
<1>4. Phased([m EXCEPT !.pc = "pump", !.begun = FALSE])
  BY DEF Phased, Steady, Console
<1>. QED
  BY <1>2, <1>3, <1>4 DEF Pass

(* Writing one console back in a good state keeps the invariant.           *)
LEMMA PhasedUpdate ==
  ASSUME TypeOK, PhasesKept, NEW c \in Seat, NEW n, Phased(n),
         con' = [con EXCEPT ![c] = n]
  PROVE  PhasesKept'
BY DEF TypeOK, PhasesKept, Phased, Steady

(* RS_PENDING keeps the phases,                                            *)
LEMMA PendingPhased ==
  ASSUME TypeOK, PhasesKept, NEW c \in Seat, NEW m \in Console, Steady(m),
         NEW ch, Pending(c, m, ch)
  PROVE  PhasesKept'
<1>. DEFINE waited == [m EXCEPT !.ptmo = @ + 1]
            held == [EnterHold(waited) EXCEPT !.resume = Plus(m.tick, ResumeAhead)]
<1>1. waited \in Console /\ SamePhase(m, waited)
  <2>1. m.ptmo + 1 \in Nat
    BY DEF Console
  <2>. QED
    BY <2>1 DEF Console, SamePhase
<1>2. EnterHold(waited) \in Console /\ SamePhase(waited, EnterHold(waited))
  BY <1>1, EnterHoldType, RoutinesKeepPhase
<1>3. Plus(m.tick, ResumeAhead) \in Tick
  <2>1. m.tick \in Int /\ ResumeAhead \in Int
    BY SizeAssumption DEF Console, Tick
  <2>. QED
    BY <2>1, PlusType
<1>4. held \in Console /\ SamePhase(EnterHold(waited), held)
  BY <1>2, <1>3 DEF Console, SamePhase
<1>5. Rebase(held) \in Console /\ SamePhase(held, Rebase(held))
  BY <1>4, RebaseType, RoutinesKeepPhase
<1>6. \/ con' = [con EXCEPT ![c] = Pass(waited)]
      \/ con' = [con EXCEPT ![c] = Pass(Rebase(held))]
      \/ con' = [con EXCEPT ![c] = Pass(m)]
  BY DEF Pending
<1>. HIDE DEF waited, held
<1>7. Steady(waited) /\ Steady(Rebase(held))
  BY <1>1, <1>2, <1>4, <1>5 DEF SamePhase, Steady
<1>8. Phased(Pass(waited)) /\ Phased(Pass(Rebase(held))) /\ Phased(Pass(m))
  BY <1>1, <1>5, <1>7, PassPhased
<1>. QED
  BY <1>6, <1>8, PhasedUpdate

(* a tick keeps them,                                                      *)
LEMMA RunTickPhased ==
  ASSUME TypeOK, PhasesKept, NEW c \in Seat, NEW m \in Console, Steady(m),
         NEW ch, RunTick(c, m, ch)
  PROVE  PhasesKept'
<1>. DEFINE ran == Unfreeze(m)
            reported == IF CrcDue(m.tick) THEN RecordCrc(ran) ELSE ran
            report == [type |-> "CRC", tick |-> m.tick, sum |-> Cksum(m.world)]
            counted == [reported EXCEPT !.tick = Plus(m.tick, 1)]
            net == IF CrcDue(m.tick) THEN Sent(ch, c, <<report>>) ELSE ch
<1>1. ran \in Console /\ Steady(ran)
  BY UnfreezeType, UnfreezeSteady
<1>2. reported \in Console /\ SamePhase(ran, reported)
  BY <1>1, RecordCrcType, RoutinesKeepPhase DEF SamePhase
<1>3. Plus(m.tick, 1) \in Tick
  BY PlusType DEF Console, Tick
<1>4. counted \in Console /\ SamePhase(reported, counted)
  BY <1>2, <1>3 DEF Console, SamePhase
<1>5. Steady(counted)
  BY <1>1, <1>2, <1>4 DEF SamePhase, Steady
<1>6. Pending(c, counted, net)
  BY DEF RunTick
<1>. HIDE DEF counted, net
<1>. QED
  BY <1>4, <1>5, <1>6, PendingPhased

(* and so does coming to the gate, open or not.                            *)
LEMMA GatePhased ==
  ASSUME TypeOK, PhasesKept, NEW c \in Seat, NEW m \in Console, Steady(m),
         NEW ch, Gate(c, m, ch)
  PROVE  PhasesKept'
<1>1. CASE RunTick(c, m, ch)
  BY <1>1, RunTickPhased
<1>2. CASE con' = [con EXCEPT ![c] = [Freeze(m) EXCEPT !.pc = "stall", !.begun = FALSE]]
  <2>1. Freeze(m) \in Console /\ Freeze(m).froze /\ Steady(Freeze(m))
    BY FreezeType, FreezeSteady
  <2>2. Phased([Freeze(m) EXCEPT !.pc = "stall", !.begun = FALSE])
    BY <2>1 DEF Phased, Steady, Console
  <2>. QED
    BY <1>2, <2>2, PhasedUpdate
<1>. QED
  BY <1>1, <1>2 DEF Gate

(* Every step of LS_PASS keeps the phases.                                 *)
LEMMA StepPhased ==
  ASSUME TypeOK, PhasesKept, NEW c \in Seat, Step(c)
  PROVE  PhasesKept'
<1>1. con[c] \in Console /\ Steady(con[c])
  BY DEF TypeOK, PhasesKept, Steady
<1>2. CASE SampleInput(c)
  <2>. DEFINE t == Plus(con[c].tick, Delay)
  <2>1. PICK v \in Inputs :
          Gate(c, [con[c] EXCEPT !.ring[c][Slot(t)] = v],
               Sent(chan, c, <<[type |-> "INPUT", tick |-> t, in |-> v]>>))
    BY <1>2 DEF SampleInput
  <2>2. [con[c] EXCEPT !.ring[c][Slot(t)] = v] \in Console
    BY <1>1 DEF Console
  <2>3. Steady([con[c] EXCEPT !.ring[c][Slot(t)] = v])
    BY <1>1 DEF Console, Steady
  <2>. QED
    BY <2>1, <2>2, <2>3, GatePhased
<1>3. CASE StallRound(c)
  <2>. DEFINE m == [con[c] EXCEPT !.waitc = IF GateRounds = 0 THEN 0 ELSE @ + 1]
              n == IF GateRounds # 0 /\ m.waitc >= GateRounds THEN Drop(m, "lost") ELSE m
  <2>1. m \in Console /\ Steady(m)
    <3>1. con[c].waitc + 1 \in Nat
      BY <1>1 DEF Console
    <3>. QED
      BY <1>1, <3>1 DEF Console, Steady
  <2>2. n \in Console /\ Steady(n)
    <3>1. Drop(m, "lost") \in Console /\ SamePhase(m, Drop(m, "lost"))
      BY <2>1, DropType, RoutinesKeepPhase
    <3>. HIDE DEF m
    <3>. QED
      BY <2>1, <3>1 DEF SamePhase, Steady
  <2>3. Gate(c, n, chan)
    BY <1>3 DEF StallRound
  <2>. HIDE DEF n
  <2>. QED
    BY <2>2, <2>3, GatePhased
<1>4. CASE HoldRound(c)
  <2>. DEFINE m == [con[c] EXCEPT !.rsto = IF HoldRounds = 0 THEN 0 ELSE @ + 1]
              d == [m EXCEPT !.hold = FALSE]
              n == IF HoldRounds # 0 /\ m.rsto >= HoldRounds THEN Drop(d, "lost") ELSE m
  <2>1. m \in Console /\ Steady(m)
    <3>1. con[c].rsto + 1 \in Nat
      BY <1>1 DEF Console
    <3>. QED
      BY <1>1, <3>1 DEF Console, Steady
  <2>2. d \in Console /\ Steady(d)
    <3>. HIDE DEF m
    <3>. QED
      BY <2>1 DEF Console, Steady
  <2>3. n \in Console /\ Steady(n)
    <3>1. Drop(d, "lost") \in Console /\ SamePhase(d, Drop(d, "lost"))
      BY <2>2, DropType, RoutinesKeepPhase
    <3>. HIDE DEF m, d
    <3>. QED
      BY <2>1, <2>2, <3>1 DEF SamePhase, Steady
  <2>4. con' = [con EXCEPT ![c] = Pass(n)]
    BY <1>4 DEF HoldRound
  <2>. HIDE DEF n
  <2>. QED
    BY <2>3, <2>4, PassPhased, PhasedUpdate
<1>5. CASE Park(c)
  BY <1>5 DEF Park, vars, PhasesKept
<1>. QED
  BY <1>2, <1>3, <1>4, <1>5 DEF Step

(* Every frame handler leaves the phases alone.                            *)
LEMMA DeliverPhased ==
  ASSUME TypeOK, PhasesKept, NEW c \in Seat, Deliver(c)
  PROVE  PhasesKept'
<1>. DEFINE m == con[c]
            f == Head(chan[c])
<1>1. m \in Console /\ Phased(m) /\ f \in Frame
  <2>1. chan[c] # <<>>
    BY DEF Deliver, OnInput, OnCrc, OnReq, OnBegin, OnChunk, OnEnd, OnPeerLeft, Arrives
  <2>. QED
    BY <2>1, ConsumedType DEF TypeOK, PhasesKept, Phased, Steady
<1>2. ASSUME NEW n, SamePhase(m, n), con' = [con EXCEPT ![c] = n]
      PROVE  PhasesKept'
  <2>1. Phased(n)
    BY <1>1, <1>2 DEF SamePhase, Phased, Steady
  <2>. QED
    BY <1>2, <2>1, PhasedUpdate
<1>3. ASSUME con' = con PROVE PhasesKept'
  BY <1>3 DEF PhasesKept
<1>4. CASE OnInput(c)
  <2>1. con' = con \/ con' = [con EXCEPT ![c] = [m EXCEPT !.ring[Peer(c)][Slot(f.tick)] = f.in, !.wm = f.tick]]
    BY <1>4 DEF OnInput, TypeOK, Console
  <2>2. SamePhase(m, [m EXCEPT !.ring[Peer(c)][Slot(f.tick)] = f.in, !.wm = f.tick])
    BY <1>1 DEF SamePhase, Console
  <2>. QED
    BY <1>2, <1>3, <2>1, <2>2
<1>5. CASE OnCrc(c) \/ OnReq(c)
  <2>1. con' = con \/ con' = [con EXCEPT ![c] = Want(m)]
    BY <1>5 DEF OnCrc, OnReq
  <2>. QED
    BY <1>1, <1>2, <1>3, <2>1, RoutinesKeepPhase
<1>6. CASE OnBegin(c)
  <2>1. con' = [con EXCEPT ![c] = [EnterHold(m) EXCEPT !.resume = f.tick, !.begun = TRUE]]
    BY <1>6 DEF OnBegin
  <2>2. SamePhase(m, [EnterHold(m) EXCEPT !.resume = f.tick, !.begun = TRUE])
    BY <1>1, EnterHoldType, RoutinesKeepPhase DEF SamePhase, Console
  <2>. QED
    BY <1>2, <2>1, <2>2
<1>7. CASE OnChunk(c)
  BY <1>1, <1>2, <1>7, RoutinesKeepPhase DEF OnChunk
<1>8. CASE OnEnd(c)
  <2>1. con' = con \/ con' = [con EXCEPT ![c] = Rebase(m)]
    BY <1>8 DEF OnEnd
  <2>. QED
    BY <1>1, <1>2, <1>3, <2>1, RoutinesKeepPhase
<1>9. CASE OnPeerLeft(c)
  <2>1. con' = [con EXCEPT ![c] = Drop(m, "left")]
    BY <1>9 DEF OnPeerLeft
  <2>. QED
    BY <1>1, <1>2, <2>1, RoutinesKeepPhase
<1>. QED
  BY <1>4, <1>5, <1>6, <1>7, <1>8, <1>9 DEF Deliver

(* The ISR's phase counter is stopped exactly while the sim is held, and   *)
(* what a stall, a hold and the terminal screen put away between them is   *)
(* always the running value.                                               *)
THEOREM PhasesCorrect == Spec => []PhasesKept
<1>1. Init => PhasesKept
  <2>. SUFFICES ASSUME Init, NEW c \in Seat
                PROVE  Phased(con[c])
    BY DEF PhasesKept, Phased, Steady
  <2>1. con[c].pc = "pump" /\ con[c].froze = FALSE /\ con[c].phase = TRUE
    BY DEF Init
  <2>. QED
    BY <2>1 DEF Phased, Steady
<1>2. TypeOK /\ PhasesKept /\ [Next]_vars => PhasesKept'
  <2>. SUFFICES ASSUME TypeOK, PhasesKept, [Next]_vars PROVE PhasesKept'
    OBVIOUS
  <2>1. ASSUME NEW c \in Seat, Step(c) PROVE PhasesKept'
    BY <2>1, StepPhased
  <2>2. ASSUME NEW c \in Seat, Deliver(c) PROVE PhasesKept'
    BY <2>2, DeliverPhased
  <2>3. ASSUME NEW c \in Seat, Glitch(c) PROVE PhasesKept'
    <3>1. PICK p \in Parts : con' = [con EXCEPT ![c] = [@ EXCEPT !.world[p] = glitches + 1]]
      BY <2>3 DEF Glitch
    <3>2. Phased([con[c] EXCEPT !.world[p] = glitches + 1])
      BY DEF PhasesKept, TypeOK, Console, Phased, Steady
    <3>. QED
      BY <3>1, <3>2, PhasedUpdate
  <2>4. CASE con' = con
    BY <2>4 DEF PhasesKept
  <2>. QED
    BY <2>1, <2>2, <2>3, <2>4 DEF Next, LoseRoom, vars
<1>. QED
  BY <1>1, <1>2, TypeCorrect, PTL DEF Spec

-----------------------------------------------------------------------------
(***************************************************************************)
(* A state image is taken whole or not at all, for every number of parts   *)
(* and every time-out: NoChunkRefused and ImageAtomic.                     *)
(*                                                                         *)
(* RS_PUSH writes BEGIN, the parts in order and END; what the relay adds   *)
(* or cuts off never puts a frame between them.  So it is enough to say    *)
(* what a frame demands of the one in front of it (Follows), and what the  *)
(* first unread frame demands of the console that will read it (Comes).    *)
(***************************************************************************)

(* The grammar of a channel.                                               *)
Opens == {"BEGIN", "CHUNK"}                   \* more of the push must follow
Plain == {"INPUT", "CRC", "REQ", "BEGIN"}     \* never inside a push

Follows(p, f) ==
  /\ f.type = "CHUNK" => \/ p.type = "BEGIN" /\ f.pos = 1
                         \/ p.type = "CHUNK" /\ f.pos = p.pos + 1
  /\ f.type = "END" => p.type = "CHUNK" /\ p.pos = NParts
  /\ f.type \in Plain => p.type \notin Opens

Comes(m, f) ==
  /\ f.type = "CHUNK" => m.hold /\ m.applied = 1 .. f.pos - 1
  /\ f.type = "END" => m.hold /\ m.applied = Parts
  /\ f.type \in Plain => ~m.hold

Chain(s) == \A i \in 1 .. Len(s) - 1 : Follows(s[i], s[i + 1])
Shut(s) == s # <<>> => s[Len(s)].type \notin Opens

(* What one NET_WRITE, or the writes of one push, put in a channel.        *)
Whole(s) == s # <<>> /\ Chain(s) /\ Shut(s) /\ s[1].type \in Plain

(* The channel s of a console with memory m.  While the room stands the    *)
(* relay keeps what is written, so no push stops half-way.                 *)
Line(m, s) ==
  /\ Chain(s)
  /\ ~m.dropped /\ s # <<>> => Comes(m, s[1])
  /\ room => Shut(s) /\ (~m.dropped /\ s = <<>> => ~m.hold)

(* Only the host pushes: nothing of a push comes to it.                    *)
Quiet(s) == \A i \in 1 .. Len(s) : s[i].type \notin {"BEGIN", "CHUNK", "END"}

(* A console with parts of an image in place is in a hold, past the pump   *)
(* that read the BEGIN, and at no open gate.                               *)
Local(m) ==
  ~m.dropped =>
    /\ m.applied # {} => m.hold /\ ~m.begun
    /\ m.pc = "pump" /\ m.hold => m.begun
    /\ m.pc = "stall" /\ m.hold /\ ~m.begun => ~Open(m)
    /\ ~m.rej

Image ==
  /\ \A c \in Seat : Line(con[c], chan[c]) /\ Local(con[c])
  /\ ~con[Host].hold
  /\ Quiet(chan[Host])

-----------------------------------------------------------------------------
(* Sequences of frames.                                                    *)

(* A whole write after a closed line continues the chain,                  *)
LEMMA ChainConcat ==
  ASSUME NEW s \in Seq(Frame), NEW t \in Seq(Frame),
         Chain(s), Shut(s), Whole(t)
  PROVE  Chain(s \o t) /\ Shut(s \o t) /\ s \o t # <<>>
<1>. DEFINE u == s \o t
<1>1. /\ u \in Seq(Frame) /\ Len(u) = Len(s) + Len(t)
      /\ \A i \in 1 .. Len(s) : u[i] = s[i]
      /\ \A i \in Len(s) + 1 .. Len(s) + Len(t) : u[i] = t[i - Len(s)]
  BY ConcatProperties
<1>2. Len(s) \in Nat /\ Len(t) \in Nat /\ Len(t) # 0
  BY LenProperties, EmptySeq DEF Whole
<1>. HIDE DEF u
<1>3. ASSUME NEW i \in 1 .. Len(u) - 1 PROVE Follows(u[i], u[i + 1])
  <2>1. CASE i < Len(s)
    <3>1. i \in 1 .. Len(s) - 1 /\ u[i] = s[i] /\ u[i + 1] = s[i + 1]
      BY <1>1, <1>2, <2>1
    <3>. QED
      BY <3>1 DEF Chain
  <2>2. CASE i = Len(s)
    <3>1. u[i] = s[Len(s)] /\ u[i + 1] = t[1] /\ s # <<>>
      BY <1>1, <1>2, <2>2
    <3>2. s[Len(s)].type \notin Opens /\ t[1].type \in Plain
      BY <3>1 DEF Shut, Whole
    <3>. QED
      BY <3>1, <3>2 DEF Follows, Plain
  <2>3. CASE i > Len(s)
    <3>1. /\ i - Len(s) \in 1 .. Len(t) - 1
          /\ u[i] = t[i - Len(s)] /\ u[i + 1] = t[(i - Len(s)) + 1]
      BY <1>1, <1>2, <2>3
    <3>. QED
      BY <3>1 DEF Chain, Whole
  <2>. QED
    BY <1>2, <2>1, <2>2, <2>3
<1>4. u[Len(u)] = t[Len(t)] /\ t[Len(t)].type \notin Opens /\ u # <<>>
  BY <1>1, <1>2 DEF Whole, Shut
<1>. QED
  BY <1>3, <1>4 DEF Chain, Shut, u

(* reading a frame leaves one, whose first frame followed the one read,    *)
LEMMA ChainTail ==
  ASSUME NEW s \in Seq(Frame), s # <<>>, Chain(s)
  PROVE  /\ Chain(Tail(s))
         /\ Tail(s) # <<>> => Follows(Head(s), Tail(s)[1])
         /\ Shut(s) => /\ Shut(Tail(s))
                       /\ Tail(s) = <<>> => Head(s).type \notin Opens
<1>1. /\ Tail(s) \in Seq(Frame) /\ Len(Tail(s)) = Len(s) - 1 /\ Len(s) \in Nat \ {0}
      /\ \A i \in 1 .. Len(Tail(s)) : Tail(s)[i] = s[i + 1]
  BY HeadTailProperties, LenProperties, EmptySeq
<1>2. Head(s) = s[1]
  BY HeadTailProperties
<1>. HIDE DEF Follows
<1>3. ASSUME NEW i \in 1 .. Len(Tail(s)) - 1
      PROVE  Follows(Tail(s)[i], Tail(s)[i + 1])
  <2>1. i + 1 \in 1 .. Len(s) - 1 /\ Tail(s)[i] = s[i + 1] /\ Tail(s)[i + 1] = s[(i + 1) + 1]
    BY <1>1
  <2>. QED
    BY <2>1 DEF Chain
<1>4. ASSUME Tail(s) # <<>> PROVE Follows(Head(s), Tail(s)[1]) /\ Tail(s)[Len(Tail(s))] = s[Len(s)]
  <2>1. Len(Tail(s)) \in Nat \ {0}
    BY <1>1, <1>4, LenProperties, EmptySeq
  <2>2. 1 \in 1 .. Len(s) - 1 /\ Tail(s)[1] = s[1 + 1] /\ Tail(s)[Len(Tail(s))] = s[Len(s)]
    BY <1>1, <2>1
  <2>. QED
    BY <1>2, <2>2 DEF Chain
<1>5. ASSUME Tail(s) = <<>> PROVE Head(s) = s[Len(s)]
  BY <1>1, <1>2, <1>5
<1>. QED
  BY <1>3, <1>4, <1>5 DEF Chain, Shut

(* and so does losing the rest of it.                                      *)
LEMMA ChainCut ==
  ASSUME NEW s \in Seq(Frame), Chain(s), NEW n \in 0 .. Len(s)
  PROVE  /\ SubSeq(s, 1, n) \in Seq(Frame)
         /\ Chain(SubSeq(s, 1, n))
         /\ SubSeq(s, 1, n) # <<>> => SubSeq(s, 1, n)[1] = s[1]
<1>1. Len(s) \in Nat
  BY LenProperties
<1>2. /\ SubSeq(s, 1, n) \in Seq(Frame) /\ Len(SubSeq(s, 1, n)) = n
      /\ \A i \in 1 .. n : SubSeq(s, 1, n)[i] = s[i]
  BY <1>1, SubSeqProperties
<1>3. ASSUME NEW i \in 1 .. Len(SubSeq(s, 1, n)) - 1
      PROVE  Follows(SubSeq(s, 1, n)[i], SubSeq(s, 1, n)[i + 1])
  <2>1. i \in 1 .. Len(s) - 1 /\ i \in 1 .. n /\ i + 1 \in 1 .. n
    BY <1>1, <1>2
  <2>. QED
    BY <1>2, <2>1 DEF Chain
<1>4. SubSeq(s, 1, n) # <<>> => 1 \in 1 .. n
  BY <1>1, <1>2, EmptySeq
<1>. QED
  BY <1>2, <1>3, <1>4 DEF Chain

(* The goodbye may follow anything.                                        *)
LEMMA ChainLeft ==
  ASSUME NEW s \in Seq(Frame), Chain(s)
  PROVE  Chain(Append(s, [type |-> "LEFT"]))
<1>. DEFINE left == [type |-> "LEFT"]
            u == Append(s, left)
<1>1. left \in Frame /\ left.type = "LEFT"
  BY DEF Frame
<1>2. /\ Len(u) = Len(s) + 1 /\ Len(s) \in Nat
      /\ \A i \in 1 .. Len(s) : u[i] = s[i]
      /\ u[Len(s) + 1] = left
  BY <1>1, AppendProperties, LenProperties
<1>. HIDE DEF u, left
<1>3. ASSUME NEW i \in 1 .. Len(u) - 1 PROVE Follows(u[i], u[i + 1])
  <2>1. CASE i < Len(s)
    <3>1. i \in 1 .. Len(s) - 1 /\ u[i] = s[i] /\ u[i + 1] = s[i + 1]
      BY <1>2, <2>1
    <3>. QED
      BY <3>1 DEF Chain
  <2>2. CASE i = Len(s)
    <3>1. u[i + 1].type = "LEFT"
      BY <1>1, <1>2, <2>2
    <3>. QED
      BY <3>1 DEF Follows, Plain
  <2>. QED
    BY <1>2, <2>1, <2>2
<1>. QED
  BY <1>3 DEF Chain, u, left

(* The writes of a push are whole.                                         *)
LEMMA PushWhole ==
  ASSUME NEW m \in Console
  PROVE  Whole(PushFrames(m))
<1>. DEFINE begin == <<[type |-> "BEGIN", tick |-> m.resume]>>
            parts == [i \in Parts |-> [type |-> "CHUNK", pos |-> i, data |-> m.world[i]]]
            end == <<[type |-> "END"]>>
            u == PushFrames(m)
<1>1. begin \in Seq(Frame) /\ parts \in Seq(Frame) /\ end \in Seq(Frame)
  <2>1. \A i \in Parts : [type |-> "CHUNK", pos |-> i, data |-> m.world[i]] \in Frame
    BY DEF Frame, Console
  <2>2. parts \in Seq(Frame)
    BY <2>1, SizeAssumption, IsASeq DEF Parts
  <2>. QED
    BY <2>2 DEF Frame, Console
<1>2. Len(begin) = 1 /\ Len(parts) = NParts /\ Len(end) = 1 /\ NParts \in Nat \ {0}
  BY SizeAssumption DEF Parts
<1>3. /\ u = (begin \o parts) \o end
      /\ begin[1].type = "BEGIN" /\ end[1].type = "END"
      /\ \A i \in 1 .. NParts : parts[i].type = "CHUNK" /\ parts[i].pos = i
  BY DEF PushFrames, Parts
<1>. HIDE DEF begin, parts, end, u
<1>4. /\ begin \o parts \in Seq(Frame) /\ Len(begin \o parts) = NParts + 1
      /\ (begin \o parts)[1] = begin[1]
      /\ \A i \in 2 .. NParts + 1 : (begin \o parts)[i] = parts[i - 1]
  <2>1. /\ begin \o parts \in Seq(Frame)
        /\ Len(begin \o parts) = Len(begin) + Len(parts)
        /\ \A i \in 1 .. Len(begin) : (begin \o parts)[i] = begin[i]
        /\ \A i \in Len(begin) + 1 .. Len(begin) + Len(parts) :
             (begin \o parts)[i] = parts[i - Len(begin)]
    BY <1>1, ConcatProperties
  <2>. QED
    BY <1>2, <2>1
<1>5. /\ Len(u) = NParts + 2
      /\ u[1].type = "BEGIN"
      /\ \A i \in 2 .. NParts + 1 : u[i].type = "CHUNK" /\ u[i].pos = i - 1
      /\ u[NParts + 2].type = "END"
  <2>1. /\ Len(u) = NParts + 2
        /\ \A i \in 1 .. NParts + 1 : u[i] = (begin \o parts)[i]
        /\ u[NParts + 2] = end[1]
    BY <1>1, <1>2, <1>3, <1>4, ConcatProperties
  <2>2. 1 \in 1 .. NParts + 1
    BY <1>2
  <2>. QED
    BY <1>2, <1>3, <1>4, <2>1, <2>2
<1>6. ASSUME NEW i \in 1 .. Len(u) - 1 PROVE Follows(u[i], u[i + 1])
  <2>1. CASE i = 1
    <3>1. u[i].type = "BEGIN" /\ u[i + 1].type = "CHUNK" /\ u[i + 1].pos = 1
      BY <1>2, <1>5, <2>1
    <3>. QED
      BY <3>1 DEF Follows, Plain
  <2>2. CASE i \in 2 .. NParts
    <3>1. /\ u[i].type = "CHUNK" /\ u[i].pos = i - 1
          /\ u[i + 1].type = "CHUNK" /\ u[i + 1].pos = i
      BY <1>2, <1>5, <2>2
    <3>. QED
      BY <2>2, <3>1 DEF Follows, Plain
  <2>3. CASE i = NParts + 1
    <3>1. u[i].type = "CHUNK" /\ u[i].pos = NParts /\ u[i + 1].type = "END"
      BY <1>2, <1>5, <2>3
    <3>. QED
      BY <3>1 DEF Follows, Plain
  <2>. QED
    BY <1>2, <1>5, <2>1, <2>2, <2>3
<1>7. u # <<>> /\ u[Len(u)].type \notin Opens /\ u[1].type \in Plain
  BY <1>2, <1>5 DEF Opens, Plain
<1>. QED
  BY <1>6, <1>7 DEF Whole, Chain, Shut, u

(* A single plain frame is whole.                                          *)
LEMMA OneWhole ==
  ASSUME NEW f, f.type \in Plain, f.type # "BEGIN"
  PROVE  Whole(<<f>>)
BY DEF Whole, Chain, Shut, Plain, Opens

-----------------------------------------------------------------------------
(* The steps of LS_PASS.                                                   *)

(* n goes on from m: unless it has dropped out, it holds what m held.      *)
Like(m, n) ==
  ~n.dropped => /\ ~m.dropped
                /\ n.hold = m.hold
                /\ m.hold => n.applied = m.applied

(* What holds of a console at any point of a step.                         *)
Calm(m) == ~m.dropped => (m.applied # {} => m.hold) /\ ~m.rej

Net(ch) ==
  /\ ch \in [Seat -> Seq(Frame)]
  /\ \A c \in Seat : Line(con[c], ch[c])
  /\ Quiet(ch[Host])

(* Console c, with memory m when it came to the gate, has finished a step. *)
Done(c, m) ==
  \E n \in Console :
    /\ con' = [con EXCEPT ![c] = n]
    /\ Like(m, n)
    /\ Local(n)
    /\ IF c = Host THEN ~n.hold ELSE n.epoch = m.epoch

(* Going on twice is going on.                                             *)
LEMMA LikeTwice ==
  ASSUME NEW l, NEW m, NEW n, Like(l, m), Like(m, n)
  PROVE  Like(l, n)
BY DEF Like

(* A console that goes on finds its channel as before.                     *)
LEMMA LineLike ==
  ASSUME NEW m, NEW n, NEW s, Line(m, s), Like(m, n)
  PROVE  Line(n, s)
BY DEF Line, Like, Comes, Plain

(* A whole write keeps the line of the console it goes to,                 *)
LEMMA LineConcat ==
  ASSUME NEW m, NEW s \in Seq(Frame), NEW t \in Seq(Frame),
         Line(m, s), Whole(t), room
  PROVE  Line(m, s \o t)
<1>1. Chain(s \o t) /\ Shut(s \o t) /\ s \o t # <<>>
  BY ChainConcat DEF Line
<1>2. ASSUME ~m.dropped PROVE Comes(m, (s \o t)[1])
  <2>1. CASE s = <<>>
    <3>1. s \o t = t /\ ~m.hold /\ t[1].type \in Plain
      BY <1>2, <2>1, ConcatEmptySeq DEF Line, Whole
    <3>. QED
      BY <3>1 DEF Comes, Plain
  <2>2. CASE s # <<>>
    <3>1. 1 \in 1 .. Len(s)
      BY <2>2, LenProperties, EmptySeq
    <3>2. (s \o t)[1] = s[1]
      BY <3>1, ConcatProperties
    <3>. QED
      BY <1>2, <2>2, <3>2 DEF Line
  <2>. QED
    BY <2>1, <2>2
<1>. QED
  BY <1>1, <1>2 DEF Line

(* and so the network's, as long as only the host pushes.                  *)
LEMMA NetSent ==
  ASSUME NEW ch, Net(ch), NEW c \in Seat, NEW t \in Seq(Frame),
         Whole(t), c = Host \/ Quiet(t)
  PROVE  Net(Sent(ch, c, t))
<1>1. CASE ~room
  BY <1>1 DEF Sent
<1>2. CASE room
  <2>1. /\ Peer(c) \in Seat /\ ch[Peer(c)] \in Seq(Frame)
        /\ Sent(ch, c, t) = [ch EXCEPT ![Peer(c)] = ch[Peer(c)] \o t]
        /\ Sent(ch, c, t) \in [Seat -> Seq(Frame)]
    BY <1>2, PeerType, SentType DEF Sent, Net
  <2>2. Line(con[Peer(c)], ch[Peer(c)] \o t)
    BY <1>2, <2>1, LineConcat DEF Net
  <2>3. Quiet(Sent(ch, c, t)[Host])
    <3>1. CASE c = Host
      BY <2>1, <3>1, PeerType DEF Net
    <3>2. CASE Quiet(t)
      <4>1. Quiet(ch[Host] \o t)
        <5>1. /\ ch[Host] \in Seq(Frame) /\ Host \in Seat
              /\ Len(ch[Host]) \in Nat /\ Len(t) \in Nat
          BY LenProperties DEF Net, Host, Seat
        <5>2. /\ Len(ch[Host] \o t) = Len(ch[Host]) + Len(t)
              /\ \A i \in 1 .. Len(ch[Host]) : (ch[Host] \o t)[i] = ch[Host][i]
              /\ \A i \in Len(ch[Host]) + 1 .. Len(ch[Host]) + Len(t) :
                   (ch[Host] \o t)[i] = t[i - Len(ch[Host])]
          BY <5>1, ConcatProperties
        <5>3. ASSUME NEW i \in 1 .. Len(ch[Host] \o t)
              PROVE  (ch[Host] \o t)[i].type \notin {"BEGIN", "CHUNK", "END"}
          <6>1. CASE i \in 1 .. Len(ch[Host])
            BY <5>2, <6>1 DEF Net, Quiet
          <6>2. CASE i \in Len(ch[Host]) + 1 .. Len(ch[Host]) + Len(t)
            <7>1. i - Len(ch[Host]) \in 1 .. Len(t)
              BY <5>1, <6>2
            <7>. QED
              BY <3>2, <5>2, <6>2, <7>1 DEF Quiet
          <6>. QED
            BY <5>1, <5>2, <6>1, <6>2
        <5>. QED
          BY <5>3 DEF Quiet
      <4>. QED
        BY <2>1, <4>1 DEF Net
    <3>. QED
      BY <3>1, <3>2
  <2>. QED
    BY <2>1, <2>2, <2>3 DEF Net
<1>. QED
  BY <1>1, <1>2

(* Writing back a console that went on keeps the invariant.                *)
LEMMA ImageUpdate ==
  ASSUME TypeOK, Image, NEW c \in Seat, Done(c, con[c]), Net(chan'), room' = room
  PROVE  Image'
<1>1. PICK n \in Console :
        /\ con' = [con EXCEPT ![c] = n]
        /\ Like(con[c], n)
        /\ Local(n)
        /\ IF c = Host THEN ~n.hold ELSE n.epoch = con[c].epoch
  BY DEF Done
<1>2. con'[c] = n /\ \A d \in Seat : d # c => con'[d] = con[d]
  BY <1>1 DEF TypeOK
<1>3. Line(n, chan'[c])
  BY <1>1, LineLike DEF Net
<1>4. \A d \in Seat : Line(con'[d], chan'[d]) /\ Local(con'[d])
  BY <1>1, <1>2, <1>3 DEF Net, Image
<1>5. ~con'[Host].hold
  BY <1>1, <1>2 DEF Image, Host, Seat
<1>. QED
  BY <1>4, <1>5 DEF Image, Line, Net

(* Coming to the head of a pass.                                           *)
LEMMA PassImage ==
  ASSUME NEW m \in Console, Calm(m)
  PROVE  /\ Pass(m) \in Console
         /\ Like(m, Pass(m)) /\ Local(Pass(m))
         /\ Pass(m).hold = m.hold /\ Pass(m).epoch = m.epoch
         /\ Pass(m).dropped = m.dropped /\ Pass(m).tick = m.tick
<1>1. Pass(m) \in Console
  BY PassType
<1>2. /\ Pass(m).hold = m.hold /\ Pass(m).applied = m.applied
      /\ Pass(m).dropped = m.dropped /\ Pass(m).rej = m.rej
      /\ Pass(m).epoch = m.epoch /\ Pass(m).tick = m.tick
  BY DEF Pass, Freeze, Console
<1>3. ~m.dropped => /\ Pass(m).pc = IF m.hold THEN "hold" ELSE "pump"
                    /\ Pass(m).begun = FALSE
  BY DEF Pass, Freeze, Console
<1>. QED
  BY <1>1, <1>2, <1>3 DEF Like, Local, Calm

(* RS_PENDING: the guest goes on, the host may push.                       *)
LEMMA PendingImage ==
  ASSUME TypeOK, NEW c \in Seat, NEW m \in Console, NEW ch, Net(ch),
         Calm(m), c = Host => ~m.hold, Pending(c, m, ch)
  PROVE  Done(c, m) /\ Net(chan')
<1>. DEFINE waited == [m EXCEPT !.ptmo = @ + 1]
            held == [EnterHold(waited) EXCEPT !.resume = Plus(m.tick, ResumeAhead)]
            n == Rebase(held)
<1>1. /\ waited \in Console /\ waited.hold = m.hold /\ waited.applied = m.applied
      /\ waited.dropped = m.dropped /\ waited.rej = m.rej /\ waited.epoch = m.epoch
  <2>1. m.ptmo + 1 \in Nat
    BY DEF Console
  <2>. QED
    BY <2>1 DEF Console
<1>. HIDE DEF waited
<1>2. /\ EnterHold(waited) \in Console
      /\ EnterHold(waited).dropped = m.dropped /\ EnterHold(waited).rej = m.rej
  BY <1>1, EnterHoldType DEF EnterHold, Console
<1>3. Plus(m.tick, ResumeAhead) \in Tick
  <2>1. m.tick \in Int /\ ResumeAhead \in Int
    BY SizeAssumption DEF Console, Tick
  <2>. QED
    BY <2>1, PlusType
<1>4. held \in Console /\ held.dropped = m.dropped /\ held.rej = m.rej
  BY <1>2, <1>3 DEF Console
<1>. HIDE DEF held
<1>5. /\ n \in Console /\ n.dropped = m.dropped /\ n.rej = m.rej
      /\ n.hold = FALSE /\ n.applied = {}
  BY ZenonT(40), <1>4, RebaseType DEF Rebase, Console
<1>. HIDE DEF n
<1>6. Calm(waited) /\ Like(m, waited) /\ Calm(n)
  BY <1>1, <1>5 DEF Calm, Like
<1>7. CASE con' = [con EXCEPT ![c] = Pass(m)] /\ chan' = ch
  <2>1. IF c = Host THEN ~Pass(m).hold ELSE Pass(m).epoch = m.epoch
    BY PassImage
  <2>2. Pass(m) \in Console /\ Like(m, Pass(m)) /\ Local(Pass(m))
    BY PassImage
  <2>. QED
    BY <1>7, <2>1, <2>2 DEF Done
<1>8. CASE con' = [con EXCEPT ![c] = Pass(waited)] /\ chan' = ch
  <2>1. IF c = Host THEN ~Pass(waited).hold ELSE Pass(waited).epoch = m.epoch
    BY <1>1, <1>6, PassImage
  <2>2. Pass(waited) \in Console /\ Like(waited, Pass(waited)) /\ Local(Pass(waited))
    BY <1>1, <1>6, PassImage
  <2>3. Like(m, Pass(waited))
    BY <1>6, <2>2, LikeTwice
  <2>. QED
    BY <1>8, <2>1, <2>2, <2>3 DEF Done
<1>9. CASE /\ c = Host
           /\ con' = [con EXCEPT ![c] = Pass(n)]
           /\ chan' = Sent(ch, c, PushFrames(held))
  <2>1. Pass(n) \in Console /\ Like(n, Pass(n)) /\ Local(Pass(n)) /\ ~Pass(n).hold
    BY <1>5, <1>6, PassImage
  <2>2. Like(m, n)
    <3>1. m.hold = FALSE
      BY <1>9 DEF Console
    <3>. QED
      BY <1>5, <3>1 DEF Like
  <2>3. Like(m, Pass(n))
    BY <2>1, <2>2, LikeTwice
  <2>4. Net(chan')
    BY <1>4, <1>9, PushWhole, PushFramesType, NetSent
  <2>. QED
    BY <1>9, <2>1, <2>3, <2>4 DEF Done
<1>10. \/ con' = [con EXCEPT ![c] = Pass(m)] /\ chan' = ch
       \/ con' = [con EXCEPT ![c] = Pass(waited)] /\ chan' = ch
       \/ /\ c = Host
          /\ con' = [con EXCEPT ![c] = Pass(n)]
          /\ chan' = Sent(ch, c, PushFrames(held))
  BY DEF Pending, waited, held, n
<1>. QED
  BY <1>7, <1>8, <1>9, <1>10

(* The tick: the report is a whole write, the rest leaves images alone.    *)
LEMMA RunTickImage ==
  ASSUME TypeOK, NEW c \in Seat, NEW m \in Console, NEW ch, Net(ch),
         Calm(m), c = Host => ~m.hold, RunTick(c, m, ch)
  PROVE  Done(c, m) /\ Net(chan')
<1>. DEFINE ran == Unfreeze(m)
            reported == IF CrcDue(m.tick) THEN RecordCrc(ran) ELSE ran
            report == [type |-> "CRC", tick |-> m.tick, sum |-> Cksum(m.world)]
            counted == [reported EXCEPT !.tick = Plus(m.tick, 1)]
            net == IF CrcDue(m.tick) THEN Sent(ch, c, <<report>>) ELSE ch
<1>1. /\ ran \in Console /\ ran.hold = m.hold /\ ran.applied = m.applied
      /\ ran.dropped = m.dropped /\ ran.rej = m.rej /\ ran.epoch = m.epoch
  <2>1. ran \in Console
    BY UnfreezeType
  <2>2. /\ ran.hold = m.hold /\ ran.applied = m.applied
        /\ ran.dropped = m.dropped /\ ran.rej = m.rej /\ ran.epoch = m.epoch
    BY DEF Unfreeze, Console
  <2>. QED
    BY <2>1, <2>2
<1>. HIDE DEF ran
<1>2. /\ reported \in Console /\ reported.hold = m.hold /\ reported.applied = m.applied
      /\ reported.dropped = m.dropped /\ reported.rej = m.rej /\ reported.epoch = m.epoch
  <2>1. reported \in Console
    BY <1>1, RecordCrcType
  <2>2. /\ reported.hold = ran.hold /\ reported.applied = ran.applied
        /\ reported.dropped = ran.dropped /\ reported.rej = ran.rej
        /\ reported.epoch = ran.epoch
    BY <1>1 DEF RecordCrc, Console
  <2>. QED
    BY <1>1, <2>1, <2>2
<1>. HIDE DEF reported
<1>3. Plus(m.tick, 1) \in Tick
  BY PlusType DEF Console, Tick
<1>4. /\ counted \in Console /\ counted.hold = m.hold /\ counted.applied = m.applied
      /\ counted.dropped = m.dropped /\ counted.rej = m.rej /\ counted.epoch = m.epoch
  BY <1>2, <1>3 DEF Console
<1>. HIDE DEF counted
<1>5. Calm(counted) /\ Like(m, counted)
  BY <1>4 DEF Calm, Like
<1>6. Net(net)
  <2>1. Whole(<<report>>) /\ Quiet(<<report>>)
    BY OneWhole DEF Plain, Quiet
  <2>2. <<report>> \in Seq(Frame)
    <3>1. m.tick \in Tick /\ Cksum(m.world) \in [Summed -> Label]
      BY CksumType DEF Console
    <3>. QED
      BY <3>1 DEF Frame
  <2>. HIDE DEF report
  <2>. QED
    BY <2>1, <2>2, NetSent
<1>7. Pending(c, counted, net)
  BY DEF RunTick, counted, reported, ran
<1>. HIDE DEF net
<1>8. Done(c, counted) /\ Net(chan')
  BY <1>4, <1>5, <1>6, <1>7, PendingImage
<1>9. Done(c, m)
  <2>1. PICK n \in Console :
          /\ con' = [con EXCEPT ![c] = n]
          /\ Like(counted, n)
          /\ Local(n)
          /\ IF c = Host THEN ~n.hold ELSE n.epoch = counted.epoch
    BY <1>8 DEF Done
  <2>2. Like(m, n)
    BY <1>5, <2>1, LikeTwice
  <2>. QED
    BY <1>4, <2>1, <2>2 DEF Done
<1>. QED
  BY <1>8, <1>9

(* The gate: a closed one leaves a console that waits at it.               *)
LEMMA GateImage ==
  ASSUME TypeOK, NEW c \in Seat, NEW m \in Console, NEW ch, Net(ch),
         Calm(m), c = Host => ~m.hold, Gate(c, m, ch)
  PROVE  Done(c, m) /\ Net(chan')
<1>1. CASE RunTick(c, m, ch)
  BY <1>1, RunTickImage
<1>2. CASE /\ ~Open(m)
           /\ con' = [con EXCEPT ![c] = [Freeze(m) EXCEPT !.pc = "stall", !.begun = FALSE]]
           /\ chan' = ch
  <2>. DEFINE n == [Freeze(m) EXCEPT !.pc = "stall", !.begun = FALSE]
  <2>1. Freeze(m) \in Console
    BY FreezeType
  <2>2. n \in Console
    BY <2>1 DEF Console
  <2>3. /\ Freeze(m).hold = m.hold /\ Freeze(m).applied = m.applied
        /\ Freeze(m).dropped = m.dropped /\ Freeze(m).rej = m.rej
        /\ Freeze(m).epoch = m.epoch /\ Freeze(m).wm = m.wm /\ Freeze(m).tick = m.tick
    BY DEF Freeze, Console
  <2>4. /\ n.hold = m.hold /\ n.applied = m.applied /\ n.dropped = m.dropped
        /\ n.rej = m.rej /\ n.epoch = m.epoch /\ n.wm = m.wm /\ n.tick = m.tick
        /\ n.begun = FALSE /\ n.pc = "stall"
    BY <2>1, <2>3 DEF Console
  <2>. HIDE DEF n
  <2>5. Local(n) /\ Like(m, n)
    BY <1>2, <2>4 DEF Local, Like, Calm, Open
  <2>6. con' = [con EXCEPT ![c] = n]
    BY <1>2 DEF n
  <2>. QED
    BY <1>2, <2>2, <2>4, <2>5, <2>6 DEF Done
<1>. QED
  BY <1>1, <1>2 DEF Gate

(* What the invariant says of one console and of the network.              *)
LEMMA ImageNow ==
  ASSUME TypeOK, Image, NEW c \in Seat
  PROVE  /\ con[c] \in Console /\ Net(chan)
         /\ Calm(con[c]) /\ Local(con[c])
         /\ c = Host => ~con[c].hold
<1>1. con[c] \in Console /\ Net(chan) /\ Local(con[c])
  BY DEF TypeOK, Image, Net
<1>. QED
  BY <1>1 DEF Image, Local, Calm

(* Every step of LS_PASS goes on from the console it found.                *)
LEMMA StepDone ==
  ASSUME TypeOK, Image, NEW c \in Seat, SampleInput(c) \/ StallRound(c) \/ HoldRound(c)
  PROVE  Done(c, con[c]) /\ Net(chan')
<1>0. /\ con[c] \in Console /\ Net(chan)
      /\ Calm(con[c])
      /\ c = Host => ~con[c].hold
  BY ImageNow
<1>1. CASE SampleInput(c)
  <2>. DEFINE t == Plus(con[c].tick, Delay)
  <2>1. PICK v \in Inputs :
          Gate(c, [con[c] EXCEPT !.ring[c][Slot(t)] = v],
               Sent(chan, c, <<[type |-> "INPUT", tick |-> t, in |-> v]>>))
    BY <1>1 DEF SampleInput
  <2>. DEFINE m == [con[c] EXCEPT !.ring[c][Slot(t)] = v]
              f == [type |-> "INPUT", tick |-> t, in |-> v]
              net == Sent(chan, c, <<f>>)
  <2>2. t \in Tick
    <3>1. con[c].tick \in Int /\ Delay \in Int
      BY <1>0, SizeAssumption DEF Console, Tick
    <3>. QED
      BY <3>1, PlusType
  <2>3. <<f>> \in Seq(Frame)
    BY <2>2 DEF Frame
  <2>4. m \in Console
    BY <1>0 DEF Console
  <2>5. /\ m.hold = con[c].hold /\ m.applied = con[c].applied
        /\ m.dropped = con[c].dropped /\ m.rej = con[c].rej /\ m.epoch = con[c].epoch
    BY <1>0 DEF Console
  <2>6. Gate(c, m, net)
    BY <2>1
  <2>. HIDE DEF m
  <2>7. Whole(<<f>>) /\ Quiet(<<f>>)
    BY OneWhole DEF Plain, Quiet
  <2>. HIDE DEF f
  <2>8. Net(net)
    BY <1>0, <2>3, <2>7, NetSent
  <2>. HIDE DEF net
  <2>9. Calm(m) /\ Like(con[c], m)
    BY <1>0, <2>5 DEF Calm, Like
  <2>10. Done(c, m) /\ Net(chan')
    BY <1>0, <2>4, <2>5, <2>6, <2>8, <2>9, GateImage
  <2>11. PICK n \in Console :
          /\ con' = [con EXCEPT ![c] = n]
          /\ Like(m, n)
          /\ Local(n)
          /\ IF c = Host THEN ~n.hold ELSE n.epoch = m.epoch
    BY <2>10 DEF Done
  <2>12. Like(con[c], n)
    BY <2>9, <2>11, LikeTwice
  <2>. QED
    BY <2>5, <2>10, <2>11, <2>12 DEF Done
<1>2. CASE StallRound(c)
  <2>. DEFINE m == [con[c] EXCEPT !.waitc = IF GateRounds = 0 THEN 0 ELSE @ + 1]
              n == IF GateRounds # 0 /\ m.waitc >= GateRounds THEN Drop(m, "lost") ELSE m
  <2>1. /\ m \in Console
        /\ m.hold = con[c].hold /\ m.applied = con[c].applied
        /\ m.dropped = con[c].dropped /\ m.rej = con[c].rej /\ m.epoch = con[c].epoch
    <3>1. con[c].waitc + 1 \in Nat
      BY <1>0 DEF Console
    <3>. QED
      BY <1>0, <3>1 DEF Console
  <2>2. Gate(c, n, chan)
    BY <1>2 DEF StallRound
  <2>. HIDE DEF m
  <2>3. /\ Drop(m, "lost").hold = m.hold /\ Drop(m, "lost").applied = m.applied
        /\ Drop(m, "lost").dropped /\ Drop(m, "lost").epoch = m.epoch
    BY <2>1 DEF Drop, IdleRemote, Console
  <2>4. /\ n \in Console /\ Calm(n) /\ Like(con[c], n)
        /\ n.hold = con[c].hold /\ n.epoch = con[c].epoch
    BY <1>0, <2>1, <2>3, DropType DEF Calm, Like
  <2>. HIDE DEF n
  <2>5. Done(c, n) /\ Net(chan')
    BY <1>0, <2>2, <2>4, GateImage
  <2>6. PICK l \in Console :
          /\ con' = [con EXCEPT ![c] = l]
          /\ Like(n, l)
          /\ Local(l)
          /\ IF c = Host THEN ~l.hold ELSE l.epoch = n.epoch
    BY <2>5 DEF Done
  <2>7. Like(con[c], l)
    BY <2>4, <2>6, LikeTwice
  <2>. QED
    BY <2>4, <2>5, <2>6, <2>7 DEF Done
<1>3. CASE HoldRound(c)
  <2>. DEFINE m == [con[c] EXCEPT !.rsto = IF HoldRounds = 0 THEN 0 ELSE @ + 1]
              d == [m EXCEPT !.hold = FALSE]
              n == IF HoldRounds # 0 /\ m.rsto >= HoldRounds THEN Drop(d, "lost") ELSE m
  <2>1. /\ m \in Console
        /\ m.hold = con[c].hold /\ m.applied = con[c].applied
        /\ m.dropped = con[c].dropped /\ m.rej = con[c].rej /\ m.epoch = con[c].epoch
    <3>1. con[c].rsto + 1 \in Nat
      BY <1>0 DEF Console
    <3>. QED
      BY <1>0, <3>1 DEF Console
  <2>2. con' = [con EXCEPT ![c] = Pass(n)] /\ chan' = chan
    BY <1>3 DEF HoldRound
  <2>. HIDE DEF m
  <2>3. d \in Console /\ d.hold = FALSE /\ d.epoch = m.epoch
    BY <2>1 DEF Console
  <2>. HIDE DEF d
  <2>4. /\ Drop(d, "lost").hold = FALSE
        /\ Drop(d, "lost").dropped /\ Drop(d, "lost").epoch = m.epoch
    BY <2>3 DEF Drop, IdleRemote, Console
  <2>5. /\ n \in Console /\ Calm(n) /\ Like(con[c], n)
        /\ n.hold = FALSE \/ n.hold = con[c].hold
        /\ n.epoch = con[c].epoch
    BY <1>0, <2>1, <2>3, <2>4, DropType DEF Calm, Like
  <2>. HIDE DEF n
  <2>6. /\ Pass(n) \in Console /\ Like(n, Pass(n)) /\ Local(Pass(n))
        /\ Pass(n).hold = n.hold /\ Pass(n).epoch = n.epoch
    BY <2>5, PassImage
  <2>7. Like(con[c], Pass(n))
    BY <2>5, <2>6, LikeTwice
  <2>8. IF c = Host THEN ~Pass(n).hold ELSE Pass(n).epoch = con[c].epoch
    BY <1>0, <2>5, <2>6
  <2>. QED
    BY <1>0, <2>2, <2>6, <2>7, <2>8 DEF Done
<1>. QED
  BY <1>1, <1>2, <1>3

-----------------------------------------------------------------------------
(* The frame handlers.                                                     *)

(* With n after it read f, a console is ready for whatever may follow.     *)
Ready(f, n) ==
  ~n.dropped => /\ \A g \in Frame : Follows(f, g) => Comes(n, g)
                /\ f.type \notin Opens => ~n.hold

(* Outside a push it must be in no hold,                                   *)
LEMMA ReadyPlain ==
  ASSUME NEW f, f.type \in {"INPUT", "CRC", "REQ", "END"}, NEW n, n.dropped \/ ~n.hold
  PROVE  Ready(f, n)
BY DEF Ready, Follows, Comes, Plain, Opens

(* after BEGIN in a hold with nothing in place,                            *)
LEMMA ReadyBegin ==
  ASSUME NEW f, f.type = "BEGIN", NEW n, n.hold, n.applied = {}
  PROVE  Ready(f, n)
<1>1. ASSUME NEW g \in Frame, Follows(f, g) PROVE Comes(n, g)
  <2>1. CASE g.type = "CHUNK"
    <3>1. g.pos = 1
      BY <1>1, <2>1 DEF Follows
    <3>2. 1 .. g.pos - 1 = {}
      BY <3>1
    <3>. QED
      BY <2>1, <3>2 DEF Comes, Plain
  <2>2. CASE g.type # "CHUNK"
    BY <1>1, <2>2 DEF Follows, Comes, Plain, Opens
  <2>. QED
    BY <2>1, <2>2
<1>. QED
  BY <1>1 DEF Ready, Opens

(* after a part in a hold with the parts so far in place.                  *)
LEMMA ReadyChunk ==
  ASSUME NEW f, f.type = "CHUNK", f.pos \in Parts, NEW n,
         ~n.dropped => n.hold /\ n.applied = 1 .. f.pos
  PROVE  Ready(f, n)
<1>1. ASSUME NEW g \in Frame, Follows(f, g), ~n.dropped PROVE Comes(n, g)
  <2>1. CASE g.type = "CHUNK"
    <3>1. g.pos = f.pos + 1 /\ f.pos \in Int
      BY <1>1, <2>1 DEF Follows, Parts
    <3>2. 1 .. g.pos - 1 = 1 .. f.pos
      BY <3>1
    <3>. QED
      BY <1>1, <2>1, <3>2 DEF Comes, Plain
  <2>2. CASE g.type = "END"
    BY <1>1, <2>2 DEF Follows, Comes, Plain, Parts
  <2>3. CASE g.type \notin {"CHUNK", "END"}
    BY <1>1, <2>3 DEF Follows, Comes, Plain, Opens
  <2>. QED
    BY <2>1, <2>2, <2>3
<1>. QED
  BY <1>1 DEF Ready, Opens

(* A console that is ready for what follows reads on.                      *)
LEMMA ReadImage ==
  ASSUME TypeOK, Image, NEW c \in Seat, chan[c] # <<>>, NEW n \in Console,
         con' = [con EXCEPT ![c] = n], room' = room,
         chan'[c] = Tail(chan[c]),
         \A d \in Seat : d # c => Line(con[d], chan'[d]),
         c # Host => Quiet(chan'[Host]),
         Ready(Head(chan[c]), n), Local(n), c = Host => ~n.hold
  PROVE  Image'
<1>1. con'[c] = n /\ \A d \in Seat : d # c => con'[d] = con[d]
  BY DEF TypeOK
<1>2. chan[c] \in Seq(Frame) /\ Line(con[c], chan[c])
  BY DEF TypeOK, Image
<1>. DEFINE s == chan[c]
<1>3. /\ Chain(Tail(s))
      /\ Tail(s) # <<>> => Follows(Head(s), Tail(s)[1]) /\ Tail(s)[1] \in Frame
      /\ room => Shut(Tail(s)) /\ (Tail(s) = <<>> => Head(s).type \notin Opens)
  <2>1. Tail(s) # <<>> => Tail(s)[1] \in Frame
    <3>1. Tail(s) \in Seq(Frame)
      BY <1>2, HeadTailProperties
    <3>2. Tail(s) # <<>> => 1 \in 1 .. Len(Tail(s))
      BY <3>1, LenProperties, EmptySeq
    <3>. QED
      BY <3>1, <3>2, ElementOfSeq
  <2>. QED
    BY <1>2, <2>1, ChainTail DEF Line
<1>4. Line(n, Tail(s))
  BY <1>3 DEF Line, Ready
<1>5. \A d \in Seat : Line(con'[d], chan'[d]) /\ Local(con'[d])
  BY <1>1, <1>4 DEF Image
<1>6. ~con'[Host].hold /\ Quiet(chan'[Host])
  <2>1. CASE c = Host
    <3>1. /\ Len(Tail(s)) = Len(s) - 1
          /\ \A i \in 1 .. Len(Tail(s)) : Tail(s)[i] = s[i + 1]
          /\ Len(s) \in Nat
      BY <1>2, HeadTailProperties, LenProperties
    <3>2. ASSUME NEW i \in 1 .. Len(Tail(s))
          PROVE  Tail(s)[i].type \notin {"BEGIN", "CHUNK", "END"}
      <4>1. i + 1 \in 1 .. Len(s)
        BY <3>1
      <4>. QED
        BY <2>1, <3>1, <4>1 DEF Image, Quiet
    <3>. QED
      BY <1>1, <2>1, <3>2 DEF Quiet
  <2>2. CASE c # Host
    BY <1>1, <2>2 DEF Image, Host, Seat
  <2>. QED
    BY <2>1, <2>2
<1>. QED
  BY <1>5, <1>6 DEF Image, Line

(* Every frame handler keeps the invariant.                                *)
LEMMA DeliverImage ==
  ASSUME TypeOK, Image, NEW c \in Seat, Deliver(c)
  PROVE  Image'
<1>. DEFINE m == con[c]
            f == Head(chan[c])
<1>0. /\ m \in Console /\ Net(chan) /\ Calm(m) /\ Local(m)
      /\ c = Host => ~m.hold
  BY ImageNow
<1>1. /\ chan[c] # <<>> /\ m.pc \in {"pump", "stall", "hold"}
      /\ room' = room
  BY DEF Deliver, OnInput, OnCrc, OnReq, OnBegin, OnChunk, OnEnd, OnPeerLeft, Arrives
<1>2. f \in Frame /\ Consumed(c) \in [Seat -> Seq(Frame)]
  BY <1>1, ConsumedType
<1>3. ~m.dropped => Comes(m, f)
  <2>1. chan[c] \in Seq(Frame)
    BY DEF TypeOK
  <2>2. f = chan[c][1]
    BY <1>1, <2>1, HeadTailProperties
  <2>. QED
    BY <1>1, <2>2 DEF Image, Line
<1>4. c = Host => f.type \notin {"BEGIN", "CHUNK", "END"}
  <2>1. chan[c] \in Seq(Frame) /\ Len(chan[c]) \in Nat
    BY LenProperties DEF TypeOK
  <2>2. f = chan[c][1] /\ 1 \in 1 .. Len(chan[c])
    BY <1>1, <2>1, HeadTailProperties, EmptySeq
  <2>. QED
    BY <2>2 DEF Image, Quiet
<1>5. ASSUME chan' = Consumed(c)
      PROVE  /\ chan'[c] = Tail(chan[c])
             /\ \A d \in Seat : d # c => Line(con[d], chan'[d])
             /\ c # Host => Quiet(chan'[Host])
  BY <1>5 DEF Consumed, TypeOK, Image, Host, Seat
<1>6. ASSUME con' = con PROVE con' = [con EXCEPT ![c] = m]
  BY <1>6 DEF TypeOK
<1>. DEFINE moved == [m EXCEPT !.ring[Peer(c)][Slot(f.tick)] = f.in, !.wm = f.tick]
<1>7. CASE OnInput(c)
  <2>1. f \in [type : {"INPUT"}, tick : Tick, in : Inputs]
    BY <1>2, <1>7 DEF Frame, OnInput, Arrives
  <2>2. moved \in Console
    BY <1>0, <2>1, PeerType DEF Console
  <2>3. /\ moved.dropped = m.dropped /\ moved.hold = m.hold /\ moved.applied = m.applied
        /\ moved.begun = m.begun /\ moved.rej = m.rej /\ moved.pc = m.pc
    BY <1>0 DEF Console
  <2>4. con' = [con EXCEPT ![c] = m] \/ con' = [con EXCEPT ![c] = moved]
    BY <1>7 DEF OnInput, TypeOK, Console
  <2>5. ~m.dropped => ~m.hold
    BY <1>3, <2>1 DEF Comes, Plain
  <2>. HIDE DEF moved
  <2>6. Local(moved)
    BY <1>0, <2>3, <2>5 DEF Local
  <2>7. Ready(f, m) /\ Ready(f, moved)
    BY <2>1, <2>3, <2>5, ReadyPlain
  <2>8. chan' = Consumed(c)
    BY <1>7 DEF OnInput
  <2>. QED
    BY <1>0, <1>1, <1>5, <2>2, <2>3, <2>4, <2>6, <2>7, <2>8, ReadImage
<1>8. CASE OnCrc(c) \/ OnReq(c)
  <2>1. f.type \in {"CRC", "REQ"}
    BY <1>8 DEF OnCrc, OnReq, Arrives
  <2>2. ~m.dropped => ~m.hold
    BY <1>3, <2>1 DEF Comes, Plain
  <2>3. /\ Want(m) \in Console
        /\ Want(m).dropped = m.dropped /\ Want(m).hold = m.hold
        /\ Want(m).applied = m.applied /\ Want(m).begun = m.begun
        /\ Want(m).rej = m.rej /\ Want(m).pc = m.pc
    BY <1>0, WantType DEF Want, Console
  <2>4. con' = [con EXCEPT ![c] = m] \/ con' = [con EXCEPT ![c] = Want(m)]
    BY <1>6, <1>8 DEF OnCrc, OnReq
  <2>5. Local(Want(m)) /\ Ready(f, m) /\ Ready(f, Want(m))
    BY <1>0, <2>1, <2>2, <2>3, ReadyPlain DEF Local
  <2>6. /\ chan'[c] = Tail(chan[c])
        /\ \A d \in Seat : d # c => Line(con[d], chan'[d])
        /\ c # Host => Quiet(chan'[Host])
    <3>1. CASE chan' = Consumed(c)
      BY <1>5, <3>1
    <3>2. CASE /\ OnCrc(c) /\ c # Host
               /\ chan' = Sent(Consumed(c), c, <<[type |-> "REQ", tick |-> f.tick]>>)
      <4>. DEFINE q == <<[type |-> "REQ", tick |-> f.tick]>>
      <4>1. f \in [type : {"CRC"}, tick : Tick, sum : [Summed -> Label]]
        BY <1>2, <3>2 DEF Frame, OnCrc, Arrives
      <4>2. q \in Seq(Frame)
        BY <4>1 DEF Frame
      <4>3. Whole(q) /\ Quiet(q)
        BY OneWhole DEF Plain, Quiet
      <4>. HIDE DEF q
      <4>4. Net(Sent(chan, c, q))
        BY <1>0, <4>2, <4>3, NetSent
      <4>5. /\ \A d \in Seat : d # c => chan'[d] = Sent(chan, c, q)[d]
            /\ chan'[c] = Tail(chan[c])
        <5>1. Peer(c) \in Seat /\ Peer(c) # c
          BY PeerType
        <5>. QED
          BY <3>2, <5>1 DEF Sent, Consumed, TypeOK, q
      <4>. QED
        BY <3>2, <4>4, <4>5 DEF Net, Host, Seat
    <3>. QED
      BY <1>8, <3>1, <3>2 DEF OnCrc, OnReq
  <2>. QED
    BY <1>0, <1>1, <2>3, <2>4, <2>5, <2>6, ReadImage
<1>9. CASE OnBegin(c)
  <2>. DEFINE n == [EnterHold(m) EXCEPT !.resume = f.tick, !.begun = TRUE]
  <2>1. f.type = "BEGIN" /\ f.tick \in Tick
    BY <1>2, <1>9 DEF Frame, OnBegin, Arrives
  <2>2. EnterHold(m) \in Console
    BY <1>0, EnterHoldType
  <2>3. /\ EnterHold(m).dropped = m.dropped /\ EnterHold(m).rej = m.rej
        /\ EnterHold(m).applied = {} /\ EnterHold(m).hold /\ EnterHold(m).pc = m.pc
    BY <1>0 DEF EnterHold, Console
  <2>4. /\ n \in Console /\ n.dropped = m.dropped /\ n.rej = m.rej
        /\ n.applied = {} /\ n.hold /\ n.begun /\ n.pc = m.pc
    BY <2>1, <2>2, <2>3 DEF Console
  <2>5. con' = [con EXCEPT ![c] = n] /\ chan' = Consumed(c)
    BY <1>9 DEF OnBegin
  <2>. HIDE DEF n
  <2>6. Local(n) /\ Ready(f, n)
    BY <1>0, <2>1, <2>4, ReadyBegin DEF Local
  <2>7. c # Host
    BY <1>4, <2>1
  <2>. QED
    BY <1>1, <1>5, <2>4, <2>5, <2>6, <2>7, ReadImage
<1>10. CASE OnChunk(c)
  <2>. DEFINE n == PutChunk(m, f)
  <2>1. f \in [type : {"CHUNK"}, pos : Parts, data : Label]
    BY <1>2, <1>10 DEF Frame, OnChunk, Arrives
  <2>2. n \in Console
    BY <1>0, <2>1, PutChunkType
  <2>3. /\ n.dropped = m.dropped /\ n.hold = m.hold /\ n.begun = m.begun
        /\ n.pc = m.pc /\ n.wm = m.wm /\ n.tick = m.tick
        /\ m.hold => n.rej = m.rej /\ n.applied = m.applied \cup {f.pos}
    BY <1>0 DEF PutChunk, Console
  <2>4. ~m.dropped => m.hold /\ m.applied = 1 .. f.pos - 1 /\ ~m.begun
    BY <1>3, <1>10, <2>1 DEF Comes, OnChunk
  <2>5. con' = [con EXCEPT ![c] = n] /\ chan' = Consumed(c)
    BY <1>10 DEF OnChunk
  <2>. HIDE DEF n
  <2>6. ~n.dropped => n.hold /\ n.applied = 1 .. f.pos
    <3>1. (1 .. f.pos - 1) \cup {f.pos} = 1 .. f.pos
      BY <2>1 DEF Parts
    <3>. QED
      BY <2>3, <2>4, <3>1
  <2>7. Ready(f, n)
    BY <2>1, <2>6, ReadyChunk
  <2>8. Local(n)
    BY <1>0, <2>3, <2>4 DEF Local, Open
  <2>9. c # Host
    BY <1>4, <2>1
  <2>. QED
    BY <1>1, <1>5, <2>2, <2>5, <2>7, <2>8, <2>9, ReadImage
<1>11. CASE OnEnd(c)
  <2>1. f.type = "END"
    BY <1>11 DEF OnEnd, Arrives
  <2>2. con' = [con EXCEPT ![c] = IF m.hold THEN Rebase(m) ELSE m] /\ chan' = Consumed(c)
    BY <1>6, <1>11 DEF OnEnd
  <2>3. /\ Rebase(m) \in Console /\ ~Rebase(m).hold /\ Rebase(m).applied = {}
        /\ Rebase(m).dropped = m.dropped /\ Rebase(m).rej = m.rej
    BY ZenonT(40), <1>0, RebaseType DEF Rebase, Console
  <2>4. Local(Rebase(m)) /\ Ready(f, Rebase(m)) /\ (~m.hold => Ready(f, m))
    BY <1>0, <2>1, <2>3, ReadyPlain DEF Local
  <2>5. c # Host
    BY <1>4, <2>1
  <2>. QED
    BY <1>0, <1>1, <1>5, <2>2, <2>3, <2>4, <2>5, ReadImage
<1>12. CASE OnPeerLeft(c)
  <2>. DEFINE n == Drop(m, "left")
  <2>1. n \in Console /\ n.dropped /\ n.hold = m.hold
    <3>1. n \in Console
      BY <1>0, DropType
    <3>. QED
      BY <1>0, <3>1 DEF Drop, IdleRemote, Console
  <2>2. con' = [con EXCEPT ![c] = n] /\ chan' = Consumed(c)
    BY <1>12 DEF OnPeerLeft
  <2>. HIDE DEF n
  <2>3. Local(n) /\ Ready(f, n)
    BY <2>1 DEF Local, Ready
  <2>. QED
    BY <1>0, <1>1, <1>5, <2>1, <2>2, <2>3, ReadImage
<1>. QED
  BY <1>7, <1>8, <1>9, <1>10, <1>11, <1>12 DEF Deliver

-----------------------------------------------------------------------------
(* The environment, and the invariant.                                     *)

(* A divergence changes a game state only.                                 *)
LEMMA GlitchImage ==
  ASSUME TypeOK, Image, NEW c \in Seat, Glitch(c)
  PROVE  Image'
<1>1. PICK p \in Parts : con' = [con EXCEPT ![c] = [@ EXCEPT !.world[p] = glitches + 1]]
  BY DEF Glitch
<1>. DEFINE m == con[c]
            n == [m EXCEPT !.world[p] = glitches + 1]
<1>2. /\ m \in Console /\ Local(m)
      /\ c = Host => ~m.hold
  BY ImageNow
<1>3. /\ n.hold = m.hold /\ n.applied = m.applied /\ n.dropped = m.dropped
      /\ n.rej = m.rej /\ n.begun = m.begun /\ n.pc = m.pc
      /\ n.wm = m.wm /\ n.tick = m.tick
  BY <1>2 DEF Console
<1>4. /\ con' = [con EXCEPT ![c] = n]
      /\ con'[c] = n /\ \A d \in Seat : d # c => con'[d] = con[d]
      /\ chan' = chan /\ room' = room
  BY <1>1 DEF TypeOK, Glitch
<1>. HIDE DEF n
<1>5. Local(n) /\ Like(m, n)
  BY <1>2, <1>3 DEF Local, Like, Open
<1>6. \A d \in Seat : Line(con'[d], chan[d]) /\ Local(con'[d])
  BY <1>4, <1>5, LineLike DEF Image
<1>7. ~con'[Host].hold /\ Quiet(chan'[Host])
  BY <1>2, <1>3, <1>4 DEF Image, Host, Seat
<1>. QED
  BY <1>4, <1>6, <1>7 DEF Image, Line

(* What is left of two channels when the relay dissolves the room is still *)
(* in line: it may end in the middle of a push.                            *)
LEMMA LoseRoomImage ==
  ASSUME TypeOK, Image, NEW c \in Seat, LoseRoom(c)
  PROVE  Image'
<1>1. PICK n \in 0 .. Len(chan[c]), k \in 0 .. Len(chan[Peer(c)]) :
        chan' = [chan EXCEPT ![c] = SubSeq(@, 1, n),
                             ![Peer(c)] = Append(SubSeq(@, 1, k), [type |-> "LEFT"])]
  BY DEF LoseRoom
<1>. DEFINE s == SubSeq(chan[c], 1, n)
            t == SubSeq(chan[Peer(c)], 1, k)
            left == [type |-> "LEFT"]
            u == Append(t, left)
<1>2. /\ chan \in [Seat -> Seq(Frame)] /\ Peer(c) \in Seat /\ Peer(c) # c
      /\ \A d \in Seat : d = c \/ d = Peer(c)
  BY PeerType DEF TypeOK, Seat, Peer
<1>3. /\ chan'[c] = s /\ chan'[Peer(c)] = u /\ con' = con /\ room' = FALSE
  BY <1>1, <1>2 DEF LoseRoom
<1>4. \A d \in Seat : Chain(chan[d]) /\ (~con[d].dropped /\ chan[d] # <<>> => Comes(con[d], chan[d][1]))
  BY DEF Image, Line
<1>5. /\ s \in Seq(Frame) /\ Chain(s) /\ (s # <<>> => s[1] = chan[c][1])
      /\ t \in Seq(Frame) /\ Chain(t) /\ (t # <<>> => t[1] = chan[Peer(c)][1])
  BY <1>2, <1>4, ChainCut
<1>6. /\ s # <<>> => chan[c] # <<>>
      /\ t # <<>> => chan[Peer(c)] # <<>>
  <2>1. /\ Len(chan[c]) \in Nat /\ Len(chan[Peer(c)]) \in Nat
        /\ Len(s) = n /\ Len(t) = k
    BY <1>2, LenProperties, SubSeqProperties
  <2>2. (chan[c] = <<>> => n = 0) /\ (chan[Peer(c)] = <<>> => k = 0)
    BY <1>2, <2>1, EmptySeq
  <2>. QED
    BY <1>5, <2>1, <2>2, EmptySeq
<1>. HIDE DEF s, t
<1>7. Chain(s) /\ (~con[c].dropped /\ s # <<>> => Comes(con[c], s[1]))
  BY <1>4, <1>5, <1>6
<1>8. left \in Frame /\ left.type = "LEFT"
  BY DEF Frame
<1>9. /\ Chain(u) /\ Len(u) = Len(t) + 1 /\ Len(t) \in Nat
      /\ u[1] = IF t = <<>> THEN left ELSE t[1]
      /\ \A i \in 1 .. Len(t) : u[i] = t[i]
      /\ u[Len(t) + 1] = left
  <2>1. Chain(u)
    BY <1>5, ChainLeft
  <2>2. /\ Len(u) = Len(t) + 1 /\ Len(t) \in Nat
        /\ \A i \in 1 .. Len(t) : u[i] = t[i]
        /\ u[Len(t) + 1] = left
    BY <1>5, <1>8, AppendProperties, LenProperties
  <2>3. (t = <<>> => Len(t) = 0) /\ (t # <<>> => 1 \in 1 .. Len(t))
    BY <1>5, LenProperties, EmptySeq
  <2>. HIDE DEF u
  <2>. QED
    BY <2>1, <2>2, <2>3
<1>. HIDE DEF u, left
<1>10. \A m : Comes(m, left)
  BY <1>8 DEF Comes, Plain
<1>11. Chain(u) /\ (~con[Peer(c)].dropped => Comes(con[Peer(c)], u[1]))
  BY <1>2, <1>4, <1>5, <1>6, <1>9, <1>10
<1>12. \A d \in Seat : Line(con[d], chan[d])'
  BY <1>2, <1>3, <1>7, <1>11 DEF Line
<1>13. Quiet(chan'[Host])
  <2>1. Quiet(s) \/ c # Host
    <3>1. Len(s) = n /\ \A i \in 1 .. n : s[i] = chan[c][i]
      BY <1>2, SubSeqProperties DEF s
    <3>. QED
      BY <1>2, <3>1, LenProperties DEF Image, Quiet
  <2>2. Quiet(u) \/ Peer(c) # Host
    <3>1. Len(t) = k /\ \A i \in 1 .. k : t[i] = chan[Peer(c)][i]
      BY <1>2, SubSeqProperties DEF t
    <3>2. ASSUME Peer(c) = Host, NEW i \in 1 .. Len(u)
          PROVE  u[i].type \notin {"BEGIN", "CHUNK", "END"}
      <4>1. CASE i \in 1 .. Len(t)
        <5>1. i \in 1 .. Len(chan[Peer(c)]) /\ u[i] = chan[Peer(c)][i]
          BY <1>2, <1>9, <3>1, <4>1, LenProperties
        <5>. QED
          BY <3>2, <5>1 DEF Image, Quiet
      <4>2. CASE i = Len(t) + 1
        BY <1>8, <1>9, <4>2
      <4>. QED
        BY <1>9, <3>2, <4>1, <4>2
    <3>. QED
      BY <3>2 DEF Quiet
  <2>. QED
    BY <1>2, <1>3, <2>1, <2>2 DEF Host, Seat
<1>. QED
  BY <1>3, <1>12, <1>13 DEF Image

(* A match begins with empty channels and no hold.                         *)
LEMMA InitImage == Init => Image
<1>. SUFFICES ASSUME Init PROVE Image
  OBVIOUS
<1>1. \A c \in Seat : /\ chan[c] = <<>> /\ con[c].hold = FALSE /\ con[c].applied = {}
                      /\ con[c].dropped = FALSE /\ con[c].rej = FALSE
  BY DEF Init
<1>2. Chain(<<>>) /\ Shut(<<>>) /\ Quiet(<<>>)
  BY DEF Chain, Shut, Quiet
<1>. QED
  BY <1>1, <1>2 DEF Image, Line, Local, Host, Seat

LEMMA ImageStep == TypeOK /\ Image /\ [Next]_vars => Image'
<1>. SUFFICES ASSUME TypeOK, Image, [Next]_vars PROVE Image'
  OBVIOUS
<1>1. ASSUME NEW c \in Seat, Step(c) PROVE Image'
  <2>1. CASE Park(c)
    BY <2>1 DEF Park, vars, Image, Line
  <2>2. CASE SampleInput(c) \/ StallRound(c) \/ HoldRound(c)
    <3>1. room' = room
      BY <2>2 DEF SampleInput, StallRound, HoldRound
    <3>. QED
      BY <2>2, <3>1, StepDone, ImageUpdate
  <2>. QED
    BY <1>1, <2>1, <2>2 DEF Step
<1>2. ASSUME NEW c \in Seat, Deliver(c) PROVE Image'
  BY <1>2, DeliverImage
<1>3. ASSUME NEW c \in Seat, Glitch(c) PROVE Image'
  BY <1>3, GlitchImage
<1>4. ASSUME NEW c \in Seat, LoseRoom(c) PROVE Image'
  BY <1>4, LoseRoomImage
<1>5. CASE UNCHANGED vars
  BY <1>5 DEF vars, Image, Line
<1>. QED
  BY <1>1, <1>2, <1>3, <1>4, <1>5 DEF Next

LEMMA ImageAlways == Spec => []Image
  BY InitImage, ImageStep, TypeCorrect, PTL DEF Spec

(* While the match lasts no chunk of a push is refused, for every number   *)
(* of parts, time-out and order in which the two consoles run: each finds  *)
(* the hold open that its BEGIN opened.                                    *)
THEOREM ChunksTaken == Spec => []NoChunkRefused
<1>1. Image => NoChunkRefused
  BY DEF Image, Local, NoChunkRefused, Playing
<1>. QED
  BY <1>1, ImageAlways, PTL

-----------------------------------------------------------------------------
(* Whole images.                                                           *)

(* Freezing counts no tick.                                                *)
LEMMA FreezeTick ==
  ASSUME NEW m \in Console
  PROVE  [Freeze(m) EXCEPT !.pc = "stall", !.begun = FALSE].tick = m.tick
<1>1. Freeze(m) \in Console
  BY FreezeType
<1>2. Freeze(m).tick = m.tick
  BY DEF Freeze, Console
<1>. QED
  BY <1>1, <1>2 DEF Console

(* No step of LS_PASS runs a tick on part of an image, or rebases a guest. *)
LEMMA StepAtomic ==
  ASSUME TypeOK, Image, NEW c \in Seat, Step(c), Playing(c), ~con'[c].dropped
  PROVE  /\ Ticked(c) => con[c].applied = {}
         /\ Rebased(c) /\ c # Host => con[c].applied = Parts
<1>. DEFINE m == con[c]
<1>0. m \in Console /\ Local(m) /\ ~m.dropped
  BY ImageNow DEF Playing
<1>1. CASE Park(c)
  BY <1>1 DEF Park, vars, Ticked, Rebased
<1>2. ASSUME SampleInput(c) \/ StallRound(c) \/ HoldRound(c), c # Host PROVE ~Rebased(c)
  <2>1. PICK n \in Console : con' = [con EXCEPT ![c] = n] /\ n.epoch = m.epoch
    BY <1>2, StepDone DEF Done
  <2>. QED
    BY <2>1 DEF Rebased, TypeOK
<1>3. CASE SampleInput(c)
  <2>1. m.applied = {}
    BY <1>0, <1>3 DEF SampleInput, Local
  <2>. QED
    BY <1>2, <1>3, <2>1
<1>4. CASE StallRound(c)
  <2>. DEFINE w == [m EXCEPT !.waitc = IF GateRounds = 0 THEN 0 ELSE @ + 1]
              d == IF GateRounds # 0 /\ w.waitc >= GateRounds THEN Drop(w, "lost") ELSE w
  <2>. SUFFICES ASSUME m.applied # {} PROVE con'[c].tick = m.tick
    BY <1>2, <1>4 DEF Ticked
  <2>1. ~Open(m)
    BY <1>0, <1>4 DEF StallRound, Local
  <2>2. /\ w \in Console /\ w.dropped = m.dropped /\ w.wm = m.wm /\ w.tick = m.tick
        /\ w.hold = m.hold /\ w.applied = m.applied /\ w.rej = m.rej
    <3>1. m.waitc + 1 \in Nat
      BY <1>0 DEF Console
    <3>. QED
      BY <1>0, <3>1 DEF Console
  <2>3. Gate(c, d, chan)
    BY <1>4 DEF StallRound
  <2>. HIDE DEF w
  <2>4. CASE d = w
    <3>1. ~Open(w)
      BY <2>1, <2>2 DEF Open
    <3>2. con' = [con EXCEPT ![c] = [Freeze(w) EXCEPT !.pc = "stall", !.begun = FALSE]]
      BY <2>3, <2>4, <3>1 DEF Gate
    <3>. QED
      BY <2>2, <3>2, FreezeTick DEF TypeOK
  <2>5. CASE d = Drop(w, "lost")
    <3>1. Drop(w, "lost") \in Console /\ Drop(w, "lost").dropped
      <4>1. Drop(w, "lost") \in Console
        BY <2>2, DropType
      <4>. QED
        BY <2>2, <4>1 DEF Drop, IdleRemote, Console
    <3>2. Calm(d) /\ (c = Host => ~d.hold)
      <4>1. Drop(w, "lost").hold = w.hold
        BY <2>2 DEF Drop, IdleRemote, Console
      <4>. QED
        BY <2>2, <2>5, <3>1, <4>1, ImageNow DEF Calm
    <3>3. Net(chan)
      BY ImageNow
    <3>. HIDE DEF d
    <3>4. Done(c, d)
      BY <2>3, <2>5, <3>1, <3>2, <3>3, GateImage
    <3>5. con'[c].dropped
      BY <2>5, <3>1, <3>4 DEF Done, Like, TypeOK
    <3>. QED
      BY <3>5
  <2>. QED
    BY <2>4, <2>5
<1>5. CASE HoldRound(c)
  <2>. DEFINE w == [m EXCEPT !.rsto = IF HoldRounds = 0 THEN 0 ELSE @ + 1]
              d == [w EXCEPT !.hold = FALSE]
              n == IF HoldRounds # 0 /\ w.rsto >= HoldRounds THEN Drop(d, "lost") ELSE w
  <2>1. w \in Console /\ w.tick = m.tick
    <3>1. m.rsto + 1 \in Nat
      BY <1>0 DEF Console
    <3>. QED
      BY <1>0, <3>1 DEF Console
  <2>2. con' = [con EXCEPT ![c] = Pass(n)]
    BY <1>5 DEF HoldRound
  <2>. HIDE DEF w
  <2>3. Pass(w).tick = m.tick
    BY <2>1 DEF Pass, Freeze, Console
  <2>4. Pass(Drop(d, "lost")).dropped
    <3>1. d \in Console
      BY <2>1 DEF Console
    <3>. HIDE DEF d
    <3>2. Drop(d, "lost") \in Console
      BY <3>1, DropType
    <3>3. Drop(d, "lost").dropped
      BY <3>1 DEF Drop, IdleRemote, Console
    <3>. QED
      BY <3>2, <3>3 DEF Pass, Freeze, Console
  <2>5. con'[c].tick = m.tick \/ con'[c].dropped
    BY <2>2, <2>3, <2>4 DEF TypeOK
  <2>. QED
    BY <1>2, <1>5, <2>5 DEF Ticked
<1>. QED
  BY <1>1, <1>3, <1>4, <1>5 DEF Step

(* Of the frame handlers only END's renumbers, and it has every part.      *)
LEMMA DeliverAtomic ==
  ASSUME TypeOK, Image, NEW c \in Seat, Deliver(c), Playing(c)
  PROVE  /\ Ticked(c) => con[c].applied = {}
         /\ Rebased(c) => con[c].applied = Parts
<1>. DEFINE m == con[c]
            f == Head(chan[c])
<1>0. m \in Console
  BY DEF TypeOK
<1>1. CASE OnEnd(c)
  <2>1. chan[c] # <<>> /\ f.type = "END" /\ chan[c] \in Seq(Frame)
    BY <1>1 DEF OnEnd, Arrives, TypeOK
  <2>2. f = chan[c][1]
    BY <2>1, HeadTailProperties
  <2>3. m.applied = Parts
    BY <2>1, <2>2 DEF Image, Line, Comes, Playing
  <2>4. con' = con \/ con' = [con EXCEPT ![c] = Rebase(m)]
    BY <1>1 DEF OnEnd
  <2>5. Rebase(m).epoch = m.epoch + 1 /\ m.epoch \in Nat
    BY <1>0 DEF Rebase, Console
  <2>6. con' = con \/ con'[c].epoch = m.epoch + 1
    BY <2>4, <2>5 DEF TypeOK
  <2>7. ~Ticked(c)
    BY <2>5, <2>6 DEF Ticked, Rebased
  <2>. QED
    BY <2>3, <2>7
<1>2. CASE ~OnEnd(c)
  <2>1. \E n : /\ n.tick = m.tick /\ n.epoch = m.epoch
               /\ con' = [con EXCEPT ![c] = n] \/ con' = con
    <3>. DEFINE moved == [m EXCEPT !.ring[Peer(c)][Slot(f.tick)] = f.in, !.wm = f.tick]
                begun == [EnterHold(m) EXCEPT !.resume = f.tick, !.begun = TRUE]
    <3>1. con' \in {con, [con EXCEPT ![c] = moved], [con EXCEPT ![c] = Want(m)],
                   [con EXCEPT ![c] = begun], [con EXCEPT ![c] = PutChunk(m, f)],
                   [con EXCEPT ![c] = Drop(m, "left")]}
      <4>1. CASE OnInput(c)
        BY <4>1 DEF OnInput, TypeOK, Console
      <4>2. CASE OnCrc(c) \/ OnReq(c) \/ OnBegin(c) \/ OnChunk(c) \/ OnPeerLeft(c)
        BY <4>2 DEF OnCrc, OnReq, OnBegin, OnChunk, OnPeerLeft
      <4>. QED
        BY <1>2, <4>1, <4>2 DEF Deliver
    <3>2. moved.tick = m.tick /\ moved.epoch = m.epoch
      BY <1>0 DEF Console
    <3>3. begun.tick = m.tick /\ begun.epoch = m.epoch
      <4>1. EnterHold(m) \in Console /\ EnterHold(m).tick = m.tick /\ EnterHold(m).epoch = m.epoch
        BY <1>0, EnterHoldType DEF EnterHold, Console
      <4>. QED
        BY <4>1 DEF Console
    <3>4. /\ Want(m).tick = m.tick /\ Want(m).epoch = m.epoch
          /\ PutChunk(m, f).tick = m.tick /\ PutChunk(m, f).epoch = m.epoch
          /\ Drop(m, "left").tick = m.tick /\ Drop(m, "left").epoch = m.epoch
      BY <1>0 DEF Want, PutChunk, Drop, IdleRemote, Console
    <3>. HIDE DEF moved, begun
    <3>. QED
      BY <3>1, <3>2, <3>3, <3>4
  <2>2. con'[c].tick = m.tick /\ con'[c].epoch = m.epoch
    BY <2>1 DEF TypeOK
  <2>. QED
    BY <2>2 DEF Ticked, Rebased
<1>. QED
  BY <1>1, <1>2

(* A state image is swapped in whole between two ticks: the guest rebases  *)
(* with every part in place, and no tick runs on a part of one, however    *)
(* pumps, stalls and holds divide the frames of a push between them.       *)
THEOREM ImageTakenWhole == Spec => ImageAtomic
<1>. DEFINE Whether(c) ==
              Playing(c) /\ ~con'[c].dropped =>
                /\ Ticked(c) => con[c].applied = {}
                /\ Rebased(c) /\ c # Host => con[c].applied = Parts
<1>1. ASSUME TypeOK, Image, [Next]_vars PROVE [\A c \in Seat : Whether(c)]_vars
  <2>. SUFFICES ASSUME Next, NEW c \in Seat PROVE Whether(c)
    BY <1>1
  <2>1. ASSUME con'[c] = con[c] PROVE Whether(c)
    BY <2>1 DEF Ticked, Rebased
  <2>2. CASE Step(c)
    BY <1>1, <2>2, StepAtomic
  <2>3. CASE Deliver(c)
    BY <1>1, <2>3, DeliverAtomic
  <2>4. ASSUME NEW d \in Seat, d # c, Step(d) \/ Deliver(d) PROVE con'[c] = con[c]
    <3>1. \E n : con' = [con EXCEPT ![d] = n]
      <4>1. CASE SampleInput(d) \/ StallRound(d) \/ HoldRound(d)
        BY <1>1, <4>1, StepDone DEF Done
      <4>2. CASE con' = con
        BY <1>1, <4>2 DEF TypeOK
      <4>3. CASE OnInput(d)
        BY <1>1, <4>2, <4>3 DEF OnInput, TypeOK, Console
      <4>4. CASE OnCrc(d) \/ OnReq(d) \/ OnBegin(d) \/ OnChunk(d) \/ OnEnd(d) \/ OnPeerLeft(d)
        BY <4>2, <4>4 DEF OnCrc, OnReq, OnBegin, OnChunk, OnEnd, OnPeerLeft
      <4>. QED
        BY <2>4, <4>1, <4>2, <4>3, <4>4 DEF Step, Deliver, Park, vars
    <3>. QED
      BY <1>1, <2>4, <3>1 DEF TypeOK
  <2>5. ASSUME NEW d \in Seat, Glitch(d) PROVE Whether(c)
    <3>1. PICK p \in Parts : con' = [con EXCEPT ![d] = [@ EXCEPT !.world[p] = glitches + 1]]
      BY <2>5 DEF Glitch
    <3>2. con'[c].tick = con[c].tick /\ con'[c].epoch = con[c].epoch
      BY <1>1, <3>1 DEF TypeOK, Console
    <3>. QED
      BY <3>2 DEF Ticked, Rebased
  <2>6. ASSUME NEW d \in Seat, LoseRoom(d) PROVE con'[c] = con[c]
    BY <2>6 DEF LoseRoom
  <2>. QED
    BY <2>1, <2>2, <2>3, <2>4, <2>5, <2>6 DEF Next
<1>. QED
  BY <1>1, TypeCorrect, ImageAlways, PTL DEF Spec, ImageAtomic
=============================================================================
