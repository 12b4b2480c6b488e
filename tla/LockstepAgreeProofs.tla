------------------------- MODULE LockstepAgreeProofs -------------------------
(***************************************************************************)
(* The steps of the consoles keep a history that fits: Timely is an        *)
(* invariant, and with it WithinDelay and InputsAgree hold, for every      *)
(* delay, ring size and tick span with room enough (Roomy).                *)
(*                                                                         *)
(* LockstepTickProofs says what fits and what each kind of change leaves   *)
(* fitting.  Here the next history is made for each action, a handler at a *)
(* time.  Gone, an invariant of its own, lets a console that has dropped   *)
(* out be left alone: nothing it still writes arrives.                     *)
(*                                                                         *)
(* The second half adds the game states: Stands says which image each      *)
(* epoch began with and what was changed since.  Sound joins the two, and  *)
(* AlarmIsReal follows: a report is compared with a record of its own      *)
(* epoch, and both then tell how that epoch's image was changed.           *)
(***************************************************************************)
EXTENDS LockstepTickProofs

-----------------------------------------------------------------------------
(* A console whose match is over is on the terminal screen when its step   *)
(* ends, unless a LEFT told it: then, and with one under way, there is no  *)
(* room, and nothing it writes arrives.                                    *)
NoLeft(s) == \A i \in 1 .. Len(s) : s[i].type # "LEFT"
Gone ==
  /\ \A c \in Seat : con[c].dropped /\ room => con[c].pc = "parked"
  /\ room => \A c \in Seat : NoLeft(chan[c])

(* What is written is not a LEFT.                                          *)
LEMMA SentNoLeft ==
  ASSUME NEW ch \in [Seat -> Seq(Frame)], NEW c \in Seat,
         NEW fs \in Seq(Frame), NoLeft(fs), \A x \in Seat : NoLeft(ch[x])
  PROVE  \A x \in Seat : NoLeft(Sent(ch, c, fs)[x])
<1>. DEFINE p == Peer(c)
            s == ch[p]
            u == s \o fs
<1>1. p \in Seat /\ s \in Seq(Frame)
  BY PeerType
<1>2. /\ Len(u) = Len(s) + Len(fs)
      /\ \A i \in 1 .. Len(s) : u[i] = s[i]
      /\ \A i \in Len(s) + 1 .. Len(s) + Len(fs) : u[i] = fs[i - Len(s)]
      /\ Len(s) \in Nat /\ Len(fs) \in Nat
  BY <1>1, ConcatProperties, LenProperties
<1>3. NoLeft(s)
  BY <1>1
<1>4. \A x \in Seat : \/ Sent(ch, c, fs)[x] = ch[x]
                      \/ x = p /\ Sent(ch, c, fs)[x] = u
  <2>1. CASE room
    <3>1. Sent(ch, c, fs) = [ch EXCEPT ![p] = u]
      BY <2>1 DEF Sent
    <3>. QED
      BY <1>1, <3>1
  <2>. QED
    BY <2>1 DEF Sent
<1>. HIDE DEF s, u, p
<1>5. NoLeft(u)
  <2>. SUFFICES ASSUME NEW i \in 1 .. Len(u) PROVE u[i].type # "LEFT"
    BY DEF NoLeft
  <2>1. CASE i <= Len(s)
    BY <1>2, <1>3, <2>1 DEF NoLeft
  <2>2. CASE i > Len(s)
    <3>1. i - Len(s) \in 1 .. Len(fs) /\ u[i] = fs[i - Len(s)]
      BY <1>2, <2>2
    <3>. QED
      BY <3>1 DEF NoLeft
  <2>. QED
    BY <1>2, <2>1, <2>2
<1>. QED
  BY <1>4, <1>5

(* A push is a BEGIN with the resume tick, the chunks and an END,          *)
LEMMA PushFrame ==
  ASSUME NEW m \in Console
  PROVE  LET u == PushFrames(m)
         IN  /\ u \in Seq(Frame) /\ Len(u) = NParts + 2
             /\ u[1].type = "BEGIN" /\ u[1].tick = m.resume
             /\ \A i \in 2 .. NParts + 1 : u[i].type = "CHUNK"
             /\ \A i \in 1 .. NParts : /\ u[i + 1].pos = i
                                       /\ u[i + 1].data = m.world[i]
             /\ u[NParts + 2].type = "END"
<1>. DEFINE begin == <<[type |-> "BEGIN", tick |-> m.resume]>>
            parts == [i \in Parts |->
                        [type |-> "CHUNK", pos |-> i, data |-> m.world[i]]]
            end == <<[type |-> "END"]>>
            u == PushFrames(m)
<1>1. begin \in Seq(Frame) /\ parts \in Seq(Frame) /\ end \in Seq(Frame)
  <2>1. \A i \in Parts :
          [type |-> "CHUNK", pos |-> i, data |-> m.world[i]] \in Frame
    BY DEF Frame, Console
  <2>2. parts \in Seq(Frame)
    BY <2>1, SizeAssumption, IsASeq DEF Parts
  <2>. QED
    BY <2>2 DEF Frame, Console
<1>2. /\ Len(begin) = 1 /\ Len(parts) = NParts /\ Len(end) = 1
      /\ NParts \in Nat \ {0}
  BY SizeAssumption DEF Parts
<1>3. /\ u = (begin \o parts) \o end
      /\ begin[1].type = "BEGIN" /\ begin[1].tick = m.resume
      /\ end[1].type = "END"
      /\ \A i \in 1 .. NParts : /\ parts[i].type = "CHUNK"
                                /\ parts[i].pos = i
                                /\ parts[i].data = m.world[i]
  BY DEF PushFrames, Parts
<1>. HIDE DEF begin, parts, end, u
<1>4. /\ begin \o parts \in Seq(Frame) /\ Len(begin \o parts) = NParts + 1
      /\ (begin \o parts)[1] = begin[1]
      /\ \A i \in 2 .. NParts + 1 : (begin \o parts)[i] = parts[i - 1]
  <2>1. /\ begin \o parts \in Seq(Frame)
        /\ Len(begin \o parts) = Len(begin) + Len(parts)
        /\ \A i \in 1 .. Len(begin) : (begin \o parts)[i] = begin[i]
        /\ \A i \in Len(begin) + 1 .. Len(begin) + Len(parts) :
             (begin \o parts)[i] = parts[i - Len(begin)]
    BY <1>1, ConcatProperties
  <2>. QED
    BY <1>2, <2>1
<1>5. /\ Len(u) = NParts + 2
      /\ \A i \in 1 .. NParts + 1 : u[i] = (begin \o parts)[i]
      /\ u[NParts + 2] = end[1] /\ u \in Seq(Frame)
  BY <1>1, <1>2, <1>3, <1>4, ConcatProperties
<1>6. 1 \in 1 .. NParts + 1
  BY <1>2
<1>7. \A i \in 2 .. NParts + 1 : u[i].type = "CHUNK"
  BY <1>2, <1>3, <1>4, <1>5
<1>8. \A i \in 1 .. NParts : u[i + 1].pos = i /\ u[i + 1].data = m.world[i]
  <2>. TAKE i \in 1 .. NParts
  <2>1. i + 1 \in 2 .. NParts + 1 /\ (i + 1) - 1 = i
        /\ i + 1 \in 1 .. NParts + 1
    BY <1>2
  <2>2. u[i + 1] = parts[i]
    BY <1>4, <1>5, <2>1
  <2>. QED
    BY <1>3, <2>2
<1>. QED
  BY <1>3, <1>4, <1>5, <1>6, <1>7, <1>8 DEF u

(* and no LEFT; nor is a report one.                                       *)
LEMMA PushNoLeft ==
  ASSUME NEW m \in Console
  PROVE  PushFrames(m) \in Seq(Frame) /\ NoLeft(PushFrames(m))
<1>. DEFINE u == PushFrames(m)
<1>1. /\ u \in Seq(Frame) /\ Len(u) = NParts + 2
      /\ u[1].type = "BEGIN"
      /\ \A i \in 2 .. NParts + 1 : u[i].type = "CHUNK"
      /\ u[NParts + 2].type = "END"
  BY PushFrame
<1>2. NParts \in Nat
  BY SizeAssumption
<1>. HIDE DEF u
<1>3. \A i \in 1 .. Len(u) :
        i = 1 \/ i \in 2 .. NParts + 1 \/ i = NParts + 2
  BY <1>1, <1>2
<1>4. NoLeft(u)
  BY <1>1, <1>3 DEF NoLeft
<1>. QED
  BY <1>1, <1>4 DEF u

(* (the report is a frame)                                                 *)
LEMMA ReportFrame ==
  ASSUME NEW m \in Console
  PROVE  <<Report(m)>> \in Seq(Frame) /\ NoLeft(<<Report(m)>>)
<1>1. m.tick \in Tick /\ Cksum(m.world) \in [Summed -> Label]
  BY CksumType DEF Console
<1>2. <<Report(m)>> \in Seq(Frame)
  BY <1>1 DEF Frame, Report
<1>. QED
  BY <1>2 DEF NoLeft, Report

(* What a console writes at the gate is not a LEFT.                        *)
LEMMA ReportedNoLeft ==
  ASSUME NEW c \in Seat, NEW m \in Console, NEW ch \in [Seat -> Seq(Frame)]
  PROVE  /\ Reported(c, m, ch) \in [Seat -> Seq(Frame)]
         /\ (\A x \in Seat : NoLeft(ch[x])) =>
              \A x \in Seat : NoLeft(Reported(c, m, ch)[x])
<1>1. <<Report(m)>> \in Seq(Frame) /\ NoLeft(<<Report(m)>>)
  BY ReportFrame
<1>2. Sent(ch, c, <<Report(m)>>) \in [Seat -> Seq(Frame)]
  BY <1>1, SentType
<1>3. (\A x \in Seat : NoLeft(ch[x])) =>
        \A x \in Seat : NoLeft(Sent(ch, c, <<Report(m)>>)[x])
  BY <1>1, SentNoLeft
<1>. QED
  BY <1>2, <1>3 DEF Reported

(* A gate keeps Gone,                                                      *)
LEMMA GateGone ==
  ASSUME TypeOK, Gone, NEW c \in Seat, NEW m \in Console,
         NEW ch \in [Seat -> Seq(Frame)], Gate(c, m, ch), room' = room,
         room => \A x \in Seat : NoLeft(ch[x])
  PROVE  Gone'
<1>1. PICK n \in Console :
        /\ con' = [con EXCEPT ![c] = n] /\ n.dropped = m.dropped
        /\ m.dropped => n.pc = "parked"
        /\ \/ chan' = ch \/ chan' = Reported(c, m, ch)
           \/ \E x \in Console :
                chan' = Sent(Reported(c, m, ch), c, PushFrames(x))
  <2>1. ~Open(m) => ~m.dropped
    BY DEF Open
  <2>. QED
    BY <2>1, GateOutcome DEF Outcome
<1>2. \A x \in Seat : con'[x].dropped /\ room => con'[x].pc = "parked"
  BY <1>1 DEF TypeOK, Gone
<1>3. ASSUME room PROVE \A x \in Seat : NoLeft(chan'[x])
  <2>. DEFINE rep == Reported(c, m, ch)
  <2>1. /\ rep \in [Seat -> Seq(Frame)]
        /\ \A x \in Seat : NoLeft(rep[x])
    BY <1>3, ReportedNoLeft
  <2>. HIDE DEF rep
  <2>2. \A y \in Console :
          \A x \in Seat : NoLeft(Sent(rep, c, PushFrames(y))[x])
    BY <2>1, PushNoLeft, SentNoLeft
  <2>. QED
    BY <1>1, <1>3, <2>1, <2>2 DEF rep
<1>. QED
  BY <1>2, <1>3 DEF Gone

(* and so does every step of a console.                                    *)
LEMMA StepGone ==
  ASSUME TypeOK, Gone, NEW c \in Seat, Step(c)
  PROVE  Gone'
<1>1. con[c] \in Console /\ chan \in [Seat -> Seq(Frame)]
  BY DEF TypeOK
<1>2. room' = room
  BY DEF Step, SampleInput, StallRound, HoldRound, Park, vars
<1>3. CASE SampleInput(c)
  <2>. DEFINE t == Plus(con[c].tick, Delay)
  <2>1. PICK v \in Inputs :
          Gate(c, [con[c] EXCEPT !.ring[c][Slot(t)] = v],
               Sent(chan, c, <<[type |-> "INPUT", tick |-> t, in |-> v]>>))
    BY <1>3 DEF SampleInput
  <2>. DEFINE f == [type |-> "INPUT", tick |-> t, in |-> v]
              m == [con[c] EXCEPT !.ring[c][Slot(t)] = v]
  <2>2. t \in Tick
    <3>1. con[c].tick \in Int /\ Delay \in Int
      BY <1>1, SizeAssumption DEF Console, Tick
    <3>. QED
      BY <3>1, PlusType
  <2>3. m \in Console
    BY <1>1 DEF Console
  <2>. HIDE DEF t
  <2>4. <<f>> \in Seq(Frame) /\ NoLeft(<<f>>)
    <3>1. <<f>> \in Seq(Frame)
      BY <2>2 DEF Frame
    <3>. QED
      BY <3>1 DEF NoLeft
  <2>. HIDE DEF m, f
  <2>5. Sent(chan, c, <<f>>) \in [Seat -> Seq(Frame)]
    BY <1>1, <2>4, SentType
  <2>6. room => \A x \in Seat : NoLeft(Sent(chan, c, <<f>>)[x])
    BY <1>1, <2>4, SentNoLeft DEF Gone
  <2>7. Gate(c, m, Sent(chan, c, <<f>>))
    BY <2>1 DEF m, f
  <2>. QED
    BY <1>2, <2>3, <2>5, <2>6, <2>7, GateGone
<1>4. CASE StallRound(c)
  <2>. DEFINE m == [con[c] EXCEPT !.waitc = IF GateRounds = 0 THEN 0 ELSE @ + 1]
              n == IF GateRounds # 0 /\ m.waitc >= GateRounds
                   THEN Drop(m, "lost") ELSE m
  <2>1. m \in Console
    <3>1. con[c].waitc + 1 \in Nat
      BY <1>1 DEF Console
    <3>. QED
      BY <1>1, <3>1 DEF Console
  <2>2. n \in Console
    BY <2>1, DropType
  <2>3. Gate(c, n, chan)
    BY <1>4 DEF StallRound
  <2>. HIDE DEF n
  <2>. QED
    BY <1>1, <1>2, <2>2, <2>3, GateGone DEF Gone
<1>5. CASE HoldRound(c)
  <2>. DEFINE m == [con[c] EXCEPT !.rsto = IF HoldRounds = 0 THEN 0 ELSE @ + 1]
              d == [m EXCEPT !.hold = FALSE]
              n == IF HoldRounds # 0 /\ m.rsto >= HoldRounds
                   THEN Drop(d, "lost") ELSE m
  <2>1. m \in Console
    <3>1. con[c].rsto + 1 \in Nat
      BY <1>1 DEF Console
    <3>. QED
      BY <1>1, <3>1 DEF Console
  <2>2. d \in Console
    BY <2>1 DEF Console
  <2>3. n \in Console
    BY <2>1, <2>2, DropType
  <2>4. con' = [con EXCEPT ![c] = Pass(n)] /\ chan' = chan
    BY <1>5 DEF HoldRound
  <2>. HIDE DEF n
  <2>5. /\ Pass(n).dropped = n.dropped
        /\ n.dropped => Pass(n).pc = "parked"
    BY <2>3, PassLooks DEF Same, Looks
  <2>. QED
    BY <1>2, <2>4, <2>5 DEF Gone, TypeOK
<1>6. CASE Park(c)
  BY <1>6 DEF Park, vars, Gone, NoLeft
<1>. QED
  BY <1>3, <1>4, <1>5, <1>6 DEF Step

(* The channels with a frame read, frame by frame.                         *)
LEMMA ConsumedFrames ==
  ASSUME TypeOK, NEW c \in Seat, chan[c] # <<>>
  PROVE  LET d == Consumed(c)
         IN  /\ d \in [Seat -> Seq(Frame)] /\ d[Peer(c)] = chan[Peer(c)]
             /\ Len(chan[c]) \in Nat \ {0} /\ Len(d[c]) = Len(chan[c]) - 1
             /\ \A i \in 1 .. Len(d[c]) : d[c][i] = chan[c][i + 1]
             /\ Head(chan[c]) = chan[c][1]
<1>1. chan \in [Seat -> Seq(Frame)] /\ Consumed(c) \in [Seat -> Seq(Frame)]
  BY ConsumedType DEF TypeOK
<1>2. /\ Len(Tail(chan[c])) = Len(chan[c]) - 1 /\ Len(chan[c]) \in Nat \ {0}
      /\ \A i \in 1 .. Len(Tail(chan[c])) : Tail(chan[c])[i] = chan[c][i + 1]
      /\ Head(chan[c]) = chan[c][1]
  <2>1. chan[c] \in Seq(Frame)
    BY <1>1
  <2>. QED
    BY <2>1, HeadTailProperties, LenProperties, EmptySeq
<1>3. Consumed(c)[c] = Tail(chan[c]) /\ Consumed(c)[Peer(c)] = chan[Peer(c)]
  BY <1>1, PeerType DEF Consumed
<1>. QED
  BY <1>1, <1>2, <1>3

(* A request is a frame, and no LEFT.                                      *)
LEMMA ReqFrame ==
  ASSUME NEW t \in Tick
  PROVE  LET fs == <<[type |-> "REQ", tick |-> t]>>
         IN  fs \in Seq(Frame) /\ NoLeft(fs)
<1>1. <<[type |-> "REQ", tick |-> t]>> \in Seq(Frame)
  BY DEF Frame
<1>. QED
  BY <1>1 DEF NoLeft

(* A frame handler leaves the other console alone, and its own as it plays *)
(* on, unless it is told that the other left.                              *)
LEMMA DeliverKeeps ==
  ASSUME TypeOK, NEW c \in Seat, Deliver(c), ~OnPeerLeft(c)
  PROVE  /\ con'[Peer(c)] = con[Peer(c)]
         /\ con'[c].dropped = con[c].dropped /\ con'[c].pc = con[c].pc
<1>. DEFINE m == con[c]
            f == Head(chan[c])
<1>. DEFINE begun == [EnterHold(m) EXCEPT !.resume = f.tick, !.begun = TRUE]
            read == [m EXCEPT !.ring[Peer(c)][Slot(f.tick)] = f.in,
                              !.wm = f.tick]
<1>0. m \in Console /\ con \in [Seat -> Console]
  BY DEF TypeOK
<1>1. PICK n : /\ con' = con \/ con' = [con EXCEPT ![c] = n]
               /\ n \in {read, Want(m), begun, PutChunk(m, f), Rebase(m)}
  <2>1. OnInput(c) => con' = con \/ con' = [con EXCEPT ![c] = read]
    BY <1>0 DEF OnInput
  <2>2. OnCrc(c) \/ OnReq(c) =>
          con' = con \/ con' = [con EXCEPT ![c] = Want(m)]
    BY DEF OnCrc, OnReq
  <2>3. OnBegin(c) => con' = [con EXCEPT ![c] = begun]
    BY DEF OnBegin
  <2>4. OnChunk(c) => con' = [con EXCEPT ![c] = PutChunk(m, f)]
    BY DEF OnChunk
  <2>5. OnEnd(c) => con' = con \/ con' = [con EXCEPT ![c] = Rebase(m)]
    BY DEF OnEnd
  <2>. HIDE DEF read, begun, m, f
  <2>. QED
    BY <2>1, <2>2, <2>3, <2>4, <2>5 DEF Deliver
<1>2. n.dropped = m.dropped /\ n.pc = m.pc
  <2>. HIDE DEF m, f
  <2>1. CASE n = read
    BY <1>0, <2>1 DEF Console
  <2>2. CASE n = Want(m)
    BY <1>0, <2>2 DEF Want, Console
  <2>3. CASE n = begun
    <3>1. /\ EnterHold(m) \in Console /\ EnterHold(m).pc = m.pc
          /\ EnterHold(m).dropped = m.dropped
      BY <1>0, EnterHoldType DEF EnterHold, Console
    <3>. QED
      BY <2>3, <3>1 DEF Console
  <2>4. CASE n = PutChunk(m, f)
    BY <1>0, <2>4 DEF PutChunk, Console
  <2>5. CASE n = Rebase(m)
    BY <1>0, <2>5 DEF Rebase, Console
  <2>. QED
    BY <1>1, <2>1, <2>2, <2>3, <2>4, <2>5
<1>. QED
  BY <1>0, <1>1, <1>2, Seats

(* A frame delivered keeps Gone.                                           *)
LEMMA DeliverGone ==
  ASSUME TypeOK, Gone, NEW c \in Seat, Deliver(c)
  PROVE  Gone'
<1>1. chan[c] # <<>> /\ room' = room
  BY DEF Deliver, OnInput, OnCrc, OnReq, OnBegin, OnChunk, OnEnd, OnPeerLeft,
         Arrives
<1>. DEFINE d == Consumed(c)
            m == con[c]
            f == Head(chan[c])
<1>2. /\ d \in [Seat -> Seq(Frame)]
      /\ room => \A x \in Seat : NoLeft(d[x])
  <2>1. /\ d \in [Seat -> Seq(Frame)] /\ d[Peer(c)] = chan[Peer(c)]
        /\ Len(chan[c]) \in Nat \ {0} /\ Len(d[c]) = Len(chan[c]) - 1
        /\ \A i \in 1 .. Len(d[c]) : d[c][i] = chan[c][i + 1]
    BY <1>1, ConsumedFrames
  <2>. HIDE DEF d
  <2>2. room => NoLeft(d[c])
    BY <2>1 DEF Gone, NoLeft
  <2>. QED
    BY <2>1, <2>2, Seats DEF Gone
<1>3. room => \A x \in Seat : NoLeft(chan'[x])
  <2>1. CASE chan' = d
    BY <1>2, <2>1
  <2>2. CASE OnCrc(c) /\ chan' = Sent(d, c, <<[type |-> "REQ", tick |-> f.tick]>>)
    <3>1. f \in [type : {"CRC"}, tick : Tick, sum : [Summed -> Label]]
      BY <1>1, <2>2, ConsumedType DEF Frame, OnCrc, Arrives
    <3>. DEFINE fs == <<[type |-> "REQ", tick |-> f.tick]>>
    <3>2. f.tick \in Tick
      BY <3>1
    <3>3. fs \in Seq(Frame) /\ NoLeft(fs)
      BY <3>2, ReqFrame
    <3>4. chan' = Sent(d, c, fs)
      BY <2>2
    <3>. HIDE DEF fs, d
    <3>. QED
      BY <1>2, <3>3, <3>4, SentNoLeft
  <2>. QED
    BY <2>1, <2>2 DEF Deliver, OnInput, OnCrc, OnReq, OnBegin, OnChunk, OnEnd,
                      OnPeerLeft
<1>4. \A x \in Seat : con'[x].dropped /\ room => con'[x].pc = "parked"
  <2>1. CASE OnPeerLeft(c)
    <3>1. ~room
      <4>1. Head(chan[c]).type = "LEFT" /\ Head(chan[c]) = chan[c][1]
            /\ 1 \in 1 .. Len(chan[c])
        BY <1>1, <2>1, ConsumedFrames DEF OnPeerLeft, Arrives
      <4>. QED
        BY <4>1 DEF Gone, NoLeft
    <3>. QED
      BY <3>1
  <2>2. CASE ~OnPeerLeft(c)
    <3>1. /\ con'[Peer(c)] = con[Peer(c)]
          /\ con'[c].dropped = con[c].dropped /\ con'[c].pc = con[c].pc
      BY <2>2, DeliverKeeps
    <3>2. \A x \in Seat : x = c \/ x = Peer(c)
      BY Seats
    <3>. QED
      BY <3>1, <3>2 DEF Gone
  <2>. QED
    BY <2>1, <2>2
<1>. QED
  BY <1>1, <1>3, <1>4 DEF Gone

(* It holds in every behaviour.                                            *)
LEMMA GoneAlways == Spec => []Gone
<1>1. Init => Gone
  BY DEF Init, Gone, NoLeft
<1>2. TypeOK /\ Gone /\ [Next]_vars => Gone'
  <2>. SUFFICES ASSUME TypeOK, Gone, [Next]_vars PROVE Gone'
    OBVIOUS
  <2>1. ASSUME NEW c \in Seat, Step(c) PROVE Gone'
    BY <2>1, StepGone
  <2>2. ASSUME NEW c \in Seat, Deliver(c) PROVE Gone'
    BY <2>2, DeliverGone
  <2>3. ASSUME NEW c \in Seat, Glitch(c) PROVE Gone'
    <3>1. /\ chan' = chan /\ room' = room
          /\ \E p \in Parts :
               con' = [con EXCEPT ![c].world[p] = glitches + 1]
      BY <2>3 DEF Glitch
    <3>2. \A x \in Seat : /\ con'[x].dropped = con[x].dropped
                          /\ con'[x].pc = con[x].pc
      BY <3>1 DEF TypeOK, Console
    <3>. QED
      BY <3>1, <3>2 DEF Gone, NoLeft
  <2>4. ASSUME NEW c \in Seat, LoseRoom(c) PROVE Gone'
    BY <2>4 DEF LoseRoom, Gone
  <2>5. CASE UNCHANGED vars
    BY <2>5 DEF vars, Gone, NoLeft
  <2>. QED
    BY <2>1, <2>2, <2>3, <2>4, <2>5 DEF Next
<1>. QED
  BY <1>1, <1>2, TypeCorrect, PTL DEF Spec

-----------------------------------------------------------------------------
(* What the reports to the host say.  S is a set of checksums: while both  *)
(* consoles are on one epoch, the guest's reports of it are all in S.  The *)
(* steps below keep this for every S that has the checksum the guest takes *)
(* now (W has what is reported in the step).                               *)
Vouched(S, s, g, e) ==
  \A i \in 1 .. Len(s) : s[i].type = "CRC" /\ g[i].of = e => s[i].sum \in S

Stamped(S, k, ch, h) ==
  ~k[0].dropped =>
    /\ h.epoch[1] = k[1].epoch
    /\ h.epoch[0] = h.epoch[1] =>
         Vouched(S, ch[0], h.tag[0], h.epoch[1])

Vouches(W, ch, h, ch2, h2) ==
  /\ h2.epoch[1] = h.epoch[1]
  /\ h2.epoch[0] = h2.epoch[1] => h2.epoch[0] = h.epoch[0]
  /\ \A S : /\ W \subseteq S
             /\ Vouched(S, ch[0], h.tag[0], h.epoch[1])
             => Vouched(S, ch2[0], h2.tag[0], h.epoch[1])

Words(c, f) == IF c = 1 /\ f.type = "CRC" THEN {f.sum} ELSE {}
Own(c, m) == IF c = 1 THEN {Cksum(m.world)} ELSE {}

(* Two steps one after the other,                                          *)
LEMMA VouchesBoth ==
  ASSUME NEW W, NEW ch, NEW h, NEW ch1, NEW h1, NEW ch2, NEW h2,
         Vouches(W, ch, h, ch1, h1), Vouches(W, ch1, h1, ch2, h2)
  PROVE  Vouches(W, ch, h, ch2, h2)
BY Zenon DEF Vouches

(* (of which one may say less)                                             *)
LEMMA VouchesMore ==
  ASSUME NEW W, NEW ch, NEW h, NEW ch2, NEW h2, Vouches({}, ch, h, ch2, h2)
  PROVE  Vouches(W, ch, h, ch2, h2)
BY Zenon DEF Vouches

(* one that leaves the line to the host alone;                             *)
LEMMA VouchesSame ==
  ASSUME NEW W, NEW ch, NEW h, NEW ch2, NEW h2, ch2[0] = ch[0],
         h2.tag[0] = h.tag[0], h2.epoch[1] = h.epoch[1],
         h2.epoch[0] = h2.epoch[1] => h2.epoch[0] = h.epoch[0]
  PROVE  Vouches(W, ch, h, ch2, h2)
BY DEF Vouches

(* what such steps keep,                                                   *)
LEMMA VouchesStamped ==
  ASSUME NEW S, NEW W, W \subseteq S, NEW k, NEW ch, NEW h,
         NEW k2, NEW ch2, NEW h2, Stamped(S, k, ch, h),
         Vouches(W, ch, h, ch2, h2), k2[1].epoch = k[1].epoch,
         ~k2[0].dropped => ~k[0].dropped
  PROVE  Stamped(S, k2, ch2, h2)
<1>. SUFFICES ASSUME ~k2[0].dropped
              PROVE  /\ h2.epoch[1] = k2[1].epoch
                     /\ h2.epoch[0] = h2.epoch[1] =>
                          Vouched(S, ch2[0], h2.tag[0], h2.epoch[1])
  BY DEF Stamped
<1>1. /\ h.epoch[1] = k[1].epoch
      /\ h.epoch[0] = h.epoch[1] =>
           Vouched(S, ch[0], h.tag[0], h.epoch[1])
  BY DEF Stamped
<1>2. /\ h2.epoch[1] = h.epoch[1]
      /\ h2.epoch[0] = h2.epoch[1] => h2.epoch[0] = h.epoch[0]
      /\ Vouched(S, ch[0], h.tag[0], h.epoch[1]) =>
           Vouched(S, ch2[0], h2.tag[0], h.epoch[1])
  BY DEF Vouches
<1>. QED
  BY <1>1, <1>2

(* or that leave the line to the host alone.                               *)
LEMMA StampedSame ==
  ASSUME NEW S, NEW k, NEW ch, NEW h, NEW k2, NEW ch2, Stamped(S, k, ch, h),
         ch2[0] = ch[0], k2[1].epoch = k[1].epoch,
         ~k2[0].dropped => ~k[0].dropped
  PROVE  Stamped(S, k2, ch2, h)
BY DEF Stamped

(* A larger S will do.                                                     *)
LEMMA StampedMore ==
  ASSUME NEW S, NEW S2, S \subseteq S2, NEW k, NEW ch, NEW h,
         Stamped(S, k, ch, h)
  PROVE  Stamped(S2, k, ch, h)
BY DEF Stamped, Vouched

-----------------------------------------------------------------------------
(* The same steps with the history made: one frame written by c.           *)
More(ch, r, ch2, c, f) ==
  LET s == ch[Peer(c)]
      s2 == ch2[Peer(c)]
  IN  /\ ch2[c] = ch[c] /\ Len(s) \in Nat
      /\ Len(s2) = IF r THEN Len(s) + 1 ELSE Len(s)
      /\ \A i \in 1 .. Len(s) : s2[i] = s[i]
      /\ r => s2[Len(s2)] = f

(* Sent puts it at the end of the line where there is a room.              *)
LEMMA SentOne ==
  ASSUME NEW ch \in [Seat -> Seq(Frame)], NEW c \in Seat, NEW f,
         <<f>> \in Seq(Frame), room \in BOOLEAN
  PROVE  More(ch, room, Sent(ch, c, <<f>>), c, f)
<1>. DEFINE p == Peer(c)
            s == ch[p]
            u == s \o <<f>>
            w == Sent(ch, c, <<f>>)
<1>1. p \in Seat /\ p # c /\ s \in Seq(Frame)
  BY PeerType
<1>2. /\ Len(u) = Len(s) + 1 /\ Len(s) \in Nat
      /\ \A i \in 1 .. Len(s) : u[i] = s[i]
      /\ u[Len(s) + 1] = f
  <2>1. Len(<<f>>) = 1 /\ <<f>>[1] = f
    OBVIOUS
  <2>2. /\ Len(u) = Len(s) + Len(<<f>>) /\ Len(s) \in Nat
        /\ \A i \in 1 .. Len(s) : u[i] = s[i]
        /\ \A i \in Len(s) + 1 .. Len(s) + Len(<<f>>) :
             u[i] = <<f>>[i - Len(s)]
    BY <1>1, ConcatProperties, LenProperties
  <2>. HIDE DEF u
  <2>. QED
    BY <2>1, <2>2
<1>3. room => w = [ch EXCEPT ![p] = u]
  BY DEF Sent
<1>4. ~room => w = ch
  BY DEF Sent
<1>5. /\ room => w[p] = u /\ w[c] = ch[c]
      /\ ~room => w[p] = s /\ w[c] = ch[c]
  BY <1>1, <1>3, <1>4
<1>. HIDE DEF u, w, s
<1>6. /\ w[c] = ch[c] /\ Len(w[p]) = IF room THEN Len(s) + 1 ELSE Len(s)
      /\ \A i \in 1 .. Len(s) : w[p][i] = s[i]
      /\ room => w[p][Len(w[p])] = f
  BY <1>2, <1>5
<1>. QED
  BY <1>2, <1>6 DEF More, s, w

(* The next history has the mark a and the frame tagged with it,           *)
LEMMA SayHistory ==
  ASSUME NEW h \in History, NEW c \in Seat, NEW a \in Int,
         NEW ch, NEW r \in BOOLEAN, NEW ch2, NEW f, More(ch, r, ch2, c, f)
  PROVE  LET p == Peer(c)
         IN  \E h2 \in History :
               /\ SameTimes(h, h2) /\ Mark(h2, c) = a
               /\ h2.last[p] = h.last[p]
               /\ \A e \in Nat : e # h.epoch[c] => h2.last[c][e] = h.last[c][e]
               /\ h2.tag[c] = h.tag[c]
               /\ Added(ch[p], h.tag[p], ch2[p], h2.tag[p], f, h.epoch[c], a)
<1>. DEFINE p == Peer(c)
            n == Len(ch[p])
            x == h.epoch[c]
            g == [i \in Nat |-> IF i > n THEN [of |-> x, at |-> a]
                                ELSE h.tag[p][i]]
            l == [h.last[c] EXCEPT ![x] = a]
            h2 == [h EXCEPT !.last = [@ EXCEPT ![c] = l],
                            !.tag = [@ EXCEPT ![p] = g]]
<1>1. /\ p \in Seat /\ p # c /\ x \in Nat /\ n \in Nat
      /\ h.tag[p] \in Tags /\ h.last[c] \in [Nat -> Int]
  BY PeerType DEF History, More
<1>2. g \in Tags /\ l \in [Nat -> Int]
  BY <1>1 DEF Tags
<1>3. /\ \A i \in 1 .. n : g[i] = h.tag[p][i]
      /\ g[n + 1] = [of |-> x, at |-> a]
      /\ l[x] = a /\ \A e \in Nat : e # x => l[e] = h.last[c][e]
  <2>. HIDE DEF n, x
  <2>1. \A i \in 1 .. n : i \in Nat /\ ~(i > n)
    BY <1>1
  <2>2. n + 1 \in Nat /\ n + 1 > n
    BY <1>1
  <2>3. l[x] = a /\ \A e \in Nat : e # x => l[e] = h.last[c][e]
    BY <1>1
  <2>. QED
    BY <2>1, <2>2, <2>3
<1>. HIDE DEF g, l, n, x
<1>4. /\ h2 \in History
      /\ h2.tick = h.tick /\ h2.heard = h.heard /\ h2.epoch = h.epoch
      /\ h2.start = h.start /\ h2.last[c] = l /\ h2.last[p] = h.last[p]
      /\ h2.tag[p] = g /\ h2.tag[c] = h.tag[c]
  BY <1>1, <1>2 DEF History
<1>. HIDE DEF h2
<1>5. SameTimes(h, h2) /\ Mark(h2, c) = a
  BY <1>3, <1>4 DEF SameTimes, Mark, x
<1>6. Added(ch[p], h.tag[p], ch2[p], g, f, x, a)
  BY <1>1, <1>3 DEF Added, More, n
<1>. QED
  BY <1>3, <1>4, <1>5, <1>6 DEF x

(* whichever frame it may be.                                              *)
MaySay(m, n, h, c, f, a) ==
  \A h2 \in History : Mark(h2, c) = a =>
    \/ SpeaksInput(m, n, h, h2, c, f)
    \/ SpeaksCrc(m, n, h, h2, c, f)
    \/ SpeaksReq(m, n, h, h2, c, f)

SaidOn(h, h2, c, a) ==
  /\ SameTimes(h, h2) /\ Mark(h2, c) = a
  /\ Mark(h2, Peer(c)) = Mark(h, Peer(c))

(* (a frame more on the line to the host)                                  *)
LEMMA AddedVouched ==
  ASSUME NEW s, NEW g, NEW s2, NEW g2, NEW f, NEW e, NEW a,
         Added(s, g, s2, g2, f, e, a), NEW S, Words(1, f) \subseteq S,
         NEW x, Vouched(S, s, g, x)
  PROVE  Vouched(S, s2, g2, x)
<1>. SUFFICES ASSUME NEW i \in 1 .. Len(s2), s2[i].type = "CRC", g2[i].of = x
              PROVE  s2[i].sum \in S
  BY DEF Vouched
<1>1. /\ Len(s) \in Nat /\ Len(s2) \in {Len(s), Len(s) + 1}
      /\ \A j \in 1 .. Len(s) : s2[j] = s[j] /\ g2[j] = g[j]
      /\ Len(s2) = Len(s) + 1 => s2[Len(s2)] = f
  BY DEF Added
<1>2. CASE i \in 1 .. Len(s)
  BY <1>1, <1>2 DEF Vouched
<1>3. CASE i = Len(s2) /\ Len(s2) = Len(s) + 1
  BY <1>1, <1>3 DEF Words
<1>. QED
  BY <1>1, <1>2, <1>3

(* and the state fits it.                                                  *)
LEMMA Says ==
  ASSUME NEW k \in [Seat -> Console], NEW ch, NEW r \in BOOLEAN,
         NEW h \in History, NEW k2, NEW ch2, NEW c \in Seat, NEW f, NEW a \in Int,
         Roomy, Fits(k, ch, r, h), More(ch, r, ch2, c, f), ~k[c].dropped,
         k2[Peer(c)] = k[Peer(c)], Looks(k[c], k2[c]),
         MaySay(k[c], k2[c], h, c, f, a)
  PROVE  \E h2 \in History :
           /\ Fits(k2, ch2, r, h2) /\ SaidOn(h, h2, c, a)
           /\ Vouches(Words(c, f), ch, h, ch2, h2)
<1>. DEFINE p == Peer(c)
<1>1. PICK h2 \in History :
        /\ SameTimes(h, h2) /\ Mark(h2, c) = a
        /\ h2.last[p] = h.last[p]
        /\ \A e \in Nat : e # h.epoch[c] => h2.last[c][e] = h.last[c][e]
        /\ h2.tag[c] = h.tag[c]
        /\ Added(ch[p], h.tag[p], ch2[p], h2.tag[p], f, h.epoch[c], a)
  BY SayHistory
<1>2. /\ ch2[c] = ch[c]
      /\ Len(ch2[p]) = IF r THEN Len(ch[p]) + 1 ELSE Len(ch[p])
  BY DEF More
<1>3. Speaks(k, ch, r, h, k2, ch2, h2, c, f)
  BY <1>1, <1>2 DEF Speaks, MaySay
<1>4. Fits(k2, ch2, r, h2)
  BY <1>3, SpeaksFits
<1>5. Mark(h2, p) = Mark(h, p)
  BY <1>1 DEF SameTimes, Mark
<1>6. h2.epoch = h.epoch
  BY <1>1 DEF SameTimes
<1>7. CASE c = 0
  <2>1. ch2[0] = ch[0] /\ h2.tag[0] = h.tag[0]
    BY <1>1, <1>2, <1>7
  <2>2. Vouches(Words(c, f), ch, h, ch2, h2)
    BY <1>6, <2>1, VouchesSame
  <2>. QED
    BY <1>1, <1>4, <1>5, <2>2 DEF SaidOn
<1>8. CASE c = 1
  <2>1. Added(ch[0], h.tag[0], ch2[0], h2.tag[0], f, h.epoch[1], a)
    BY <1>1, <1>8, Seats
  <2>2. Vouches(Words(c, f), ch, h, ch2, h2)
    BY <1>6, <1>8, <2>1, AddedVouched DEF Vouches
  <2>. QED
    BY <1>1, <1>4, <1>5, <2>2 DEF SaidOn
<1>. QED
  BY <1>7, <1>8, Seats

(* What a console has heard is near its own tick, so the gate compares the *)
(* true ticks.                                                             *)
LEMMA HeardSpan ==
  ASSUME NEW k, NEW ch, NEW r, NEW h \in History, NEW c \in Seat, Roomy,
         Fits(k, ch, r, h), ~k[c].dropped
  PROVE  /\ h.heard[c] - h.tick[c] \in -1 .. 2 * Delay + 1
         /\ Delta(k[c].wm, k[c].tick) = h.heard[c] - h.tick[c]
         /\ Open(k[c]) => h.tick[c] <= h.heard[c]
<1>. DEFINE H == h.heard[c]
            T == h.tick[c]
<1>1. /\ \A x \in Seat : /\ h.tick[x] \in Int /\ h.heard[x] \in Int
                         /\ h.epoch[x] \in Nat /\ Mark(h, x) \in Int
      /\ \A x \in Nat : First(h, x) \in Int
      /\ Delay \in Nat /\ 0 \in Seat /\ 1 \in Seat
      /\ c \in {0, 1}
  BY Typed, Numbers, Seats
<1>2. /\ k[c].tick = Wrap(T) /\ k[c].wm = Wrap(H) /\ T <= H + 1
      /\ Mark(h, c) <= T + Delay
  <2>1. Clock(k[c], h, c)
    BY DEF Fits
  <2>. QED
    BY <1>1, <2>1 DEF Clock
<1>3. ASSUME c = 1 PROVE H - T \in -1 .. 2 * Delay + 1
  <2>1. GuestSpan(k[1], h)
    BY <1>3 DEF Fits
  <2>2. /\ h.heard[1] <= h.last[0][h.epoch[1]]
        /\ h.last[0][h.epoch[1]] <= Mark(h, 1) + Delay + 1
        /\ h.last[0][h.epoch[1]] \in Int
    BY <1>1, <2>1, Typed DEF GuestSpan
  <2>3. /\ H <= h.last[0][h.epoch[1]]
        /\ h.last[0][h.epoch[1]] <= Mark(h, c) + Delay + 1
        /\ Mark(h, c) \in Int /\ H \in Int /\ T \in Int
    BY <1>1, <1>3, <2>2
  <2>. HIDE DEF H, T
  <2>4. H <= T + 2 * Delay + 1
    BY <1>1, <1>2, <2>2, <2>3
  <2>. QED
    BY <1>1, <1>2, <2>3, <2>4
<1>4. ASSUME c = 0 PROVE H - T \in -1 .. 2 * Delay + 1
  <2>1. HostSpan(k, h) /\ Ages(h)
    BY <1>4 DEF Fits
  <2>2. /\ h.epoch[0] = h.epoch[1] =>
             h.heard[0] <= Mark(h, 1) /\ Mark(h, 1) <= Mark(h, 0) + Delay + 1
        /\ h.epoch[1] < h.epoch[0] => h.heard[0] = First(h, h.epoch[0])
    BY <2>1 DEF HostSpan, Behindhand
  <2>3. First(h, h.epoch[0]) <= Mark(h, 0) /\ h.epoch[1] <= h.epoch[0]
    BY <2>1 DEF Ages
  <2>5. /\ h.epoch[0] = h.epoch[1] =>
             H <= Mark(h, 1) /\ Mark(h, 1) <= Mark(h, c) + Delay + 1
        /\ h.epoch[1] < h.epoch[0] => H <= Mark(h, c)
        /\ Mark(h, c) \in Int /\ H \in Int /\ T \in Int
    BY <1>1, <1>4, <2>2, <2>3
  <2>. HIDE DEF H, T
  <2>4. H <= T + 2 * Delay + 1
    BY <1>1, <1>2, <2>3, <2>5
  <2>. QED
    BY <1>1, <1>2, <2>4, <2>5
<1>5. H - T \in -1 .. 2 * Delay + 1 /\ T \in Int /\ H \in Int
  BY <1>1, <1>2, <1>3, <1>4
<1>. HIDE DEF H, T
<1>6. -TickSpan <= 2 * (H - T) /\ 2 * (H - T) < TickSpan
  BY <1>5, Numbers DEF Roomy
<1>7. Delta(Wrap(H), Wrap(T)) = H - T
  BY <1>5, <1>6, DeltaTick
<1>8. Delta(k[c].wm, k[c].tick) = H - T
  BY <1>2, <1>7
<1>9. Open(k[c]) => T <= H
  BY <1>5, <1>8 DEF Open
<1>. QED
  BY <1>5, <1>8, <1>9 DEF H, T

(* Where a match has got to: a history fits, with the consoles' marks at   *)
(* where they are in their passes.                                         *)
Good(S, k, ch, r) ==
  \E h \in History :
    /\ Fits(k, ch, r, h) /\ Stamped(S, k, ch, h)
    /\ \A c \in Seat : ~k[c].dropped => Timed(k[c], h, c)

(* The head of a tick: sample, put it in the ring, send it.                *)
Sampling(m, n, c, f) ==
  LET t == Plus(m.tick, Delay)
  IN  /\ f.type = "INPUT" /\ f.tick = t
      /\ n = [m EXCEPT !.ring[c][Slot(t)] = f.in]

SampledOn(h, h2, c) ==
  /\ SameTimes(h, h2) /\ Mark(h2, c) = h.tick[c] + Delay
  /\ Mark(h2, Peer(c)) = Mark(h, Peer(c))

(* The INPUT of the head of a tick has a history.                          *)
LEMMA SaysInput ==
  ASSUME NEW k \in [Seat -> Console], NEW ch, NEW r \in BOOLEAN,
         NEW h \in History, NEW k2, NEW ch2, NEW c \in Seat, NEW f,
         Roomy, Fits(k, ch, r, h), More(ch, r, ch2, c, f), ~k[c].dropped,
         Mark(h, c) = h.tick[c] + Delay - 1,
         k2[Peer(c)] = k[Peer(c)], Sampling(k[c], k2[c], c, f)
  PROVE  \E h2 \in History :
           /\ Fits(k2, ch2, r, h2) /\ SampledOn(h, h2, c)
           /\ Vouches({}, ch, h, ch2, h2)
<1>. DEFINE m == k[c]
            n == k2[c]
            t == Plus(m.tick, Delay)
            a == h.tick[c] + Delay
<1>1. /\ h.tick[c] \in Int /\ Delay \in Int /\ a \in Int
      /\ Mark(h, c) + 1 = a
  <2>1. h.tick[c] \in Int /\ Delay \in Int
    BY Typed, Numbers
  <2>. QED
    BY <2>1
<1>2. m.tick = Wrap(h.tick[c])
  BY DEF Fits, Clock
<1>3. t = Wrap(a) /\ Slot(t) = Cell(a)
  BY <1>1, <1>2, PlusTick, SlotTick
<1>4. n = [m EXCEPT !.ring[c][Cell(a)] = f.in] /\ m \in Console
  BY <1>3 DEF Sampling
<1>. HIDE DEF a, t, m, n
<1>5. /\ n.dropped = m.dropped /\ n.tick = m.tick /\ n.wm = m.wm
      /\ n.epoch = m.epoch /\ n.hold = m.hold /\ n.resume = m.resume
      /\ n.crc = m.crc /\ n.pend = m.pend
      /\ n.ring = [m.ring EXCEPT ![c][Cell(a)] = f.in]
  BY <1>4 DEF Console
<1>6. Looks(m, n)
  BY <1>5 DEF Looks
<1>7. \A h2 \in History : Mark(h2, c) = a => SpeaksInput(m, n, h, h2, c, f)
  <2>1. f.type = "INPUT" /\ f.tick = Wrap(Mark(h, c) + 1)
        /\ Cell(Mark(h, c) + 1) = Cell(a)
    BY <1>1, <1>3 DEF t, m, Sampling
  <2>. QED
    BY <1>1, <1>5, <2>1 DEF SpeaksInput, a
<1>8. Looks(k[c], k2[c]) /\ MaySay(k[c], k2[c], h, c, f, a)
  BY <1>6, <1>7 DEF m, n, MaySay
<1>9. \E h2 \in History : /\ Fits(k2, ch2, r, h2) /\ SaidOn(h, h2, c, a)
                          /\ Vouches(Words(c, f), ch, h, ch2, h2)
  BY <1>1, <1>8, Says
<1>10. Words(c, f) = {}
  BY DEF Sampling, Words
<1>. QED
  BY <1>9, <1>10 DEF a, SampledOn, SaidOn

(* At an open gate: the report of a tick that is due one,                  *)
LEMMA SaysCrc ==
  ASSUME NEW k \in [Seat -> Console], NEW ch, NEW r \in BOOLEAN,
         NEW h \in History, NEW ch2, NEW c \in Seat, NEW f, Roomy,
         Fits(k, ch, r, h), More(ch, r, ch2, c, f), ~k[c].dropped,
         Mark(h, c) = h.tick[c] + Delay,
         f.type = "CRC", f.tick = k[c].tick, CrcDue(f.tick)
  PROVE  \E h2 \in History :
           /\ Fits(k, ch2, r, h2) /\ SaidOn(h, h2, c, Mark(h, c))
           /\ Vouches(Words(c, f), ch, h, ch2, h2)
<1>. DEFINE a == Mark(h, c)
            k2 == k
<1>1. h.tick[c] \in Int /\ Delay \in Int /\ a \in Int
  BY Typed, Numbers
<1>2. f.tick = Wrap(a - Delay)
  <2>1. k[c].tick = Wrap(h.tick[c])
    BY DEF Fits, Clock
  <2>2. h.tick[c] = a - Delay
    BY <1>1
  <2>. QED
    BY <2>1, <2>2
<1>3. /\ k2[Peer(c)] = k[Peer(c)] /\ Looks(k[c], k2[c])
      /\ MaySay(k[c], k2[c], h, c, f, a)
  BY <1>2 DEF SpeaksCrc, Looks, MaySay
<1>5. Fits(k2, ch, r, h) /\ ~k2[c].dropped
  OBVIOUS
<1>. HIDE DEF a, k2
<1>4. \E h2 \in History : /\ Fits(k2, ch2, r, h2) /\ SaidOn(h, h2, c, a)
                          /\ Vouches(Words(c, f), ch, h, ch2, h2)
  BY <1>1, <1>3, <1>5, Says
<1>. QED
  BY <1>4 DEF a, k2

ReportOn(h, h2) ==
  SameTimes(h, h2) /\ \A x \in Seat : Mark(h2, x) = Mark(h, x)

(* with or without a report,                                               *)
LEMMA SaysReport ==
  ASSUME NEW k \in [Seat -> Console], NEW ch \in [Seat -> Seq(Frame)],
         NEW h \in History, NEW c \in Seat, NEW m \in Console, Roomy,
         room \in BOOLEAN, Fits(k, ch, room, h), ~k[c].dropped,
         Mark(h, c) = h.tick[c] + Delay, m.tick = k[c].tick
  PROVE  \E h2 \in History :
           /\ Fits(k, Reported(c, m, ch), room, h2) /\ ReportOn(h, h2)
           /\ Vouches(Own(c, m), ch, h, Reported(c, m, ch), h2)
<1>. DEFINE f == Report(m)
            ch2 == Sent(ch, c, <<f>>)
<1>1. CASE ~CrcDue(m.tick)
  <2>1. Reported(c, m, ch) = ch /\ ReportOn(h, h)
    BY <1>1 DEF Reported, ReportOn, SameTimes
  <2>2. \A W : Vouches(W, ch, h, ch, h)
    BY DEF Vouches
  <2>3. Vouches(Own(c, m), ch, h, Reported(c, m, ch), h)
    BY <2>1, <2>2
  <2>4. Fits(k, Reported(c, m, ch), room, h)
    BY <2>1
  <2>. QED
    BY <2>1, <2>3, <2>4
<1>2. CASE CrcDue(m.tick)
  <2>1. <<f>> \in Seq(Frame)
    BY ReportFrame
  <2>2. f.type = "CRC" /\ f.tick = k[c].tick /\ CrcDue(f.tick)
        /\ Words(c, f) = Own(c, m)
    BY <1>2 DEF Report, Words, Own
  <2>. HIDE DEF f
  <2>3. More(ch, room, ch2, c, f)
    BY <2>1, SentOne
  <2>. HIDE DEF ch2
  <2>4. PICK h2 \in History :
          /\ Fits(k, ch2, room, h2) /\ SaidOn(h, h2, c, Mark(h, c))
          /\ Vouches(Words(c, f), ch, h, ch2, h2)
    BY <2>2, <2>3, SaysCrc
  <2>5. Reported(c, m, ch) = ch2
    BY <1>2 DEF Reported, ch2, f
  <2>6. \A x \in Seat : x = c \/ x = Peer(c)
    BY Seats
  <2>7. \A x \in Seat : Mark(h2, x) = Mark(h, x)
    BY <2>4, <2>6 DEF SaidOn
  <2>8. /\ Fits(k, Reported(c, m, ch), room, h2)
        /\ Vouches(Own(c, m), ch, h, Reported(c, m, ch), h2)
    BY <2>2, <2>4, <2>5
  <2>9. ReportOn(h, h2)
    BY <2>4, <2>7 DEF SaidOn, ReportOn
  <2>. QED
    BY <2>8, <2>9
<1>. QED
  BY <1>1, <1>2

(* the tick,                                                               *)
Runs(k, k2, h, c) ==
  /\ ~k[c].dropped /\ k2[c].dropped = k[c].dropped
  /\ Mark(h, c) = h.tick[c] + Delay
  /\ k2[Peer(c)] = k[Peer(c)] /\ Kept1(k[c], k2[c])

RunOn(h, h2, c) ==
  /\ h2.tick[c] = h.tick[c] + 1 /\ h2.tick[Peer(c)] = h.tick[Peer(c)]
  /\ h2.epoch = h.epoch /\ h2.start = h.start /\ h2.tag = h.tag
  /\ \A x \in Seat : Mark(h2, x) = Mark(h, x)

(* a tick run past it has a history.                                       *)
LEMMA TickMade ==
  ASSUME NEW k, NEW k2, NEW ch, NEW r, NEW h \in History, NEW c \in Seat,
         Fits(k, ch, r, h), Runs(k, k2, h, c), h.tick[c] <= h.heard[c]
  PROVE  \E h2 \in History : Fits(k2, ch, r, h2) /\ RunOn(h, h2, c)
<1>. DEFINE h2 == [h EXCEPT !.tick = [@ EXCEPT ![c] = h.tick[c] + 1]]
<1>1. h.tick[c] \in Int /\ h.tick \in [Seat -> Int] /\ Peer(c) \in Seat
      /\ Peer(c) # c
  BY Typed, PeerType DEF History
<1>2. h.tick[c] + 1 \in Int
  BY <1>1
<1>3. /\ h2 \in History /\ h2.tick[c] = h.tick[c] + 1
      /\ h2.tick[Peer(c)] = h.tick[Peer(c)]
      /\ h2.heard = h.heard /\ h2.epoch = h.epoch /\ h2.last = h.last
      /\ h2.start = h.start /\ h2.tag = h.tag
  BY <1>1, <1>2 DEF History
<1>. HIDE DEF h2
<1>4. /\ k2[c].tick = Wrap(h.tick[c] + 1)
      /\ \A x \in CrcSlots :
           k2[c].crc[x] = k[c].crc[x] \/ k2[c].crc[x].t = Wrap(h.tick[c])
  <2>1. k[c].tick = Wrap(h.tick[c])
    BY DEF Fits, Clock, Runs
  <2>2. Plus(k[c].tick, 1) = Wrap(h.tick[c] + 1)
    <3>. DEFINE x == h.tick[c]
    <3>1. x \in Int /\ 1 \in Int /\ k[c].tick = Wrap(x)
      BY <1>1, <2>1
    <3>. HIDE DEF x
    <3>2. Plus(Wrap(x), 1) = Wrap(x + 1)
      BY <3>1, PlusTick
    <3>. QED
      BY <3>1, <3>2 DEF x
  <2>. QED
    BY <2>1, <2>2 DEF Kept1, Runs
<1>5. /\ Views(k[c], k2[c]) /\ k2[c].wm = k[c].wm
      /\ k2[c].epoch = k[c].epoch
  BY DEF Views, Kept1, Runs
<1>6. Ticks(k, h, k2, h2, c)
  BY <1>3, <1>4, <1>5 DEF Ticks, Runs
<1>7. Fits(k2, ch, r, h2)
  BY <1>3, <1>6, TicksFits
<1>8. \A x \in Seat : Mark(h2, x) = Mark(h, x)
  BY <1>3 DEF Mark
<1>. QED
  BY <1>3, <1>7, <1>8 DEF RunOn

(* the push.                                                               *)
LEMMA ImagesMade ==
  ASSUME NEW ch \in [Seat -> Seq(Frame)], NEW x \in Console, NEW t \in Int,
         x.resume = Wrap(t), room \in BOOLEAN,
         NEW g \in Tags, NEW g2 \in Tags, NEW e,
         \A i \in Nat : g2[i] = IF i > Len(ch[1]) THEN [of |-> e, at |-> 0]
                                ELSE g[i]
  PROVE  LET ch2 == Sent(ch, 0, PushFrames(x))
         IN  ch2[0] = ch[0] /\ Images(ch[1], g, ch2[1], g2, room, e, t)
<1>. DEFINE s == ch[1]
            fs == PushFrames(x)
            u == s \o fs
            w == Sent(ch, 0, fs)
            n == Len(s)
<1>1. /\ 1 \in Seat /\ 0 \in Seat /\ Peer(0) = 1 /\ s \in Seq(Frame)
      /\ NParts \in Nat \ {0}
  BY Seats, SizeAssumption
<1>2. /\ fs \in Seq(Frame) /\ Len(fs) = NParts + 2
      /\ fs[1].type = "BEGIN" /\ fs[1].tick = x.resume
      /\ \A i \in 2 .. NParts + 1 : fs[i].type = "CHUNK"
      /\ fs[NParts + 2].type = "END"
  BY PushFrame
<1>. HIDE DEF fs
<1>3. /\ Len(u) = n + Len(fs) /\ n \in Nat
      /\ \A i \in 1 .. n : u[i] = s[i]
      /\ \A i \in n + 1 .. n + Len(fs) : u[i] = fs[i - n]
  <2>1. s \in Seq(Frame) /\ fs \in Seq(Frame)
    BY <1>1, <1>2
  <2>. HIDE DEF s
  <2>. QED
    BY <2>1, ConcatProperties, LenProperties
<1>4. /\ room => w = [ch EXCEPT ![1] = u]
      /\ ~room => w = ch
  BY <1>1 DEF Sent
<1>5. /\ room => w[1] = u /\ w[0] = ch[0]
      /\ ~room => w[1] = s /\ w[0] = ch[0]
  BY <1>1, <1>4
<1>6. \A i \in 1 .. n : g2[i] = g[i]
  BY <1>3
<1>7. \A i \in Nat : i > n => g2[i].of = e
  BY <1>3
<1>. HIDE DEF u, w, s, n
<1>8. CASE room
  <2>1. Len(u) = n + NParts + 2
    BY <1>1, <1>2, <1>3
  <2>3. \A i \in n + 1 .. Len(u) :
          /\ g2[i].of = e
          /\ u[i].type = IF i = n + 1 THEN "BEGIN"
                         ELSE IF i = Len(u) THEN "END" ELSE "CHUNK"
          /\ i = n + 1 => u[i].tick = Wrap(t)
    <3>. SUFFICES ASSUME NEW i \in n + 1 .. Len(u)
                  PROVE  /\ g2[i].of = e
                         /\ u[i].type = IF i = n + 1 THEN "BEGIN"
                              ELSE IF i = Len(u) THEN "END" ELSE "CHUNK"
                         /\ i = n + 1 => u[i].tick = Wrap(t)
      OBVIOUS
    <3>1. i \in Nat /\ i > n /\ u[i] = fs[i - n] /\ i - n \in 1 .. NParts + 2
      BY <1>1, <1>2, <1>3, <2>1
    <3>2. i = n + 1 => u[i].type = "BEGIN" /\ u[i].tick = Wrap(t)
      <4>1. i = n + 1 => i - n = 1
        BY <1>3
      <4>. QED
        BY <1>2, <3>1, <4>1
    <3>3. i # n + 1 /\ i = Len(u) => u[i].type = "END"
      <4>1. i = Len(u) => i - n = NParts + 2
        BY <1>1, <1>3, <2>1
      <4>. QED
        BY <1>2, <3>1, <4>1
    <3>4. i # n + 1 /\ i # Len(u) => u[i].type = "CHUNK"
      <4>1. i # n + 1 /\ i # Len(u) => i - n \in 2 .. NParts + 1
        <5>1. /\ n \in Nat /\ NParts \in Nat /\ i \in Nat
              /\ i >= n + 1 /\ i <= n + NParts + 2
              /\ Len(u) = n + NParts + 2
          BY <1>1, <1>3, <2>1, <3>1
        <5>. QED
          BY <5>1
      <4>. QED
        BY <1>2, <3>1, <4>1
    <3>. QED
      BY <1>7, <3>1, <3>2, <3>3, <3>4
  <2>4. n \in 0 .. n /\ n <= Len(u) /\ Len(u) \in Nat
    BY <1>1, <1>3, <2>1
  <2>5. \A i \in n + 1 .. Len(u) : u[i].type \notin {"INPUT", "CRC"}
    BY <2>3
  <2>2. Kept(s, g, u, g2, n)
    BY <1>3, <1>6, <2>4, <2>5 DEF Kept, n
  <2>. QED
    BY <1>5, <1>8, <2>1, <2>2, <2>3 DEF Images, s, w, n, fs
<1>9. CASE ~room
  <2>1. Kept(s, g, s, g2, n)
    BY <1>3, <1>6 DEF Kept, n
  <2>2. \A i \in n + 1 .. n : FALSE
    BY <1>3
  <2>. QED
    BY <1>5, <1>9, <2>1, <2>2 DEF Images, s, w, n, fs
<1>. QED
  BY <1>8, <1>9

Resumes(k, k2, h, x, a) ==
  /\ ~k[0].dropped /\ k[0].pend /\ k2[1] = k[1]
  /\ First(h, h.epoch[0]) < Mark(h, 0)
  /\ a = Mark(h, 0) + ResumeAhead + 1 - Delay /\ x.resume = Wrap(a)
  /\ ~k2[0].dropped =>
       /\ Mark(h, 0) = h.tick[0] + Delay - 1
       /\ k2[0].tick = Wrap(a) /\ k2[0].wm = Wrap(a + Delay - 1)
       /\ k2[0].epoch = k[0].epoch + 1 /\ ~k2[0].pend
       /\ k2[0].ring = IdleRings /\ k2[0].crc = NoCrc

ResumeOn(h, h2, a) ==
  /\ h2.tick[0] = a /\ Mark(h2, 0) = a + Delay - 1
  /\ h2.tick[1] = h.tick[1] /\ Mark(h2, 1) = Mark(h, 1)

(* A push has a history: the epoch ends at the mark of the host, the next  *)
(* starts at a.                                                            *)
LEMMA PushMade ==
  ASSUME NEW k, NEW ch \in [Seat -> Seq(Frame)], NEW h \in History, NEW k2,
         NEW x \in Console, NEW a, Roomy, room \in BOOLEAN,
         Fits(k, ch, room, h), Resumes(k, k2, h, x, a)
  PROVE  \E h2 \in History :
           /\ Fits(k2, Sent(ch, 0, PushFrames(x)), room, h2)
           /\ ResumeOn(h, h2, a)
           /\ Vouches({}, ch, h, Sent(ch, 0, PushFrames(x)), h2)
<1>. DEFINE e == h.epoch[0] + 1
            b == a + Delay - 1
            n == Len(ch[1])
            g == [i \in Nat |-> IF i > n THEN [of |-> h.epoch[0], at |-> 0]
                                ELSE h.tag[1][i]]
            st == [h.start EXCEPT ![e] = a]
            la == [h.last[0] EXCEPT ![e] = b]
            ti == [s \in Seat |-> IF s = 0 THEN a ELSE h.tick[s]]
            he == [s \in Seat |-> IF s = 0 THEN b ELSE h.heard[s]]
            ep == [s \in Seat |-> IF s = 0 THEN e ELSE h.epoch[s]]
            ls == [s \in Seat |-> IF s = 0 THEN la ELSE h.last[s]]
            tg == [s \in Seat |-> IF s = 1 THEN g ELSE h.tag[s]]
            h2 == [tick |-> ti, heard |-> he, epoch |-> ep, last |-> ls,
                   start |-> st, tag |-> tg]
            ch2 == Sent(ch, 0, PushFrames(x))
<1>1. /\ 0 \in Seat /\ 1 \in Seat /\ h.epoch[0] \in Nat /\ Mark(h, 0) \in Int
      /\ Delay \in Nat /\ ResumeAhead \in Nat
  BY Seats, Typed, Numbers
<1>2. a \in Int /\ b \in Int /\ e \in Nat /\ \A y \in 0 .. h.epoch[0] :
        y \in Nat /\ y # e
  <2>1. a \in Int
    BY <1>1 DEF Resumes
  <2>2. b \in Int
    BY <1>1, <2>1
  <2>. QED
    BY <1>1, <2>1, <2>2
<1>. HIDE DEF b, e, n
<1>3. /\ h.tag[1] \in Tags /\ h.last[0] \in [Nat -> Int]
      /\ h.start \in [Nat -> Int]
      /\ h.tick \in [Seat -> Int] /\ h.heard \in [Seat -> Int]
      /\ h.epoch \in [Seat -> Nat] /\ h.last \in [Seat -> [Nat -> Int]]
      /\ h.tag \in [Seat -> Tags]
  BY <1>1 DEF History
<1>4. /\ g \in Tags
      /\ \A i \in Nat : g[i] = IF i > n THEN [of |-> h.epoch[0], at |-> 0]
                               ELSE h.tag[1][i]
  BY <1>1, <1>3 DEF Tags
<1>5. /\ st \in [Nat -> Int] /\ la \in [Nat -> Int]
      /\ st[e] = a /\ la[e] = b
      /\ \A y \in 0 .. h.epoch[0] : st[y] = h.start[y] /\ la[y] = h.last[0][y]
  BY <1>2, <1>3
<1>. HIDE DEF g, st, la
<1>6. /\ h2 \in History /\ h2.start = st /\ h2.last[0] = la
      /\ h2.last[1] = h.last[1] /\ h2.epoch[0] = e
      /\ h2.epoch[1] = h.epoch[1]
      /\ h2.tick[0] = a /\ h2.tick[1] = h.tick[1]
      /\ h2.heard[0] = b /\ h2.heard[1] = h.heard[1]
      /\ h2.tag[1] = g /\ h2.tag[0] = h.tag[0]
  <2>1. /\ ti \in [Seat -> Int] /\ ti[0] = a /\ ti[1] = h.tick[1]
        /\ he \in [Seat -> Int] /\ he[0] = b /\ he[1] = h.heard[1]
    BY <1>1, <1>2, <1>3, Seats
  <2>2. ep \in [Seat -> Nat] /\ ep[0] = e /\ ep[1] = h.epoch[1]
    BY <1>1, <1>2, <1>3, Seats
  <2>3. ls \in [Seat -> [Nat -> Int]] /\ ls[0] = la /\ ls[1] = h.last[1]
    BY <1>1, <1>3, <1>5, Seats
  <2>4. tg \in [Seat -> Tags] /\ tg[1] = g /\ tg[0] = h.tag[0]
    BY <1>1, <1>3, <1>4, Seats
  <2>. HIDE DEF ti, he, ep, ls, tg
  <2>5. st \in [Nat -> Int]
    BY <1>5
  <2>. QED
    BY <2>1, <2>2, <2>3, <2>4, <2>5 DEF History
<1>. HIDE DEF h2
<1>7. ch2[0] = ch[0] /\ Images(ch[1], h.tag[1], ch2[1], g, room, h.epoch[0], a)
  <2>1. /\ a \in Int /\ h.tag[1] \in Tags /\ g \in Tags
        /\ \A i \in Nat : g[i] = IF i > Len(ch[1])
                                 THEN [of |-> h.epoch[0], at |-> 0]
                                 ELSE h.tag[1][i]
    BY <1>2, <1>3, <1>4 DEF n
  <2>4. x.resume = Wrap(a)
    BY DEF Resumes
  <2>. DEFINE y == h.epoch[0]
              g1 == h.tag[1]
  <2>2. /\ g1 \in Tags
        /\ \A i \in Nat : g[i] = IF i > Len(ch[1])
                                 THEN [of |-> y, at |-> 0] ELSE g1[i]
    BY <2>1
  <2>. HIDE DEF y, g1, ch2
  <2>3. ch2[0] = ch[0] /\ Images(ch[1], g1, ch2[1], g, room, y, a)
    BY <2>1, <2>2, <2>4, ImagesMade DEF ch2
  <2>. QED
    BY <2>3 DEF y, g1
<1>. HIDE DEF ch2
<1>8. First(h2, e) = b
  BY <1>5, <1>6 DEF First, b
<1>9. ~k2[0].dropped => k2[0].epoch = e
  <2>1. k[0].epoch = h.epoch[0]
    BY <1>1 DEF Fits, Clock, Resumes
  <2>. QED
    BY <2>1 DEF e, Resumes
<1>10. Pushes(k, ch, room, h, k2, ch2, h2)
  BY <1>5, <1>6, <1>7, <1>8, <1>9 DEF Pushes, Resumes, b, e
<1>11. Fits(k2, ch2, room, h2)
  BY <1>6, <1>10, PushesFits
<1>12. Mark(h2, 0) = b /\ Mark(h2, 1) = Mark(h, 1)
  BY <1>5, <1>6 DEF Mark
<1>13. h2.epoch[0] # h2.epoch[1]
  <2>1. h.epoch[1] <= h.epoch[0] /\ h.epoch[1] \in Nat
    BY <1>1, <1>3 DEF Fits, Ages
  <2>. QED
    BY <1>1, <1>6, <2>1 DEF e
<1>14. Vouches({}, ch, h, ch2, h2)
  BY <1>6, <1>7, <1>13, VouchesSame
<1>. QED
  BY <1>6, <1>11, <1>12, <1>14 DEF b, ch2, ResumeOn

-----------------------------------------------------------------------------
(* The steps of a console that plays.                                      *)

(* Where a tick is run, the epoch began earlier.                           *)
LEMMA FirstPast ==
  ASSUME NEW k, NEW ch, NEW r, NEW h \in History, NEW c \in Seat, Roomy,
         Fits(k, ch, r, h), ~k[c].dropped
  PROVE  First(h, h.epoch[c]) < h.tick[c] + Delay
<1>1. /\ h.tick[c] \in Int /\ Delay \in Nat /\ h.epoch[c] \in Nat
      /\ h.start[h.epoch[c]] \in Int
  BY Typed, Numbers
<1>2. h.start[h.epoch[c]] <= h.tick[c]
  BY DEF Fits, Clock
<1>. QED
  BY <1>1, <1>2 DEF First

(* A tick as a history, on the way to a push too.                          *)
RanOn(h, h2, c) ==
  /\ Mark(h2, c) = h2.tick[c] + Delay - 1
  /\ Mark(h2, Peer(c)) = Mark(h, Peer(c))
  /\ h2.tick[Peer(c)] = h.tick[Peer(c)] /\ h2.tick[c] = h.tick[c] + 1
  /\ First(h2, h2.epoch[c]) < Mark(h2, c)

(* The tick is run with a history in between.                              *)
LEMMA TickGood ==
  ASSUME NEW k \in [Seat -> Console], NEW ch \in [Seat -> Seq(Frame)],
         NEW h \in History, NEW c \in Seat, NEW k2, NEW m, Roomy,
         room \in BOOLEAN, Fits(k, ch, room, h), Open(m), m = k[c],
         Runs(k, k2, h, c)
  PROVE  \E h2 \in History :
           /\ Fits(k2, Reported(c, m, ch), room, h2) /\ RanOn(h, h2, c)
           /\ Vouches(Own(c, m), ch, h, Reported(c, m, ch), h2)
<1>. DEFINE p == Peer(c)
            net == Reported(c, m, ch)
<1>1. m \in Console /\ p \in Seat /\ ~k[c].dropped /\ Open(k[c])
      /\ Mark(h, c) = h.tick[c] + Delay
  BY PeerType DEF Runs
<1>2. PICK h1 \in History :
        /\ Fits(k, net, room, h1) /\ ReportOn(h, h1)
        /\ Vouches(Own(c, m), ch, h, net, h1)
  BY <1>1, SaysReport
<1>. HIDE DEF net
<1>3. /\ Mark(h1, c) = h1.tick[c] + Delay /\ Mark(h1, p) = Mark(h, p)
      /\ h1.tick = h.tick
  BY <1>1, <1>2 DEF SameTimes, ReportOn
<1>4. h1.tick[c] <= h1.heard[c]
  BY <1>1, <1>2, HeardSpan
<1>9. Runs(k, k2, h1, c)
  BY <1>3 DEF Runs
<1>5. PICK h2 \in History : Fits(k2, net, room, h2) /\ RunOn(h1, h2, c)
  BY <1>2, <1>4, <1>9, TickMade
<1>6. First(h1, h1.epoch[c]) < h1.tick[c] + Delay
  BY <1>1, <1>2, FirstPast
<1>10. /\ h2.tick[c] = h1.tick[c] + 1 /\ h2.tick[p] = h1.tick[p]
       /\ h2.epoch = h1.epoch /\ h2.start = h1.start
       /\ Mark(h2, c) = Mark(h1, c) /\ Mark(h2, p) = Mark(h1, p)
  BY <1>1, <1>5 DEF RunOn
<1>7. First(h2, h2.epoch[c]) < Mark(h2, c)
  BY <1>3, <1>6, <1>10 DEF First
<1>8. Mark(h2, c) = h2.tick[c] + Delay - 1
  <2>1. h1.tick[c] \in Int /\ Delay \in Int
    BY Typed, Numbers
  <2>. DEFINE x == h1.tick[c]
              y == h2.tick[c]
              b == Mark(h2, c)
  <2>2. b = x + Delay /\ y = x + 1 /\ x \in Int
    BY <1>1, <1>3, <1>10, <2>1
  <2>. HIDE DEF x, y, b
  <2>3. b = y + Delay - 1
    BY <2>1, <2>2
  <2>. QED
    BY <2>3 DEF y, b
<1>11. RanOn(h, h2, c)
  BY <1>3, <1>7, <1>8, <1>10 DEF RanOn
<1>12. Vouches(Own(c, m), net, h1, net, h2)
  BY <1>5, VouchesSame DEF RunOn
<1>13. Vouches(Own(c, m), ch, h, net, h2)
  BY <1>2, <1>12, VouchesBoth
<1>. QED
  BY <1>5, <1>11, <1>13 DEF net

(* The gate of a console that plays leaves a state some history fits.      *)
LEMMA GateGood ==
  ASSUME NEW S, TypeOK, NEW c \in Seat, NEW m \in Console,
         NEW ch \in [Seat -> Seq(Frame)], NEW h \in History, Roomy,
         Gate(c, m, ch), room' = room, ~m.dropped,
         Fits([con EXCEPT ![c] = m], ch, room, h),
         Stamped(S, [con EXCEPT ![c] = m], ch, h),
         c = 1 => Cksum(m.world) \in S,
         Mark(h, c) = h.tick[c] + Delay,
         ~con[Peer(c)].dropped => Timed(con[Peer(c)], h, Peer(c))
  PROVE  Good(S, con', chan', room')
<1>. DEFINE k == [con EXCEPT ![c] = m]
            p == Peer(c)
<1>1. /\ con \in [Seat -> Console] /\ p \in Seat /\ p # c
      /\ room \in BOOLEAN /\ \A x \in Seat : x = c \/ x = p
  BY Seats DEF TypeOK
<1>2. /\ k \in [Seat -> Console] /\ k[c] = m /\ k[p] = con[p]
      /\ Fits(k, ch, room, h) /\ ~k[c].dropped /\ Stamped(S, k, ch, h)
  BY <1>1
<1>3. PICK n \in Console :
        /\ con' = [con EXCEPT ![c] = n] /\ n.dropped = m.dropped
        /\ \/ /\ ~Open(m) /\ n.pc = "stall" /\ Same(m, n) /\ chan' = ch
           \/ /\ Open(m) /\ n.pc # "stall"
              /\ m.dropped => n.pc = "parked"
              /\ \/ Kept1(m, n) /\ chan' = Reported(c, m, ch)
                 \/ /\ Pushed(m, n) /\ c = Host
                    /\ \E x \in Console :
                         /\ x.resume = n.tick
                         /\ chan' = Sent(Reported(c, m, ch), c,
                                         PushFrames(x))
  BY GateOutcome DEF Outcome
<1>4. con'[c] = n /\ con'[p] = con[p] /\ con'[c].dropped = FALSE
  BY <1>1, <1>3 DEF Console
<1>. DEFINE k2 == con'
            W == Own(c, m)
<1>9. W \subseteq S
  BY DEF Own
<1>. HIDE DEF k, W
<1>10. ~k2[0].dropped => ~k[0].dropped
  BY <1>1, <1>2, <1>4, Seats
<1>11. \/ Same(m, n) \/ Kept1(m, n) \/ c = 0
       => k2[1].epoch = k[1].epoch
  BY <1>1, <1>2, <1>4, Seats DEF Same, Looks, Kept1
<1>5. ASSUME NEW h2 \in History, Fits(k2, chan', room', h2),
             Stamped(S, k2, chan', h2),
             Timed(n, h2, c), Mark(h2, p) = Mark(h, p),
             h2.tick[p] = h.tick[p]
      PROVE  Good(S, con', chan', room')
  <2>1. ~k2[p].dropped => Timed(k2[p], h2, p)
    BY <1>4, <1>5 DEF Timed
  <2>2. \A x \in Seat : ~k2[x].dropped => Timed(k2[x], h2, x)
    BY <1>1, <1>4, <1>5, <2>1
  <2>. QED
    BY <1>5, <2>2 DEF Good
<1>6. CASE ~Open(m)
  <2>1. n.pc = "stall" /\ Same(m, n) /\ chan' = ch
    BY <1>3, <1>6
  <2>2. \A x : Same(x, x)
    BY DEF Same, Looks
  <2>3. \A x \in Seat : Same(k[x], k2[x])
    BY <1>1, <1>2, <1>4, <2>1, <2>2
  <2>6. k2[1].epoch = k[1].epoch /\ ch[0] = ch[0]
    BY <1>11, <2>1
  <2>. HIDE DEF k2
  <2>4. Fits(k2, ch, room, h)
    BY <1>2, <2>3, SameFits
  <2>7. Stamped(S, k2, ch, h)
    BY <1>2, <1>10, <2>6, StampedSame
  <2>5. Timed(n, h, c)
    BY <2>1 DEF Timed
  <2>. QED
    BY <1>5, <2>1, <2>4, <2>5, <2>7
<1>7. CASE Open(m) /\ Kept1(m, n) /\ chan' = Reported(c, m, ch)
  <2>1. Runs(k, k2, h, c) /\ n.pc # "stall"
    BY <1>2, <1>3, <1>4, <1>7 DEF Console, Runs
  <2>4. k2[1].epoch = k[1].epoch
    BY <1>7, <1>11
  <2>. HIDE DEF k2
  <2>2. PICK h2 \in History :
          /\ Fits(k2, Reported(c, m, ch), room, h2) /\ RanOn(h, h2, c)
          /\ Vouches(Own(c, m), ch, h, Reported(c, m, ch), h2)
    BY <1>1, <1>2, <1>7, <2>1, TickGood
  <2>5. Vouches(W, ch, h, chan', h2)
    BY <1>7, <2>2 DEF W
  <2>6. Stamped(S, k2, chan', h2)
    BY <1>2, <1>9, <1>10, <2>4, <2>5, VouchesStamped
  <2>3. Timed(n, h2, c)
    <3>1. h2.tick[c] \in Int /\ Delay \in Int
      BY Typed, Numbers
    <3>. QED
      BY <2>1, <2>2, <3>1 DEF Timed, RanOn
  <2>. QED
    BY <1>5, <1>7, <2>2, <2>3, <2>6 DEF RanOn
<1>8. ASSUME NEW x \in Console, Open(m), Pushed(m, n), c = Host,
             x.resume = n.tick,
             chan' = Sent(Reported(c, m, ch), c, PushFrames(x))
      PROVE  Good(S, con', chan', room')
  <2>. DEFINE d == [m EXCEPT !.tick = Plus(m.tick, 1)]
              k1 == [k EXCEPT ![c] = d]
              net == Reported(c, m, ch)
  <2>1. /\ Kept1(m, d) /\ d.dropped = m.dropped /\ d.pend = m.pend
        /\ d.epoch = m.epoch /\ d.tick = Plus(m.tick, 1)
    BY DEF Kept1, Console
  <2>. HIDE DEF d
  <2>2. k1[c] = d /\ k1[p] = k[p]
    BY <1>1, <1>2
  <2>. HIDE DEF k1
  <2>3. Runs(k, k1, h, c)
    BY <1>2, <2>1, <2>2 DEF Runs
  <2>15. PICK h2 \in History :
           /\ Fits(k1, Reported(c, m, ch), room, h2) /\ RanOn(h, h2, c)
           /\ Vouches(Own(c, m), ch, h, Reported(c, m, ch), h2)
    BY <1>1, <1>2, <1>8, <2>3, TickGood
  <2>4. /\ Fits(k1, net, room, h2)
        /\ Mark(h2, c) = h2.tick[c] + Delay - 1
        /\ Mark(h2, p) = Mark(h, p) /\ h2.tick[p] = h.tick[p]
        /\ h2.tick[c] = h.tick[c] + 1
        /\ First(h2, h2.epoch[c]) < Mark(h2, c)
    BY <2>15 DEF RanOn
  <2>5. net \in [Seat -> Seq(Frame)]
    BY ReportedNoLeft
  <2>. DEFINE a == h2.tick[c] + ResumeAhead
  <2>6. c = 0 /\ p = 1 /\ 0 \in Seat /\ 1 \in Seat
    BY <1>8, Seats DEF Host
  <2>7. /\ h2.tick[c] \in Int /\ Delay \in Int /\ ResumeAhead \in Int
        /\ a \in Int /\ h.tick[c] \in Int
    <3>1. h2.tick[c] \in Int /\ Delay \in Int /\ ResumeAhead \in Int
          /\ h.tick[c] \in Int
      BY Typed, Numbers
    <3>. QED
      BY <3>1
  <2>8. a = Mark(h2, c) + ResumeAhead + 1 - Delay
    <3>. DEFINE y == h2.tick[c]
                b == Mark(h2, c)
    <3>1. b = y + Delay - 1 /\ a = y + ResumeAhead /\ y \in Int
      BY <2>4, <2>7
    <3>. HIDE DEF a, b, y
    <3>2. a = b + ResumeAhead + 1 - Delay
      BY <2>7, <3>1
    <3>. QED
      BY <3>2 DEF b
  <2>9. n.tick = Wrap(a) /\ n.wm = Wrap(a + Delay - 1)
    <3>. DEFINE z == h2.tick[c]
                y == Delay - 1
    <3>1. d.tick = Wrap(z)
      BY <1>4, <1>8, <2>1, <2>2, <2>4 DEF Fits, Clock
    <3>2. n.tick = Plus(d.tick, ResumeAhead) /\ n.wm = Plus(n.tick, y)
      BY <1>8, <2>1 DEF Pushed
    <3>3. z \in Int /\ y \in Int /\ a = z + ResumeAhead
          /\ a + y = a + Delay - 1
      BY <2>7
    <3>. HIDE DEF z, y, a
    <3>4. n.tick = Wrap(a)
      BY <2>7, <3>1, <3>2, <3>3, PlusTick
    <3>5. n.wm = Wrap(a + y)
      BY <2>7, <3>2, <3>3, <3>4, PlusTick
    <3>. QED
      BY <3>3, <3>4, <3>5
  <2>10. /\ k2[c] = n /\ k2[p] = k1[p] /\ ~k1[c].dropped /\ k1[c].pend
         /\ k2[c].epoch = k1[c].epoch + 1 /\ ~k2[c].pend
         /\ k2[c].ring = IdleRings /\ k2[c].crc = NoCrc
    BY <1>2, <1>4, <1>8, <2>1, <2>2 DEF Pushed
  <2>11. x.resume = Wrap(a)
    BY <1>8, <2>9
  <2>. HIDE DEF a, net, k2
  <2>12. Resumes(k1, k2, h2, x, a)
    BY <2>4, <2>6, <2>8, <2>9, <2>10, <2>11 DEF Resumes
  <2>16. PICK h3 \in History :
           /\ Fits(k2, Sent(net, 0, PushFrames(x)), room, h3)
           /\ ResumeOn(h2, h3, a)
           /\ Vouches({}, net, h2, Sent(net, 0, PushFrames(x)), h3)
    BY <1>1, <2>4, <2>5, <2>12, PushMade
  <2>13. Timed(n, h3, c)
    BY <1>3, <1>8, <2>6, <2>7, <2>16 DEF Timed, ResumeOn
  <2>14. chan' = Sent(net, 0, PushFrames(x))
    BY <1>8, <2>6 DEF net
  <2>17. Vouches({}, net, h2, chan', h3)
    BY <2>14, <2>16
  <2>18. Vouches(W, net, h2, chan', h3)
    BY <2>17, VouchesMore
  <2>19. Vouches(W, ch, h, net, h2)
    BY <2>15 DEF W, net
  <2>20. Vouches(W, ch, h, chan', h3)
    BY <2>18, <2>19, VouchesBoth
  <2>21. k2[1].epoch = k[1].epoch
    BY <1>11, <2>6
  <2>22. Stamped(S, k2, chan', h3)
    BY <1>2, <1>9, <1>10, <2>20, <2>21, VouchesStamped
  <2>. QED
    BY <1>5, <2>4, <2>6, <2>16, <2>13, <2>14, <2>22 DEF ResumeOn
<1>. QED
  BY <1>3, <1>6, <1>7, <1>8

-----------------------------------------------------------------------------
(* The actions.  A console that is on the terminal screen needs nothing,   *)
LEMMA DropGood ==
  ASSUME NEW S, NEW c \in Seat, TypeOK, Good(S, con, chan, room),
         room' = room, c = 1 => con'[1].epoch = con[1].epoch,
         con'[c].dropped, con'[Peer(c)] = con[Peer(c)],
         chan'[Peer(c)] = chan[Peer(c)]
  PROVE  Good(S, con', chan', room')
<1>1. PICK h \in History :
        /\ Fits(con, chan, room, h) /\ Stamped(S, con, chan, h)
        /\ \A x \in Seat : ~con[x].dropped => Timed(con[x], h, x)
  BY DEF Good
<1>. DEFINE k2 == con'
            ch2 == chan'
<1>2. /\ k2[c].dropped /\ k2[Peer(c)] = con[Peer(c)]
      /\ ch2[Peer(c)] = chan[Peer(c)]
      /\ c = 1 => k2[1].epoch = con[1].epoch
  OBVIOUS
<1>3. /\ Peer(c) \in Seat /\ \A x \in Seat : x = c \/ x = Peer(c)
  BY Seats
<1>. HIDE DEF k2, ch2
<1>4. Fits(k2, ch2, room, h)
  BY <1>1, <1>2, DropsFits
<1>5. \A x \in Seat : ~k2[x].dropped => Timed(k2[x], h, x)
  BY <1>1, <1>2, <1>3
<1>6. Stamped(S, k2, ch2, h)
  <2>1. CASE c = 0
    BY <1>2, <2>1 DEF Stamped
  <2>2. CASE c = 1
    <3>1. /\ ch2[0] = chan[0] /\ k2[1].epoch = con[1].epoch
          /\ ~k2[0].dropped => ~con[0].dropped
      BY <1>2, <2>2, Seats
    <3>. QED
      BY <1>1, <3>1, StampedSame
  <2>. QED
    BY <2>1, <2>2, Seats
<1>. QED
  BY <1>1, <1>4, <1>5, <1>6 DEF Good, k2, ch2

(* whatever it still does after the room is gone.                          *)
LEMMA GateAlone ==
  ASSUME TypeOK, NEW c \in Seat, NEW m \in Console, NEW ch, Gate(c, m, ch)
  PROVE  /\ con'[c].dropped = m.dropped /\ con'[Peer(c)] = con[Peer(c)]
         /\ ~room => chan' = ch
         /\ c = 1 => con'[1].epoch = m.epoch
<1>1. PICK n \in Console :
        /\ con' = [con EXCEPT ![c] = n] /\ n.dropped = m.dropped
        /\ \/ /\ ~Open(m) /\ n.pc = "stall" /\ Same(m, n) /\ chan' = ch
           \/ /\ Open(m) /\ n.pc # "stall"
              /\ m.dropped => n.pc = "parked"
              /\ \/ Kept1(m, n) /\ chan' = Reported(c, m, ch)
                 \/ /\ Pushed(m, n) /\ c = Host
                    /\ \E x \in Console :
                         /\ x.resume = n.tick
                         /\ chan' = Sent(Reported(c, m, ch), c,
                                         PushFrames(x))
  BY GateOutcome DEF Outcome
<1>2. ~room => chan' = ch
  BY <1>1 DEF Reported, Sent
<1>3. con'[c] = n /\ con'[Peer(c)] = con[Peer(c)]
  BY <1>1, Seats DEF TypeOK
<1>4. c = 1 => n.epoch = m.epoch
  BY <1>1 DEF Same, Looks, Kept1, Host
<1>. QED
  BY <1>1, <1>2, <1>3, <1>4

(* So the gate of a console that dropped out needs nothing.                *)
LEMMA GateDropped ==
  ASSUME NEW S, TypeOK, NEW c \in Seat, NEW m \in Console, NEW ch, ch = chan,
         Gate(c, m, ch), room' = room, ~room, m.dropped,
         m.epoch = con[c].epoch, Good(S, con, chan, room)
  PROVE  Good(S, con', chan', room')
<1>1. /\ con'[c].dropped = m.dropped /\ con'[Peer(c)] = con[Peer(c)]
      /\ ~room => chan' = ch
      /\ c = 1 => con'[1].epoch = m.epoch
  BY GateAlone
<1>. QED
  BY <1>1, DropGood

(* The head of a tick.                                                     *)
LEMMA SampleGood ==
  ASSUME NEW S, TypeOK, Gone, Roomy, NEW c \in Seat, SampleInput(c),
         Good(S, con, chan, room), Cksum(con[1].world) \in S
  PROVE  Good(S, con', chan', room')
<1>1. /\ con \in [Seat -> Console] /\ con[c] \in Console
      /\ chan \in [Seat -> Seq(Frame)] /\ room \in BOOLEAN
      /\ room' = room /\ con[c].pc = "pump"
  BY DEF TypeOK, SampleInput
<1>. DEFINE t == Plus(con[c].tick, Delay)
            p == Peer(c)
<1>2. PICK v \in Inputs :
        Gate(c, [con[c] EXCEPT !.ring[c][Slot(t)] = v],
             Sent(chan, c, <<[type |-> "INPUT", tick |-> t, in |-> v]>>))
  BY DEF SampleInput
<1>. DEFINE f == [type |-> "INPUT", tick |-> t, in |-> v]
            m == [con[c] EXCEPT !.ring[c][Slot(t)] = v]
            net == Sent(chan, c, <<f>>)
            k == [con EXCEPT ![c] = m]
<1>3. t \in Tick
  <2>1. con[c].tick \in Int /\ Delay \in Int
    BY <1>1, SizeAssumption DEF Console, Tick
  <2>. QED
    BY <2>1, PlusType
<1>4. /\ m \in Console /\ m.dropped = con[c].dropped
      /\ m.epoch = con[c].epoch /\ m.world = con[c].world
  BY <1>1 DEF Console
<1>5. Gate(c, m, net)
  BY <1>2
<1>6. <<f>> \in Seq(Frame)
  <2>. HIDE DEF t
  <2>. QED
    BY <1>3 DEF Frame
<1>7. net \in [Seat -> Seq(Frame)]
  <2>. HIDE DEF f
  <2>. QED
    BY <1>1, <1>6, SentType
<1>8. CASE con[c].dropped
  <2>1. ~room
    BY <1>1, <1>8 DEF Gone
  <2>2. net = chan
    BY <2>1 DEF Sent
  <2>. HIDE DEF m, net
  <2>. QED
    BY <1>1, <1>4, <1>5, <1>8, <2>1, <2>2, GateDropped
<1>9. CASE ~con[c].dropped
  <2>1. PICK h \in History :
          /\ Fits(con, chan, room, h) /\ Stamped(S, con, chan, h)
          /\ \A x \in Seat : ~con[x].dropped => Timed(con[x], h, x)
    BY DEF Good
  <2>2. Mark(h, c) = h.tick[c] + Delay - 1
    <3>1. h.tick[c] \in Int /\ Delay \in Int /\ Mark(h, c) \in Int
      BY Typed, Numbers
    <3>. QED
      BY <1>1, <1>9, <2>1, <3>1 DEF Timed
  <2>3. /\ f.type = "INPUT" /\ f.tick = t
        /\ m = [con[c] EXCEPT !.ring[c][Slot(t)] = f.in]
    OBVIOUS
  <2>4. k[c] = m /\ k[p] = con[p] /\ p \in Seat
    BY <1>1, Seats
  <2>5. Sampling(con[c], k[c], c, f)
    BY <2>3, <2>4 DEF Sampling
  <2>. HIDE DEF f, t
  <2>6. More(chan, room, net, c, f)
    BY <1>1, <1>6, SentOne
  <2>. HIDE DEF m, k, net
  <2>7. PICK h2 \in History :
          /\ Fits(k, net, room, h2) /\ SampledOn(h, h2, c)
          /\ Vouches({}, chan, h, net, h2)
    BY <1>1, <1>9, <2>1, <2>2, <2>4, <2>5, <2>6, SaysInput
  <2>8. Mark(h2, c) = h2.tick[c] + Delay
    BY <2>7 DEF SameTimes, SampledOn
  <2>9. ~con[p].dropped => Timed(con[p], h2, p)
    BY <2>1, <2>4, <2>7 DEF Timed, SameTimes,
                                    SampledOn
  <2>11. /\ k[1].epoch = con[1].epoch /\ {} \subseteq S
         /\ ~k[0].dropped => ~con[0].dropped
         /\ c = 1 => Cksum(m.world) \in S
    BY <1>4, <2>4, Seats
  <2>12. Stamped(S, k, net, h2)
    BY <2>1, <2>7, <2>11, VouchesStamped
  <2>10. /\ Fits([con EXCEPT ![c] = m], net, room, h2)
         /\ Stamped(S, [con EXCEPT ![c] = m], net, h2)
    BY <2>7, <2>12 DEF k
  <2>. QED
    BY <1>1, <1>4, <1>5, <1>7, <1>9, <2>8, <2>9, <2>10, <2>11, GateGood
<1>. QED
  BY <1>8, <1>9

(* A console that gives up at its gate: it runs one tick more, reports it, *)
(* and pushes if a push was due.                                           *)
LEMMA LostGood ==
  ASSUME NEW S, TypeOK, Roomy, NEW c \in Seat, NEW m \in Console,
         NEW ch \in [Seat -> Seq(Frame)], ch = chan,
         Gate(c, m, ch), room' = room, Good(S, con, chan, room),
         ~con[c].dropped, con[c].pc = "stall",
         m.dropped = TRUE, m.tick = con[c].tick, m.pend = con[c].pend,
         m.epoch = con[c].epoch, m.world = con[c].world,
         Cksum(con[1].world) \in S
  PROVE  Good(S, con', chan', room')
<1>. DEFINE p == Peer(c)
            net == Reported(c, m, ch)
            k2 == con'
<1>1. /\ con \in [Seat -> Console] /\ p \in Seat /\ p # c /\ room \in BOOLEAN
      /\ \A x \in Seat : x = c \/ x = p
  BY Seats DEF TypeOK
<1>2. PICK h \in History :
        /\ Fits(con, ch, room, h) /\ Stamped(S, con, ch, h)
        /\ \A x \in Seat : ~con[x].dropped => Timed(con[x], h, x)
  BY DEF Good
<1>3. Mark(h, c) = h.tick[c] + Delay
  BY <1>2 DEF Timed
<1>12. PICK h2 \in History :
         /\ Fits(con, Reported(c, m, ch), room, h2) /\ ReportOn(h, h2)
         /\ Vouches(Own(c, m), ch, h, Reported(c, m, ch), h2)
  BY <1>1, <1>2, <1>3, SaysReport
<1>4. /\ Fits(con, net, room, h2) /\ ReportOn(h, h2)
      /\ Vouches(Own(c, m), ch, h, net, h2) /\ Own(c, m) \subseteq S
  BY <1>12 DEF Own
<1>13. Stamped(S, con, net, h2)
  BY <1>2, <1>4, VouchesStamped
<1>5. /\ Mark(h2, c) = h2.tick[c] + Delay /\ Mark(h2, p) = Mark(h, p)
      /\ h2.tick[p] = h.tick[p]
  BY <1>1, <1>3, <1>4 DEF SameTimes, ReportOn
<1>6. /\ k2[c].dropped /\ k2[p] = con[p]
      /\ c = 1 => k2[1].epoch = con[1].epoch
  BY GateAlone
<1>14. c = 0 => \A d, g : Stamped(S, k2, d, g)
  BY <1>6 DEF Stamped
<1>7. ASSUME NEW h3 \in History, Fits(k2, chan', room', h3),
             Stamped(S, k2, chan', h3),
             Mark(h3, p) = Mark(h, p), h3.tick[p] = h.tick[p]
      PROVE  Good(S, con', chan', room')
  <2>1. ~k2[p].dropped => Timed(k2[p], h3, p)
    BY <1>1, <1>2, <1>6, <1>7 DEF Timed
  <2>2. \A x \in Seat : ~k2[x].dropped => Timed(k2[x], h3, x)
    BY <1>1, <1>6, <2>1
  <2>. QED
    BY <1>7, <2>2 DEF Good
<1>8. PICK n \in Console :
        /\ con' = [con EXCEPT ![c] = n] /\ n.dropped = m.dropped
        /\ \/ /\ ~Open(m) /\ n.pc = "stall" /\ Same(m, n) /\ chan' = ch
           \/ /\ Open(m) /\ n.pc # "stall"
              /\ m.dropped => n.pc = "parked"
              /\ \/ Kept1(m, n) /\ chan' = Reported(c, m, ch)
                 \/ /\ Pushed(m, n) /\ c = Host
                    /\ \E x \in Console :
                         /\ x.resume = n.tick
                         /\ chan' = Sent(Reported(c, m, ch), c,
                                         PushFrames(x))
  BY GateOutcome DEF Outcome
<1>9. \/ chan' = net
      \/ /\ Pushed(m, n) /\ c = Host
         /\ \E x \in Console :
              x.resume = n.tick /\ chan' = Sent(net, c, PushFrames(x))
  BY <1>8 DEF Open
<1>10. CASE chan' = net
  <2>. DEFINE ch2 == chan'
  <2>1. ch2[p] = net[p]
    BY <1>10
  <2>. HIDE DEF k2, net, ch2
  <2>2. Fits(k2, ch2, room, h2)
    BY <1>4, <1>6, <2>1, DropsFits
  <2>3. Stamped(S, k2, ch2, h2)
    <3>1. CASE c = 0
      BY <1>14, <3>1
    <3>2. CASE c = 1
      <4>1. /\ ch2[0] = net[0] /\ k2[1].epoch = con[1].epoch
            /\ ~k2[0].dropped => ~con[0].dropped
        BY <1>6, <2>1, <3>2, Seats
      <4>. QED
        BY <1>13, <4>1, StampedSame
    <3>. QED
      BY <3>1, <3>2, Seats
  <2>. QED
    BY <1>4, <1>5, <1>7, <2>2, <2>3 DEF ch2
<1>11. ASSUME NEW x \in Console, Pushed(m, n), c = Host, x.resume = n.tick,
              chan' = Sent(net, c, PushFrames(x))
       PROVE  Good(S, con', chan', room')
  <2>. DEFINE a == Mark(h2, c) + ResumeAhead + 1 - Delay
              y == h2.tick[c]
  <2>1. c = 0 /\ p = 1 /\ 0 \in Seat /\ 1 \in Seat
    BY <1>11, Seats DEF Host
  <2>2. /\ y \in Int /\ Delay \in Int /\ ResumeAhead \in Int
        /\ a \in Int /\ a = (y + 1) + ResumeAhead /\ y + 1 \in Int
    <3>1. y \in Int /\ Delay \in Int /\ ResumeAhead \in Int
      BY Typed, Numbers
    <3>. DEFINE z == Mark(h2, c)
    <3>2. z = y + Delay
      BY <1>5
    <3>. HIDE DEF y, z
    <3>3. /\ z + ResumeAhead + 1 - Delay = (y + 1) + ResumeAhead
          /\ z + ResumeAhead + 1 - Delay \in Int /\ y + 1 \in Int
      BY <3>1, <3>2
    <3>. QED
      BY <3>1, <3>3 DEF z
  <2>3. m.tick = Wrap(y)
    BY <1>4 DEF Fits, Clock
  <2>4. First(h2, h2.epoch[c]) < Mark(h2, c)
    BY <1>4, <1>5, FirstPast
  <2>. HIDE DEF y
  <2>5. x.resume = Wrap(a)
    <3>1. x.resume = Plus(Plus(m.tick, 1), ResumeAhead)
      BY <1>11 DEF Pushed
    <3>. HIDE DEF a
    <3>2. Plus(m.tick, 1) = Wrap(y + 1)
      BY <2>2, <2>3, PlusTick
    <3>3. Plus(Wrap(y + 1), ResumeAhead) = Wrap((y + 1) + ResumeAhead)
      BY <2>2, PlusTick
    <3>. QED
      BY <2>2, <3>1, <3>2, <3>3
  <2>6. /\ ~con[0].dropped /\ con[0].pend /\ k2[1] = con[1] /\ k2[0].dropped
        /\ First(h2, h2.epoch[0]) < Mark(h2, 0)
        /\ a = Mark(h2, 0) + ResumeAhead + 1 - Delay
    BY <1>6, <1>11, <2>1, <2>4 DEF Pushed
  <2>. HIDE DEF a, k2
  <2>7. Resumes(con, k2, h2, x, a)
    BY <2>5, <2>6 DEF Resumes
  <2>8. net \in [Seat -> Seq(Frame)]
    BY ReportedNoLeft
  <2>. HIDE DEF net
  <2>9. PICK h3 \in History :
          /\ Fits(k2, Sent(net, 0, PushFrames(x)), room, h3)
          /\ ResumeOn(h2, h3, a)
    BY <1>1, <1>4, <2>7, <2>8, PushMade
  <2>. QED
    BY <1>5, <1>7, <1>11, <1>14, <2>1, <2>9 DEF ResumeOn
<1>. QED
  BY <1>9, <1>10, <1>11

(* A round of the gate.                                                    *)
LEMMA StallGood ==
  ASSUME NEW S, TypeOK, Gone, Roomy, NEW c \in Seat, StallRound(c),
         Good(S, con, chan, room), Cksum(con[1].world) \in S
  PROVE  Good(S, con', chan', room')
<1>. DEFINE m == [con[c] EXCEPT !.waitc = IF GateRounds = 0 THEN 0 ELSE @ + 1]
            n == IF GateRounds # 0 /\ m.waitc >= GateRounds
                 THEN Drop(m, "lost") ELSE m
            p == Peer(c)
            ch == chan
            k == [con EXCEPT ![c] = m]
<1>1. /\ con \in [Seat -> Console] /\ con[c] \in Console
      /\ ch \in [Seat -> Seq(Frame)] /\ room \in BOOLEAN
      /\ room' = room /\ con[c].pc = "stall" /\ p \in Seat /\ p # c
      /\ \A x \in Seat : x = c \/ x = p
  BY Seats DEF TypeOK, StallRound
<1>2. Gate(c, n, ch)
  BY DEF StallRound
<1>3. m \in Console
  <2>1. con[c].waitc + 1 \in Nat
    BY <1>1 DEF Console
  <2>. QED
    BY <1>1, <2>1 DEF Console
<1>4. Same(con[c], m) /\ m.world = con[c].world
  BY <1>1 DEF Console, Same, Looks
<1>. HIDE DEF m, ch
<1>5. Drop(m, "lost") \in Console
  BY <1>3, DropType
<1>6. CASE n = Drop(m, "lost")
  <2>. DEFINE d == Drop(m, "lost")
  <2>1. /\ d.dropped = TRUE /\ d.tick = m.tick /\ d.pend = m.pend
        /\ d.epoch = m.epoch /\ d.world = m.world
    BY <1>3 DEF Drop, IdleRemote, Console
  <2>2. /\ d.tick = con[c].tick /\ d.pend = con[c].pend
        /\ d.epoch = con[c].epoch /\ d.world = con[c].world
    BY <1>4, <2>1 DEF Same, Looks
  <2>. HIDE DEF n, d
  <2>3. Gate(c, d, ch) /\ d \in Console /\ ch = chan
    BY <1>2, <1>5, <1>6 DEF d, ch
  <2>4. CASE con[c].dropped
    <3>1. ~room
      BY <1>1, <2>4 DEF Gone
    <3>. QED
      BY <1>1, <2>1, <2>2, <2>3, <3>1, GateDropped
  <2>5. CASE ~con[c].dropped
    BY <1>1, <2>1, <2>2, <2>3, <2>5, LostGood
  <2>. QED
    BY <2>4, <2>5
<1>7. CASE n = m
  <2>. HIDE DEF n
  <2>1. /\ Gate(c, m, ch) /\ m.dropped = con[c].dropped /\ ch = chan
        /\ m.epoch = con[c].epoch
    BY <1>2, <1>4, <1>7 DEF Same, Looks, ch
  <2>2. CASE con[c].dropped
    <3>1. ~room
      BY <1>1, <2>2 DEF Gone
    <3>. QED
      BY <1>1, <1>3, <2>1, <2>2, <3>1, GateDropped
  <2>3. CASE ~con[c].dropped
    <3>1. PICK h \in History :
            /\ Fits(con, ch, room, h) /\ Stamped(S, con, ch, h)
            /\ \A x \in Seat : ~con[x].dropped => Timed(con[x], h, x)
      BY <2>1 DEF Good
    <3>2. Mark(h, c) = h.tick[c] + Delay
      BY <1>1, <2>3, <3>1 DEF Timed
    <3>3. \A x : Same(x, x)
      BY DEF Same, Looks
    <3>4. \A x \in Seat : Same(con[x], k[x])
      BY <1>1, <1>4, <3>3
    <3>7. /\ k[1].epoch = con[1].epoch /\ ch[0] = ch[0]
          /\ ~k[0].dropped => ~con[0].dropped
          /\ c = 1 => Cksum(m.world) \in S
      BY <1>4, <3>4, Seats DEF Same, Looks
    <3>. HIDE DEF k
    <3>5. Fits(k, ch, room, h)
      BY <3>1, <3>4, SameFits
    <3>8. Stamped(S, k, ch, h)
      BY <3>1, <3>7, StampedSame
    <3>6. /\ Fits([con EXCEPT ![c] = m], ch, room, h)
          /\ Stamped(S, [con EXCEPT ![c] = m], ch, h)
      BY <3>5, <3>8 DEF k
    <3>. QED
      BY <1>1, <1>3, <2>1, <2>3, <3>1, <3>2, <3>6, <3>7, GateGood
  <2>. QED
    BY <2>2, <2>3
<1>. QED
  BY <1>6, <1>7

(* What changes neither clocks nor rings changes nothing here.             *)
LEMMA SameGood ==
  ASSUME NEW S, Good(S, con, chan, room), chan' = chan, room' = room,
         \A x \in Seat : /\ Same(con[x], con'[x])
                         /\ con'[x].pc = "stall" => con[x].pc = "stall"
                         /\ con[x].pc = "stall" => con'[x].pc = "stall"
  PROVE  Good(S, con', chan', room')
<1>1. PICK h \in History :
        /\ Fits(con, chan, room, h) /\ Stamped(S, con, chan, h)
        /\ \A x \in Seat : ~con[x].dropped => Timed(con[x], h, x)
  BY DEF Good
<1>. DEFINE k2 == con'
<1>2. \A x \in Seat : /\ Same(con[x], k2[x])
                       /\ k2[x].dropped = con[x].dropped
                       /\ k2[x].epoch = con[x].epoch
  BY DEF Same, Looks
<1>3. \A x \in Seat : ~k2[x].dropped => Timed(k2[x], h, x)
  <2>. TAKE x \in Seat
  <2>1. (k2[x].pc = "stall") = (con[x].pc = "stall")
    OBVIOUS
  <2>. QED
    BY <1>1, <1>2, <2>1 DEF Timed
<1>. HIDE DEF k2
<1>4. Fits(k2, chan, room, h)
  BY <1>1, <1>2, SameFits
<1>5. /\ k2[1].epoch = con[1].epoch /\ chan[0] = chan[0]
      /\ ~k2[0].dropped => ~con[0].dropped
  BY <1>2, Seats
<1>6. Stamped(S, k2, chan, h)
  BY <1>1, <1>5, StampedSame
<1>. QED
  BY <1>3, <1>4, <1>6 DEF Good, k2

(* A round of a hold.                                                      *)
LEMMA HoldGood ==
  ASSUME NEW S, TypeOK, NEW c \in Seat, HoldRound(c), Good(S, con, chan, room)
  PROVE  Good(S, con', chan', room')
<1>. DEFINE m == [con[c] EXCEPT !.rsto = IF HoldRounds = 0 THEN 0 ELSE @ + 1]
            d == [m EXCEPT !.hold = FALSE]
            p == Peer(c)
<1>1. /\ con \in [Seat -> Console] /\ con[c] \in Console
      /\ room' = room /\ chan' = chan /\ con[c].pc = "hold"
      /\ p \in Seat /\ p # c /\ \A x \in Seat : x = c \/ x = p
  BY Seats DEF TypeOK, HoldRound
<1>2. m \in Console
  <2>1. con[c].rsto + 1 \in Nat
    BY <1>1 DEF Console
  <2>. QED
    BY <1>1, <2>1 DEF Console
<1>3. d \in Console
  BY <1>2 DEF Console
<1>4. Same(con[c], m) /\ m.pc = con[c].pc
  BY <1>1 DEF Console, Same, Looks
<1>5. \/ con' = [con EXCEPT ![c] = Pass(m)]
      \/ con' = [con EXCEPT ![c] = Pass(Drop(d, "lost"))]
  BY DEF HoldRound
<1>9. d.epoch = con[c].epoch
  BY <1>1 DEF Console
<1>. HIDE DEF m, d
<1>6. con'[p] = con[p]
  BY <1>1, <1>5
<1>7. CASE con' = [con EXCEPT ![c] = Pass(m)]
  <2>1. con'[c] = Pass(m)
    BY <1>1, <1>7
  <2>2. Same(m, Pass(m)) /\ Pass(m).pc # "stall"
    BY <1>2, PassLooks
  <2>3. Same(con[c], con'[c]) /\ con'[c].pc # "stall"
    BY <1>4, <2>1, <2>2 DEF Same, Looks
  <2>4. Same(con[p], con'[p])
    BY <1>6 DEF Same, Looks
  <2>. QED
    BY <1>1, <1>6, <2>3, <2>4, SameGood
<1>8. CASE con' = [con EXCEPT ![c] = Pass(Drop(d, "lost"))]
  <2>. DEFINE n == Drop(d, "lost")
  <2>1. n \in Console
    BY <1>3, DropType
  <2>2. n.dropped /\ n.epoch = con[c].epoch
    BY <1>3, <1>9 DEF Drop, IdleRemote, Console
  <2>3. con'[c] = Pass(n)
    BY <1>1, <1>8
  <2>. HIDE DEF n
  <2>4. con'[c].dropped /\ con'[c].epoch = con[c].epoch
    BY <2>1, <2>2, <2>3, PassLooks DEF Same, Looks
  <2>. QED
    BY <1>1, <1>6, <2>4, DropGood
<1>. QED
  BY <1>5, <1>7, <1>8

(* A glitch changes a world, and no clock or ring.                         *)
LEMMA GlitchGood ==
  ASSUME NEW S, TypeOK, NEW c \in Seat, Glitch(c), Good(S, con, chan, room)
  PROVE  Good(S, con', chan', room')
<1>1. /\ chan' = chan /\ room' = room
      /\ \E p \in Parts : con' = [con EXCEPT ![c].world[p] = glitches + 1]
  BY DEF Glitch
<1>2. \A x \in Seat : Same(con[x], con'[x]) /\ con'[x].pc = con[x].pc
  BY <1>1 DEF TypeOK, Console, Same, Looks
<1>. QED
  BY <1>1, <1>2, SameGood

(* The relay cuts both lines and ends one with a LEFT.                     *)
LEMMA LoseRoomCuts ==
  ASSUME TypeOK, NEW c \in Seat, LoseRoom(c)
  PROVE  \A x \in Seat : \E y : Cut(chan[x], chan'[x], y)
<1>. DEFINE p == Peer(c)
            left == [type |-> "LEFT"]
            ch2 == chan'
<1>1. /\ chan \in [Seat -> Seq(Frame)] /\ p \in Seat /\ p # c
      /\ \A x \in Seat : x = c \/ x = p
  BY Seats DEF TypeOK
<1>2. PICK n \in 0 .. Len(chan[c]), i \in 0 .. Len(chan[p]) :
        chan' = [chan EXCEPT ![c] = SubSeq(@, 1, n),
                             ![p] = Append(SubSeq(@, 1, i), left)]
  BY DEF LoseRoom
<1>4. /\ ch2[c] = SubSeq(chan[c], 1, n)
      /\ ch2[p] = Append(SubSeq(chan[p], 1, i), left)
  BY <1>1, <1>2
<1>. DEFINE s == chan[c]
            u == chan[p]
<1>5. s \in Seq(Frame) /\ u \in Seq(Frame) /\ left \in Frame
  BY <1>1 DEF Frame
<1>. HIDE DEF ch2, s, u
<1>6. Cut(s, SubSeq(s, 1, n), n)
  BY <1>2, <1>5 DEF Cut, s
<1>7. Cut(u, Append(SubSeq(u, 1, i), left), i)
  <2>. DEFINE v == SubSeq(u, 1, i)
  <2>1. /\ v \in Seq(Frame) /\ Len(v) = i /\ Len(u) \in Nat
        /\ i \in 0 .. Len(u) /\ \A x \in 1 .. i : v[x] = u[x]
    BY <1>2, <1>5 DEF u
  <2>. HIDE DEF v
  <2>. DEFINE w == Append(v, left)
  <2>2. /\ Len(w) = i + 1 /\ w[i + 1] = left
        /\ \A x \in 1 .. i : w[x] = v[x]
    BY <1>5, <2>1
  <2>3. left.type = "LEFT"
    OBVIOUS
  <2>. HIDE DEF w, left
  <2>. QED
    BY <2>1, <2>2, <2>3 DEF Cut, w, v
<1>8. \A x \in Seat : \E y : Cut(chan[x], ch2[x], y)
  BY <1>1, <1>4, <1>6, <1>7 DEF s, u
<1>. QED
  BY <1>8 DEF ch2

(* What is left on them still has its history.                             *)
LEMMA LoseRoomGood ==
  ASSUME NEW S, TypeOK, NEW c \in Seat, LoseRoom(c), Good(S, con, chan, room)
  PROVE  Good(S, con', chan', room')
<1>. DEFINE ch2 == chan'
<1>3. room' = FALSE /\ con' = con
  BY DEF LoseRoom
<1>8. \A x \in Seat : \E y : Cut(chan[x], ch2[x], y)
  BY LoseRoomCuts
<1>. HIDE DEF ch2
<1>9. PICK h \in History :
        /\ Fits(con, chan, room, h) /\ Stamped(S, con, chan, h)
        /\ \A x \in Seat : ~con[x].dropped => Timed(con[x], h, x)
  BY DEF Good
<1>10. Fits(con, ch2, FALSE, h)
  BY <1>8, <1>9, CutsFits
<1>12. \A g, e : Vouched(S, chan[0], g, e) => Vouched(S, ch2[0], g, e)
  <2>1. PICK y : Cut(chan[0], ch2[0], y)
    BY <1>8, Seats
  <2>2. \A j \in 1 .. Len(ch2[0]) : ch2[0][j].type = "CRC" =>
          j \in 1 .. Len(chan[0]) /\ ch2[0][j] = chan[0][j]
    BY <2>1 DEF Cut
  <2>. QED
    BY <2>2 DEF Vouched
<1>13. Stamped(S, con, ch2, h)
  BY <1>9, <1>12 DEF Stamped
<1>11. Good(S, con, ch2, FALSE)
  BY <1>9, <1>10, <1>13 DEF Good
<1>. QED
  BY <1>3, <1>11 DEF ch2

-----------------------------------------------------------------------------
(* A frame read, with the history made.                                    *)
ReadMove(k, k2, c, f) ==
  LET m == k[c]
      n == k2[c]
  IN  /\ ~m.dropped /\ k2[Peer(c)] = k[Peer(c)]
      /\ f.type \notin {"END", "LEFT"}
      /\ n.dropped = m.dropped /\ n.tick = m.tick /\ n.epoch = m.epoch
      /\ n.hold = m.hold /\ n.resume = m.resume /\ n.crc = m.crc
      /\ n.pend = m.pend
      /\ IF Taking(m, f)
         THEN n.wm = f.tick
              /\ n.ring = [m.ring EXCEPT ![Peer(c)][Slot(f.tick)] = f.in]
         ELSE n.wm = m.wm /\ n.ring = m.ring

Moved(ch, ch2, c) ==
  /\ ch2[Peer(c)] = ch[Peer(c)]
  /\ Len(ch[c]) \in Nat \ {0} /\ Len(ch2[c]) = Len(ch[c]) - 1
  /\ \A i \in 1 .. Len(ch2[c]) : ch2[c][i] = ch[c][i + 1]

ReadOn(h, h2, c) ==
  /\ h2.tick = h.tick /\ h2.epoch = h.epoch /\ h2.last = h.last
  /\ h2.start = h.start /\ h2.tag[Peer(c)] = h.tag[Peer(c)]
  /\ \A i \in Nat : h2.tag[c][i] = h.tag[c][i + 1]

(* The frame read has a history.                                           *)
LEMMA ReadMade ==
  ASSUME NEW k \in [Seat -> Console], NEW ch, NEW r \in BOOLEAN,
         NEW h \in History, NEW c \in Seat, Roomy, NEW k2, NEW ch2,
         Fits(k, ch, r, h), ReadMove(k, k2, c, ch[c][1]), Moved(ch, ch2, c)
  PROVE  \E h2 \in History : Fits(k2, ch2, r, h2) /\ ReadOn(h, h2, c)
<1>. DEFINE p == Peer(c)
            g == [i \in Nat |-> h.tag[c][i + 1]]
            b == IF Taking(k[c], ch[c][1]) THEN h.tag[c][1].at ELSE h.heard[c]
            he == [s \in Seat |-> IF s = c THEN b ELSE h.heard[s]]
            tg == [s \in Seat |-> IF s = c THEN g ELSE h.tag[s]]
            h2 == [tick |-> h.tick, heard |-> he, epoch |-> h.epoch,
                   last |-> h.last, start |-> h.start, tag |-> tg]
<1>1. /\ h.tick \in [Seat -> Int] /\ h.heard \in [Seat -> Int]
      /\ h.epoch \in [Seat -> Nat] /\ h.last \in [Seat -> [Nat -> Int]]
      /\ h.start \in [Nat -> Int] /\ h.tag \in [Seat -> Tags]
      /\ p \in Seat /\ p # c
  BY Seats DEF History
<1>2. h.tag[c] \in Tags /\ h.heard[c] \in Int
  BY <1>1
<1>3. /\ g \in Tags /\ \A i \in Nat : g[i] = h.tag[c][i + 1]
  BY <1>2 DEF Tags
<1>4. h.tag[c][1].at \in Int
  BY <1>2, TagsType
<1>5. b \in Int
  BY <1>2, <1>4
<1>. HIDE DEF g, b
<1>6. /\ he \in [Seat -> Int] /\ he[c] = b /\ he[p] = h.heard[p]
      /\ tg \in [Seat -> Tags] /\ tg[c] = g /\ tg[p] = h.tag[p]
  BY <1>1, <1>3, <1>5
<1>. HIDE DEF he, tg
<1>7. /\ h2 \in History /\ h2.tick = h.tick /\ h2.epoch = h.epoch
      /\ h2.last = h.last /\ h2.start = h.start
      /\ h2.heard[c] = b /\ h2.heard[p] = h.heard[p]
      /\ h2.tag[c] = g /\ h2.tag[p] = h.tag[p]
  BY <1>1, <1>6 DEF History
<1>. HIDE DEF h2
<1>8. Taken(ch[c], h.tag[c], ch2[c], h2.tag[c])
  <2>. DEFINE s == ch[c]
              s2 == ch2[c]
              d == h.tag[c]
  <2>1. /\ Len(s) \in Nat \ {0} /\ Len(s2) = Len(s) - 1
        /\ \A i \in 1 .. Len(s2) : s2[i] = s[i + 1]
        /\ \A i \in Nat : g[i] = d[i + 1]
    BY <1>3 DEF Moved
  <2>. HIDE DEF s, s2, d
  <2>3. \A i \in 1 .. Len(s2) : s2[i] = s[i + 1] /\ g[i] = d[i + 1]
    <3>1. Len(s2) \in Int
      BY <2>1
    <3>. TAKE i \in 1 .. Len(s2)
    <3>2. i \in Nat
      BY <3>1
    <3>. QED
      BY <2>1, <3>2
  <2>2. Taken(s, d, s2, g)
    BY <2>1, <2>3 DEF Taken
  <2>. QED
    BY <1>7, <2>2 DEF s, s2, d
<1>9. Reads(k, ch, h, k2, ch2, h2, c)
  BY <1>7, <1>8 DEF Reads, ReadMove, Moved, b
<1>10. Fits(k2, ch2, r, h2)
  BY <1>7, <1>9, ReadsFits
<1>. QED
  BY <1>3, <1>7, <1>10 DEF ReadOn

(* and reports nothing to the host.                                        *)
LEMMA ReadVouches ==
  ASSUME NEW c \in Seat, NEW ch, NEW ch2, NEW h, NEW h2,
         Moved(ch, ch2, c), ReadOn(h, h2, c)
  PROVE  Vouches({}, ch, h, ch2, h2)
<1>1. CASE c = 1
  BY <1>1, Seats, VouchesSame DEF Moved, ReadOn
<1>2. CASE c = 0
  <2>1. /\ Len(ch[0]) \in Nat \ {0} /\ Len(ch2[0]) = Len(ch[0]) - 1
        /\ \A i \in 1 .. Len(ch2[0]) : ch2[0][i] = ch[0][i + 1]
        /\ \A i \in Nat : h2.tag[0][i] = h.tag[0][i + 1]
    BY <1>2 DEF Moved, ReadOn
  <2>2. \A i \in 1 .. Len(ch2[0]) : i \in Nat /\ i + 1 \in 1 .. Len(ch[0])
    BY <2>1
  <2>3. \A S, e : Vouched(S, ch[0], h.tag[0], e) =>
                    Vouched(S, ch2[0], h2.tag[0], e)
    BY <2>1, <2>2 DEF Vouched
  <2>. QED
    BY <2>3 DEF Vouches, ReadOn
<1>. QED
  BY <1>1, <1>2, Seats

(* The line of the console that reads.                                     *)
LEMMA ConsumedMoved ==
  ASSUME TypeOK, NEW c \in Seat, chan[c] # <<>>
  PROVE  Moved(chan, Consumed(c), c) /\ Head(chan[c]) = chan[c][1]
         /\ Consumed(c) \in [Seat -> Seq(Frame)]
BY ConsumedFrames DEF Moved

(* So a frame read leaves a state some history fits,                       *)
LEMMA ReadGood ==
  ASSUME NEW S, TypeOK, Roomy, NEW c \in Seat, Good(S, con, chan, room),
         room' = room,
         chan[c] # <<>>, chan' = Consumed(c),
         ReadMove(con, con', c, chan[c][1]), con'[c].pc = con[c].pc
  PROVE  Good(S, con', chan', room')
<1>. DEFINE p == Peer(c)
            k2 == con'
            ch2 == chan'
<1>1. PICK h \in History :
        /\ Fits(con, chan, room, h) /\ Stamped(S, con, chan, h)
        /\ \A x \in Seat : ~con[x].dropped => Timed(con[x], h, x)
  BY DEF Good
<1>2. /\ con \in [Seat -> Console] /\ room \in BOOLEAN
      /\ p \in Seat /\ p # c /\ \A x \in Seat : x = c \/ x = p
  BY Seats DEF TypeOK
<1>3. Moved(chan, ch2, c) /\ ReadMove(con, k2, c, chan[c][1])
  BY ConsumedMoved
<1>4. k2[p] = con[p] /\ k2[c].dropped = con[c].dropped /\ k2[c].pc = con[c].pc
  BY DEF ReadMove
<1>8. k2[1].epoch = con[1].epoch /\ {} \subseteq S
  BY <1>2, <1>4, Seats DEF ReadMove
<1>9. ~k2[0].dropped => ~con[0].dropped
  BY <1>4, Seats
<1>. HIDE DEF k2, ch2
<1>5. PICK h2 \in History : Fits(k2, ch2, room, h2) /\ ReadOn(h, h2, c)
  BY <1>1, <1>2, <1>3, ReadMade
<1>6. \A x \in Seat : Mark(h2, x) = Mark(h, x) /\ h2.tick[x] = h.tick[x]
  BY <1>5 DEF ReadOn, Mark
<1>7. \A x \in Seat : ~k2[x].dropped => Timed(k2[x], h2, x)
  BY <1>1, <1>2, <1>4, <1>6 DEF Timed
<1>10. Vouches({}, chan, h, ch2, h2)
  BY <1>3, <1>5, ReadVouches
<1>11. Stamped(S, k2, ch2, h2)
  BY <1>1, <1>8, <1>9, <1>10, VouchesStamped
<1>. QED
  BY <1>5, <1>7, <1>11 DEF Good, k2, ch2

(* An INPUT,                                                               *)
LEMMA OnInputGood ==
  ASSUME NEW S, TypeOK, Roomy, NEW c \in Seat, OnInput(c), ~con[c].dropped,
         Good(S, con, chan, room)
  PROVE  Good(S, con', chan', room')
<1>. DEFINE p == Peer(c)
            m == con[c]
            f == Head(chan[c])
            read == [m EXCEPT !.ring[p][Slot(f.tick)] = f.in, !.wm = f.tick]
<1>1. /\ chan[c] # <<>> /\ f.type = "INPUT" /\ chan' = Consumed(c)
      /\ room' = room
  BY DEF OnInput, Arrives
<1>2. con \in [Seat -> Console] /\ m \in Console /\ p \in Seat /\ p # c
  BY Seats DEF TypeOK
<1>3. f = chan[c][1]
  BY <1>1, ConsumedMoved
<1>4. IF Taking(m, f) THEN con' = [con EXCEPT ![c] = read] ELSE con' = con
  BY <1>1, <1>2 DEF OnInput, Taking
<1>. HIDE DEF f
<1>5. /\ read.dropped = m.dropped /\ read.tick = m.tick
      /\ read.epoch = m.epoch /\ read.hold = m.hold
      /\ read.resume = m.resume /\ read.crc = m.crc /\ read.pend = m.pend
      /\ read.wm = f.tick /\ read.pc = m.pc
      /\ read.ring = [m.ring EXCEPT ![p][Slot(f.tick)] = f.in]
  BY <1>2 DEF Console
<1>. HIDE DEF read
<1>6. con'[p] = con[p] /\ con'[c] = IF Taking(m, f) THEN read ELSE m
  BY <1>2, <1>4
<1>7. ReadMove(con, con', c, f) /\ con'[c].pc = m.pc
  BY <1>1, <1>5, <1>6 DEF ReadMove
<1>. QED
  BY <1>1, <1>3, <1>7, ReadGood

(* and whatever else is read and changes no clock.                         *)
LEMMA PassedGood ==
  ASSUME NEW S, TypeOK, Roomy, NEW c \in Seat, Good(S, con, chan, room),
         room' = room,
         chan[c] # <<>>, chan' = Consumed(c), ~con[c].dropped,
         Head(chan[c]).type \notin {"INPUT", "END", "LEFT"},
         Same(con[c], con'[c]), con'[Peer(c)] = con[Peer(c)],
         con'[c].pc = con[c].pc
  PROVE  Good(S, con', chan', room')
<1>1. Head(chan[c]) = chan[c][1]
  BY ConsumedMoved
<1>. DEFINE f == chan[c][1]
<1>2. f.type \notin {"INPUT", "END", "LEFT"}
  BY <1>1
<1>. HIDE DEF f
<1>3. ReadMove(con, con', c, f)
  BY <1>2 DEF ReadMove, Taking, Same, Looks
<1>. QED
  BY <1>3, ReadGood DEF f

(* A CHUNK changes the image only.                                         *)
LEMMA OnChunkGood ==
  ASSUME NEW S, TypeOK, Roomy, NEW c \in Seat, OnChunk(c), ~con[c].dropped,
         Good(S, con, chan, room)
  PROVE  Good(S, con', chan', room')
<1>. DEFINE m == con[c]
            f == Head(chan[c])
<1>1. /\ chan[c] # <<>> /\ f.type = "CHUNK" /\ chan' = Consumed(c)
      /\ room' = room /\ con' = [con EXCEPT ![c] = PutChunk(m, f)]
  BY DEF OnChunk, Arrives
<1>2. con \in [Seat -> Console] /\ m \in Console
      /\ Peer(c) \in Seat /\ Peer(c) # c
  BY Seats DEF TypeOK
<1>. HIDE DEF m, f
<1>3. Same(m, PutChunk(m, f)) /\ PutChunk(m, f).pc = m.pc
  BY <1>2 DEF PutChunk, Same, Looks, Console
<1>4. con'[c] = PutChunk(m, f) /\ con'[Peer(c)] = con[Peer(c)]
  BY <1>1, <1>2
<1>. QED
  BY <1>1, <1>3, <1>4, PassedGood DEF m, f

(* A report finds its record in the page,                                  *)
LEMMA DivParts ==
  ASSUME NEW a \in Int, NEW q \in Nat \ {0}
  PROVE  /\ a \div q \in Int /\ a % q \in 0 .. q - 1
         /\ a = q * (a \div q) + (a % q)
OBVIOUS

(* (the place of a report is one of the page)                              *)
LEMMA CrcSlotType ==
  ASSUME NEW t \in Int
  PROVE  CrcSlot(t) \in CrcSlots
<1>. DEFINE x == t % PageSize
            d == x \div CrcEvery
            j == PageSize \div CrcEvery
            r == x % CrcEvery
<1>1. /\ PageSize \in Nat \ {0} /\ CrcEvery \in Nat \ {0}
      /\ PageSize % CrcEvery = 0
  BY SizeAssumption
<1>2. x \in 0 .. PageSize - 1
  BY <1>1, DivParts
<1>. HIDE DEF x
<1>3. d \in Int /\ r \in 0 .. CrcEvery - 1 /\ x = CrcEvery * d + r
  BY <1>1, <1>2, DivParts
<1>4. j \in Int /\ PageSize = CrcEvery * j
  BY <1>1, DivParts
<1>. HIDE DEF d, j, r
<1>5. CrcEvery * (j - d) = PageSize - (x - r)
  <2>1. CrcEvery * (j - d) = CrcEvery * j - CrcEvery * d
    BY <1>1, <1>3, <1>4, Times
  <2>2. CrcEvery * j \in Int /\ CrcEvery * d \in Int
    BY <1>1, <1>3, <1>4, Times
  <2>. QED
    BY <1>1, <1>2, <1>3, <1>4, <2>1, <2>2
<1>6. \A n \in Int : n <= 0 => CrcEvery * n <= 0
  BY <1>1
<1>7. \A n \in Int : n < 0 => CrcEvery * n <= -CrcEvery
  BY <1>1
<1>8. j - d > 0
  <2>. DEFINE n == j - d
  <2>1. n \in Int /\ PageSize - (x - r) > 0
    BY <1>1, <1>2, <1>3, <1>4
  <2>2. CrcEvery * n > 0
    BY <1>5, <2>1
  <2>. HIDE DEF n
  <2>3. n > 0
    BY <1>1, <1>6, <2>1, <2>2
  <2>. QED
    BY <2>3 DEF n
<1>9. d >= 0
  <2>1. CrcEvery * d = x - r /\ x - r > -CrcEvery
    <3>1. CrcEvery * d \in Int
      BY <1>1, <1>3, Times
    <3>. QED
      BY <1>1, <1>2, <1>3, <3>1
  <2>. QED
    BY <1>1, <1>2, <1>3, <1>7, <2>1
<1>10. d \in 0 .. j - 1
  BY <1>3, <1>4, <1>8, <1>9
<1>. QED
  BY <1>10 DEF CrcSlot, CrcSlots, Slot, d, j, x

(* and no report is made for the tick the cleared records carry.           *)
LEMMA NoReport ==
  ASSUME Roomy
  PROVE  ~CrcDue(TickSpan - 1)
<1>1. /\ PageSize \in Nat \ {0} /\ CrcEvery \in Nat \ {0} /\ CrcEvery # 1
      /\ TickSpan \in Int /\ PageSize % CrcEvery = 0
      /\ TickSpan % PageSize = 0
  BY SizeAssumption DEF Roomy
<1>. DEFINE q == CrcEvery
            x == TickSpan
            y == -1
<1>2. 0 % q = 0 /\ (0 + y) % q = q - 1 /\ y \in Int
  BY <1>1, ModSmall
<1>3. (x % PageSize) % q = x % q
  BY <1>1, ModMod
<1>4. x % q = 0
  BY <1>1, <1>2, <1>3
<1>. HIDE DEF y
<1>5. ((x % q) + y) % q = (x + y) % q
  BY <1>1, <1>2, ModPlus
<1>6. (x + y) % q = q - 1
  BY <1>2, <1>4, <1>5
<1>7. x + y = x - 1
  BY <1>1 DEF y
<1>. QED
  BY <1>1, <1>6, <1>7 DEF CrcDue

(* So a report the host acts on is of its own epoch: one from before a     *)
(* push is older than every record.                                        *)
LEMMA CrcNow ==
  ASSUME NEW k, NEW ch, NEW r, NEW h \in History, Roomy,
         Fits(k, ch, r, h), ~k[0].dropped,
         Len(ch[0]) \in Nat \ {0}, NEW f, f = ch[0][1], f.type = "CRC",
         f.tick \in Int, k[0].crc[CrcSlot(f.tick)].t = f.tick
  PROVE  h.tag[0][1].of = h.epoch[0] /\ h.epoch[0] = h.epoch[1]
<1>. DEFINE g == h.tag[0]
            e == h.epoch[0]
            a == g[1].at
            x == CrcSlot(f.tick)
            st == h.start[e]
            he == h.heard[0]
            ti == h.tick[0]
            la == Lag(e - g[1].of)
<1>1. /\ 0 \in Seat /\ 1 \in Seat /\ 1 \in 1 .. Len(ch[0]) /\ x \in CrcSlots
  BY Seats, CrcSlotType
<1>2. /\ g \in Tags /\ e \in Nat /\ h.epoch[1] \in Nat /\ st \in Int
      /\ he \in Int /\ ti \in Int /\ First(h, e) \in Int
  BY <1>1, Typed
<1>3. g[1].of \in Nat /\ a \in Int
  BY <1>2, TagsType
<1>4. /\ Delay \in Nat /\ ResumeAhead \in Nat /\ TickSpan \in Nat
      /\ 4 * (ResumeAhead + Delay) <= TickSpan /\ Delay >= 1
  BY Numbers DEF Roomy
<1>5. /\ f.tick = Wrap(a - Delay) /\ CrcDue(f.tick)
      /\ g[1].of <= h.epoch[1]
      /\ g[1].of < e => Behindhand(h, a, g[1].of)
  BY <1>1 DEF Fits, HostLine, Alarms
<1>6. h.epoch[1] <= e /\ ti <= he + 1
  BY <1>1 DEF Fits, Ages, Clock
<1>7. \/ f.tick = TickSpan - 1
      \/ \E t \in st .. ti - 1 : f.tick = Wrap(t)
  BY <1>1 DEF Fits, Records
<1>8. f.tick # TickSpan - 1
  BY <1>5, NoReport
<1>9. PICK t \in st .. ti - 1 : f.tick = Wrap(t)
  BY <1>7, <1>8
<1>10. ~(g[1].of < e)
  <2>. SUFFICES ASSUME g[1].of < e PROVE FALSE
    OBVIOUS
  <2>1. /\ he = First(h, e) /\ he - la <= a /\ a <= he
    BY <1>5 DEF Behindhand
  <2>2. First(h, e) = st + Delay - 1
    BY DEF First
  <2>3. la \in Int /\ la <= 2 * (ResumeAhead + Delay)
    BY <1>4 DEF Lag, Reach
  <2>. HIDE DEF a, st, he, ti, la, e, g
  <2>. DEFINE u == a - Delay
  <2>4. /\ u \in Int /\ t \in Int /\ u # t
        /\ u - t < TickSpan /\ t - u < TickSpan
    BY <1>2, <1>3, <1>4, <1>6, <1>9, <2>1, <2>2, <2>3
  <2>5. Wrap(u) = Wrap(t)
    BY <1>5, <1>9
  <2>. HIDE DEF u
  <2>. QED
    BY <2>4, <2>5, CellApart
<1>. QED
  BY SMTT(30), <1>2, <1>3, <1>5, <1>6, <1>10

(* What a request after it on the line says.                               *)
LEMMA TailRanked ==
  ASSUME NEW s, NEW g, NEW g2, NEW s2, Ranked(s, g), s[1].type # "LEFT",
         Len(s) \in Nat \ {0}, Len(s2) = Len(s) - 1,
         \A i \in 1 .. Len(s2) : s2[i] = s[i + 1],
         \A i \in Nat : g2[i] = g[i + 1]
  PROVE  \A i \in 1 .. Len(s2) : s2[i].type # "LEFT" =>
           /\ g[1].of <= g2[i].of
           /\ s[1].type = "REQ" /\ s2[i].type = "REQ" => g[1].of < g2[i].of
<1>1. Len(s2) \in Int /\ 1 \in 1 .. Len(s)
  OBVIOUS
<1>. TAKE i \in 1 .. Len(s2)
<1>2. i \in Nat /\ i + 1 \in 1 .. Len(s) /\ 1 < i + 1
  BY <1>1
<1>3. s2[i] = s[i + 1] /\ g2[i] = g[i + 1]
  BY <1>2
<1>. QED
  BY <1>1, <1>2, <1>3 DEF Ranked

(* To want a resync changes the flag.                                      *)
LEMMA WantLooks ==
  ASSUME NEW m \in Console
  PROVE  /\ Looks(m, Want(m)) /\ Want(m).ring = m.ring /\ Want(m).pend
         /\ Want(m).pc = m.pc
BY DEF Want, Looks, Console

(* What makes the host want one.                                           *)
Raises(m, f) ==
  \/ f.type = "REQ"
  \/ f.type = "CRC" /\ f.tick \in Int /\ m.crc[CrcSlot(f.tick)].t = f.tick

(* The host raises its own flag,                                           *)
LEMMA WantGood ==
  ASSUME NEW S, TypeOK, Roomy, Good(S, con, chan, room), room' = room,
         chan[0] # <<>>, chan' = Consumed(0), ~con[0].dropped, ~con[0].pend,
         con' = [con EXCEPT ![0] = Want(@)], NEW f, f = chan[0][1],
         Raises(con[0], f)
  PROVE  Good(S, con', chan', room')
<1>. DEFINE k2 == con'
            ch2 == chan'
            k == con
            ch == chan
<1>1. PICK h \in History :
        /\ Fits(k, ch, room, h) /\ Stamped(S, k, ch, h)
        /\ \A x \in Seat : ~k[x].dropped => Timed(k[x], h, x)
  BY DEF Good
<1>2. /\ k \in [Seat -> Console] /\ k[0] \in Console /\ room \in BOOLEAN
      /\ 0 \in Seat /\ 1 \in Seat /\ Peer(0) = 1
      /\ \A x \in Seat : x = 0 \/ x = 1
  BY Seats DEF TypeOK, Seat
<1>3. Moved(ch, ch2, 0) /\ Len(ch[0]) \in Nat \ {0}
  BY <1>2, ConsumedMoved DEF Moved
<1>4. ReadMove(k, k, 0, ch[0][1])
  BY DEF ReadMove, Taking, Raises
<1>. HIDE DEF k, ch, ch2
<1>5. PICK h2 \in History : Fits(k, ch2, room, h2) /\ ReadOn(h, h2, 0)
  BY <1>1, <1>2, <1>3, <1>4, ReadMade
<1>6. k2[1] = k[1] /\ k2[0] = Want(k[0])
  BY <1>2 DEF k
<1>7. /\ Looks(k[0], k2[0]) /\ k2[0].ring = k[0].ring /\ k2[0].pend
      /\ k2[0].pc = k[0].pc
  BY <1>2, <1>6, WantLooks
<1>8. ~k[0].dropped /\ ~k[0].pend /\ f = ch[0][1] /\ Raises(k[0], f)
  BY DEF k, ch
<1>. HIDE DEF k2
<1>. DEFINE g == h.tag[0]
            e == h.epoch[0]
            q == h.epoch[1]
<1>9. e \in Nat /\ q \in Nat /\ g \in Tags /\ q <= e
  BY <1>1, <1>2, Typed DEF Fits, Ages
<1>10. g[1].of \in Nat
  BY <1>9, TagsType
<1>11. /\ Ranked(ch[0], g) /\ Bit(k[0].pend) = 0
       /\ 1 \in 1 .. Len(ch[0]) /\ f.type # "LEFT"
       /\ g[1].of <= q /\ e + 0 <= g[1].of + 2
       /\ f.type = "REQ" =>
            /\ e + 0 <= g[1].of + 1
            /\ g[1].of = q /\ ~k[1].dropped => k[1].pend
  <2>1. Ranked(ch[0], g) /\ Alarms(k, ch[0], g, h)
    BY <1>1, <1>8 DEF Fits, HostLine
  <2>2. Bit(k[0].pend) = 0
    BY <1>8 DEF Bit
  <2>3. 1 \in 1 .. Len(ch[0]) /\ f.type # "LEFT"
    BY <1>3, <1>8 DEF Raises
  <2>. HIDE DEF g, e, q
  <2>. QED
    BY <1>8, <2>1, <2>2, <2>3 DEF Alarms, g, e, q
<1>12. /\ e <= q + 1 /\ (~k[1].dropped /\ ~k[1].pend => e <= q)
       /\ e <= g[1].of + 1
       /\ f.type # "REQ" => e <= g[1].of
  <2>1. CASE f.type = "REQ"
    <3>. HIDE DEF g, e, q
    <3>. QED
      BY <1>9, <1>10, <1>11, <2>1
  <2>2. CASE f.type = "CRC"
    <3>1. f.tick \in Int /\ k[0].crc[CrcSlot(f.tick)].t = f.tick
      BY <1>8, <2>2 DEF Raises
    <3>2. g[1].of = e /\ e = q
      BY <1>1, <1>3, <1>8, <2>2, <3>1, CrcNow
    <3>. HIDE DEF g, e, q
    <3>. QED
      BY <1>9, <3>2
  <2>. QED
    BY <1>8, <2>1, <2>2 DEF Raises
<1>13. /\ Len(ch2[0]) = Len(ch[0]) - 1
       /\ \A i \in 1 .. Len(ch2[0]) : ch2[0][i] = ch[0][i + 1]
       /\ \A i \in Nat : h2.tag[0][i] = g[i + 1]
  BY <1>3, <1>5 DEF Moved, ReadOn
<1>. DEFINE s == ch[0]
            s2 == ch2[0]
            g2 == h2.tag[0]
<1>14. \A i \in 1 .. Len(s2) : s2[i].type # "LEFT" =>
         /\ g[1].of <= g2[i].of
         /\ s[1].type = "REQ" /\ s2[i].type = "REQ" => g[1].of < g2[i].of
  <2>1. /\ Ranked(s, g) /\ s[1].type # "LEFT" /\ Len(s) \in Nat \ {0}
        /\ Len(s2) = Len(s) - 1
        /\ \A i \in 1 .. Len(s2) : s2[i] = s[i + 1]
        /\ \A i \in Nat : g2[i] = g[i + 1]
    BY <1>3, <1>8, <1>11, <1>13
  <2>. HIDE DEF s, s2, g, g2
  <2>. QED
    BY <2>1, TailRanked
<1>15. /\ g2 \in Tags /\ Len(s2) \in Int /\ h2.epoch = h.epoch
       /\ \A x \in Seat : Mark(h2, x) = Mark(h, x) /\ h2.tick[x] = h.tick[x]
  BY <1>2, <1>3, <1>5, <1>13, Typed DEF ReadOn, Mark
<1>16. \A i \in 1 .. Len(s2) : s2[i].type # "LEFT" =>
         e <= g2[i].of + 1 /\ (s2[i].type = "REQ" => e <= g2[i].of)
  <2>. HIDE DEF s2, g2, e
  <2>. TAKE i \in 1 .. Len(s2)
  <2>1. i \in Nat
    BY <1>15
  <2>2. g2[i].of \in Nat
    BY <1>15, <2>1, TagsType
  <2>3. s[1].type = f.type /\ g[1].of \in Nat /\ e \in Nat
    BY <1>8, <1>9, <1>10
  <2>. HIDE DEF s, g
  <2>. QED
    BY <1>12, <1>14, <2>2, <2>3 DEF g
<1>17. Wants(k, ch2, h2, k2)
  BY <1>6, <1>7, <1>8, <1>12, <1>15, <1>16 DEF Wants
<1>18. Fits(k2, ch2, room, h2)
  BY <1>5, <1>17, WantsFits
<1>19. \A x \in Seat : k2[x].dropped = k[x].dropped /\ k2[x].pc = k[x].pc
  BY <1>2, <1>6, <1>7 DEF Looks
<1>20. \A x \in Seat : ~k2[x].dropped => Timed(k2[x], h2, x)
  BY <1>1, <1>15, <1>19 DEF Timed
<1>21. Vouches({}, ch, h, ch2, h2)
  BY <1>2, <1>3, <1>5, ReadVouches
<1>22. /\ k2[1].epoch = k[1].epoch /\ {} \subseteq S
       /\ ~k2[0].dropped => ~k[0].dropped
  BY <1>2, <1>6, <1>19
<1>23. Stamped(S, k2, ch2, h2)
  BY <1>1, <1>21, <1>22, VouchesStamped
<1>. QED
  BY <1>18, <1>20, <1>23 DEF Good, k2, ch2

(* the guest also sends a request.                                         *)
LEMMA AskGood ==
  ASSUME NEW S, TypeOK, Roomy, Good(S, con, chan, room), room' = room,
         chan[1] # <<>>, NEW d, d = Consumed(1), ~con[1].dropped,
         ~con[1].pend, Head(chan[1]).type = "CRC",
         con' = [con EXCEPT ![1] = Want(@)], NEW f, <<f>> \in Seq(Frame),
         f.type = "REQ", chan' = Sent(d, 1, <<f>>)
  PROVE  Good(S, con', chan', room')
<1>. DEFINE k2 == con'
            ch2 == chan'
            k == con
            ch == chan
<1>1. PICK h \in History :
        /\ Fits(k, ch, room, h) /\ Stamped(S, k, ch, h)
        /\ \A x \in Seat : ~k[x].dropped => Timed(k[x], h, x)
  BY DEF Good
<1>2. /\ k \in [Seat -> Console] /\ k[1] \in Console /\ room \in BOOLEAN
      /\ 0 \in Seat /\ 1 \in Seat /\ Peer(1) = 0
      /\ \A x \in Seat : x = 0 \/ x = 1
  BY Seats DEF TypeOK, Seat
<1>3. /\ Moved(ch, d, 1) /\ d \in [Seat -> Seq(Frame)]
      /\ Head(ch[1]) = ch[1][1]
  BY <1>2, ConsumedMoved
<1>4. ReadMove(k, k, 1, ch[1][1])
  BY <1>3 DEF ReadMove, Taking
<1>5. More(d, room, ch2, 1, f)
  BY <1>2, <1>3, SentOne
<1>6. k2[0] = k[0] /\ k2[1] = Want(k[1]) /\ ~k[1].dropped /\ ~k[1].pend
  BY <1>2
<1>. HIDE DEF k, ch, ch2
<1>7. PICK h1 \in History : Fits(k, d, room, h1) /\ ReadOn(h, h1, 1)
  BY <1>1, <1>2, <1>3, <1>4, ReadMade
<1>8. /\ Looks(k[1], k2[1]) /\ k2[1].ring = k[1].ring /\ k2[1].pend
      /\ k2[1].pc = k[1].pc
  BY <1>2, <1>6, WantLooks
<1>. HIDE DEF k2
<1>. DEFINE a == Mark(h1, 1)
<1>9. a \in Int /\ 1 \in Seat /\ k2[Peer(1)] = k[Peer(1)]
  BY <1>2, <1>6, Typed
<1>10. MaySay(k[1], k2[1], h1, 1, f, a)
  BY <1>6, <1>8 DEF MaySay, SpeaksReq
<1>. HIDE DEF a
<1>11. PICK h2 \in History :
         /\ Fits(k2, ch2, room, h2) /\ SaidOn(h1, h2, 1, a)
         /\ Vouches(Words(1, f), d, h1, ch2, h2)
  BY <1>2, <1>5, <1>6, <1>7, <1>8, <1>9, <1>10, Says
<1>12. \A x \in Seat : Mark(h2, x) = Mark(h, x) /\ h2.tick[x] = h.tick[x]
  BY <1>2, <1>7, <1>11 DEF ReadOn, SaidOn, SameTimes, Mark, a
<1>13. \A x \in Seat : k2[x].dropped = k[x].dropped /\ k2[x].pc = k[x].pc
  BY <1>2, <1>6, <1>8 DEF Looks
<1>14. \A x \in Seat : ~k2[x].dropped => Timed(k2[x], h2, x)
  BY <1>1, <1>12, <1>13 DEF Timed
<1>15. Vouches({}, ch, h, d, h1)
  BY <1>2, <1>3, <1>7, ReadVouches
<1>19. Words(1, f) = {}
  BY DEF Words
<1>20. Vouches({}, d, h1, ch2, h2)
  BY <1>11, <1>19
<1>16. Vouches({}, ch, h, ch2, h2)
  BY <1>15, <1>20, VouchesBoth
<1>17. /\ k2[1].epoch = k[1].epoch /\ {} \subseteq S
       /\ ~k2[0].dropped => ~k[0].dropped
  BY <1>2, <1>8, <1>13 DEF Looks
<1>18. Stamped(S, k2, ch2, h2)
  BY <1>1, <1>16, <1>17, VouchesStamped
<1>. QED
  BY <1>11, <1>14, <1>18 DEF Good, k2, ch2

(* A CRC: read it, and where the sums differ the host wants a push or the  *)
(* guest asks for one.                                                     *)
LEMMA OnCrcGood ==
  ASSUME NEW S, TypeOK, Roomy, NEW c \in Seat, OnCrc(c), ~con[c].dropped,
         Good(S, con, chan, room)
  PROVE  Good(S, con', chan', room')
<1>. DEFINE f == Head(chan[c])
            q == [type |-> "REQ", tick |-> f.tick]
            d == Consumed(c)
<1>1. chan[c] # <<>> /\ f.type = "CRC" /\ room' = room
  BY DEF OnCrc, Arrives
<1>2. f = chan[c][1]
  BY <1>1, ConsumedMoved
<1>3. f.tick \in Tick
  <2>1. f \in [type : {"CRC"}, tick : Tick, sum : [Summed -> Label]]
    BY <1>1, ConsumedType DEF Frame
  <2>. QED
    BY <2>1
<1>4. <<q>> \in Seq(Frame) /\ q.type = "REQ"
  BY <1>3, ReqFrame
<1>5. f.tick \in Int
  BY <1>3, Numbers DEF Tick
<1>6. CASE Disagrees(con[c], f)
  <2>1. ~con[c].pend /\ con[c].crc[CrcSlot(f.tick)].t = f.tick
    BY <1>6 DEF Disagrees
  <2>2. /\ con' = [con EXCEPT ![c] = Want(@)]
        /\ c = 0 => chan' = d
        /\ c # 0 => chan' = Sent(d, c, <<q>>)
    BY <1>6 DEF OnCrc, Host
  <2>3. c = 0 \/ c = 1
    BY DEF Seat
  <2>. HIDE DEF f, q
  <2>4. CASE c = 0
    <3>1. /\ con' = [con EXCEPT ![0] = Want(@)] /\ chan' = Consumed(0)
          /\ chan[0] # <<>> /\ ~con[0].dropped /\ ~con[0].pend
          /\ f = chan[0][1] /\ room' = room
      BY <1>1, <1>2, <2>1, <2>2, <2>4
    <3>2. Raises(con[0], f)
      BY <1>1, <1>5, <2>1, <2>4 DEF Raises
    <3>. HIDE DEF d
    <3>. QED
      BY <3>1, <3>2, WantGood
  <2>5. CASE c = 1
    <3>1. /\ con' = [con EXCEPT ![1] = Want(@)] /\ d = Consumed(1)
          /\ chan[1] # <<>> /\ ~con[1].dropped /\ ~con[1].pend
          /\ Head(chan[1]).type = "CRC" /\ room' = room
          /\ <<q>> \in Seq(Frame) /\ q.type = "REQ"
          /\ chan' = Sent(d, 1, <<q>>)
      BY <1>1, <1>4, <2>1, <2>2, <2>5 DEF f
    <3>. HIDE DEF d
    <3>. QED
      BY <3>1, AskGood
  <2>. QED
    BY <2>3, <2>4, <2>5
<1>7. CASE ~Disagrees(con[c], f)
  <2>1. con' = con /\ chan' = d
    BY <1>7 DEF OnCrc
  <2>2. Same(con[c], con'[c]) /\ con'[Peer(c)] = con[Peer(c)]
        /\ con'[c].pc = con[c].pc
    BY <2>1 DEF Same, Looks
  <2>. QED
    BY <1>1, <2>1, <2>2, PassedGood
<1>. QED
  BY <1>6, <1>7

(* A RESYNC_REQ: the host wants a push.                                    *)
LEMMA OnReqGood ==
  ASSUME NEW S, TypeOK, Roomy, NEW c \in Seat, OnReq(c), ~con[c].dropped,
         Good(S, con, chan, room)
  PROVE  Good(S, con', chan', room')
<1>. DEFINE f == Head(chan[c])
<1>1. /\ chan[c] # <<>> /\ f.type = "REQ" /\ room' = room
      /\ chan' = Consumed(c)
  BY DEF OnReq, Arrives
<1>2. f = chan[c][1]
  BY <1>1, ConsumedMoved
<1>3. CASE c = Host /\ ~con[c].hold /\ ~con[c].pend
  <2>1. c = 0 /\ con' = [con EXCEPT ![0] = Want(@)] /\ ~con[0].pend
    BY <1>3 DEF OnReq, Host
  <2>2. Raises(con[0], f)
    BY <1>1 DEF Raises
  <2>. HIDE DEF f
  <2>. QED
    BY <1>1, <1>2, <2>1, <2>2, WantGood
<1>4. CASE ~(c = Host /\ ~con[c].hold /\ ~con[c].pend)
  <2>1. con' = con
    BY <1>4 DEF OnReq
  <2>2. Same(con[c], con'[c]) /\ con'[Peer(c)] = con[Peer(c)]
        /\ con'[c].pc = con[c].pc
    BY <2>1 DEF Same, Looks
  <2>. QED
    BY <1>1, <2>2, PassedGood
<1>. QED
  BY <1>3, <1>4

(* Nothing of a push comes to the host.                                    *)
LEMMA ToGuest ==
  ASSUME TypeOK, Image, NEW c \in Seat, chan[c] # <<>>,
         Head(chan[c]).type \in {"BEGIN", "CHUNK", "END"}
  PROVE  c = 1
<1>1. Head(chan[c]) = chan[c][1] /\ Len(chan[c]) \in Nat \ {0}
  BY ConsumedMoved DEF Moved
<1>2. c # 0
  <2>1. 1 \in 1 .. Len(chan[c])
    BY <1>1
  <2>. QED
    BY <1>1, <2>1 DEF Image, Quiet, Host
<1>. QED
  BY <1>2 DEF Seat

(* A BEGIN gives the tick at which the next epoch starts.                  *)
LEMMA OnBeginGood ==
  ASSUME NEW S, TypeOK, Image, Roomy, NEW c \in Seat, OnBegin(c),
         ~con[c].dropped, Good(S, con, chan, room)
  PROVE  Good(S, con', chan', room')
<1>. DEFINE k2 == con'
            k == con
            ch == chan
            ch2 == chan'
            f == chan[1][1]
            n == [EnterHold(con[1]) EXCEPT !.resume = f.tick, !.begun = TRUE]
<1>1. chan[c] # <<>> /\ Head(chan[c]).type = "BEGIN" /\ room' = room
      /\ chan' = Consumed(c)
  BY DEF OnBegin, Arrives
<1>2. c = 1 /\ Head(chan[1]) = f
  BY <1>1, ToGuest, ConsumedMoved
<1>3. /\ k \in [Seat -> Console] /\ k[1] \in Console /\ room \in BOOLEAN
      /\ 0 \in Seat /\ 1 \in Seat /\ Peer(1) = 0
      /\ \A x \in Seat : x = 0 \/ x = 1
  BY Seats DEF TypeOK, Seat
<1>4. k2[0] = k[0] /\ k2[1] = n
  BY <1>2, <1>3 DEF OnBegin
<1>5. /\ n.dropped = k[1].dropped /\ n.tick = k[1].tick /\ n.wm = k[1].wm
      /\ n.epoch = k[1].epoch /\ n.ring = k[1].ring /\ n.pend = k[1].pend
      /\ n.resume = f.tick /\ n.pc = k[1].pc
  <2>. DEFINE m == EnterHold(con[1])
  <2>1. m \in Console /\ m.dropped = k[1].dropped /\ m.tick = k[1].tick
        /\ m.wm = k[1].wm /\ m.epoch = k[1].epoch /\ m.ring = k[1].ring
        /\ m.pend = k[1].pend /\ m.pc = k[1].pc
    <3>. DEFINE w == con[1]
    <3>1. w \in Console
      BY <1>3
    <3>. HIDE DEF w
    <3>2. EnterHold(w) \in Console
      BY <3>1, EnterHoldType
    <3>3. LET x == EnterHold(w)
          IN  /\ x.dropped = w.dropped /\ x.tick = w.tick /\ x.wm = w.wm
              /\ x.epoch = w.epoch /\ x.ring = w.ring
              /\ x.pend = w.pend /\ x.pc = w.pc
      BY <3>1 DEF EnterHold, Console
    <3>. QED
      BY <3>2, <3>3 DEF w
  <2>2. n = [m EXCEPT !.resume = f.tick, !.begun = TRUE]
    OBVIOUS
  <2>. HIDE DEF m, k, n
  <2>. QED
    BY <2>1, <2>2 DEF Console
<1>. HIDE DEF n
<1>6. /\ Moved(ch, ch2, 1) /\ ReadMove(k, k, 1, ch[1][1])
      /\ Len(ch[1]) \in Nat \ {0}
  BY <1>1, <1>2, ConsumedMoved DEF Moved, ReadMove, Taking
<1>7. PICK h \in History :
        /\ Fits(k, ch, room, h) /\ Stamped(S, k, ch, h)
        /\ \A x \in Seat : ~k[x].dropped => Timed(k[x], h, x)
  BY DEF Good
<1>8. ~k[1].dropped /\ f = ch[1][1] /\ f.type = "BEGIN"
  BY <1>1, <1>2
<1>. HIDE DEF k, ch, ch2, k2, f
<1>9. PICK h2 \in History : Fits(k, ch2, room, h2) /\ ReadOn(h, h2, 1)
  BY <1>3, <1>6, <1>7, ReadMade
<1>10. h.epoch[1] < h.epoch[0] /\ f.tick = Wrap(h.start[h.epoch[1] + 1])
  <2>1. Labelled(ch[1], h.tag[1], h.epoch[1], h.epoch[0], h.start)
    BY <1>7, <1>8 DEF Fits, GuestLine
  <2>2. 1 \in 1 .. Len(ch[1])
    BY <1>6
  <2>3. ch[1][1].type = "BEGIN" /\ ch[1][1].type # "LEFT"
    BY <1>8
  <2>4. /\ h.tag[1][1].of < h.epoch[0] /\ h.tag[1][1].of = h.epoch[1]
        /\ ch[1][1].tick = Wrap(h.start[h.tag[1][1].of + 1])
    BY <2>1, <2>2, <2>3 DEF Labelled
  <2>. QED
    BY <1>8, <2>4
<1>11. h2.epoch = h.epoch /\ h2.start = h.start
       /\ \A x \in Seat : Mark(h2, x) = Mark(h, x) /\ h2.tick[x] = h.tick[x]
  BY <1>9 DEF ReadOn, Mark
<1>12. Holds(k, h2, k2)
  BY <1>4, <1>5, <1>8, <1>10, <1>11 DEF Holds
<1>13. Fits(k2, ch2, room, h2)
  BY <1>9, <1>12, HoldsFits
<1>14. \A x \in Seat : k2[x].dropped = k[x].dropped /\ k2[x].pc = k[x].pc
  BY <1>3, <1>4, <1>5
<1>15. \A x \in Seat : ~k2[x].dropped => Timed(k2[x], h2, x)
  BY <1>7, <1>11, <1>14 DEF Timed
<1>16. Vouches({}, ch, h, ch2, h2)
  BY <1>3, <1>6, <1>9, ReadVouches
<1>17. /\ k2[1].epoch = k[1].epoch /\ {} \subseteq S
       /\ ~k2[0].dropped => ~k[0].dropped
  BY <1>4, <1>5
<1>18. Stamped(S, k2, ch2, h2)
  BY <1>7, <1>16, <1>17, VouchesStamped
<1>. QED
  BY <1>1, <1>13, <1>15, <1>18 DEF Good, k2, ch2

(* The END read: the guest's next epoch, with the history made.  A guest   *)
(* that stands at its gate has sampled one tick there already.             *)
EndMove(k, k2, f) ==
  LET m == k[1]
      n == k2[1]
  IN  /\ ~m.dropped /\ m.hold /\ k2[0] = k[0] /\ f.type = "END"
      /\ ~n.dropped /\ n.tick = m.resume /\ n.wm = Plus(n.tick, Delay - 1)
      /\ n.epoch = m.epoch + 1 /\ n.ring = IdleRings /\ ~n.hold /\ ~n.pend

EndOn(m, h, h2) ==
  /\ h2.epoch[1] = h.epoch[1] + 1 /\ h2.tag[0] = h.tag[0]
  /\ h2.tick[0] = h.tick[0] /\ Mark(h2, 0) = Mark(h, 0)
  /\ Mark(h2, 1) = h2.tick[1] + Delay - 1 + (IF m.pc = "stall" THEN 1 ELSE 0)

(* The END read has a history.                                             *)
LEMMA EndMade ==
  ASSUME NEW k \in [Seat -> Console], NEW ch, NEW r \in BOOLEAN,
         NEW h \in History, Roomy, NEW k2, NEW ch2,
         Fits(k, ch, r, h), EndMove(k, k2, ch[1][1]), Moved(ch, ch2, 1)
  PROVE  \E h2 \in History : Fits(k2, ch2, r, h2) /\ EndOn(k[1], h, h2)
<1>. DEFINE z == IF k[1].pc = "stall" THEN 1 ELSE 0
            e == h.epoch[1] + 1
            v == First(h, e)
            w == v + z
            g == [i \in Nat |-> h.tag[1][i + 1]]
            b == h.start[e]
            la == [x \in Nat |-> IF x = e THEN w ELSE h.last[1][x]]
            ti == [s \in Seat |-> IF s = 1 THEN b ELSE h.tick[s]]
            he == [s \in Seat |-> IF s = 1 THEN v ELSE h.heard[s]]
            ep == [s \in Seat |-> IF s = 1 THEN e ELSE h.epoch[s]]
            ls == [s \in Seat |-> IF s = 1 THEN la ELSE h.last[s]]
            tg == [s \in Seat |-> IF s = 1 THEN g ELSE h.tag[s]]
            h2 == [tick |-> ti, heard |-> he, epoch |-> ep, last |-> ls,
                   start |-> h.start, tag |-> tg]
<1>1. /\ h.tick \in [Seat -> Int] /\ h.heard \in [Seat -> Int]
      /\ h.epoch \in [Seat -> Nat] /\ h.last \in [Seat -> [Nat -> Int]]
      /\ h.start \in [Nat -> Int] /\ h.tag \in [Seat -> Tags]
      /\ 0 \in Seat /\ 1 \in Seat /\ Peer(1) = 0 /\ Delay \in Int
  BY Seats, Numbers DEF History
<1>2. h.tag[1] \in Tags /\ h.last[1] \in [Nat -> Int] /\ h.epoch[1] \in Nat
  BY <1>1
<1>3. e \in Nat /\ e # h.epoch[1]
  BY <1>2
<1>0. z \in {0, 1}
  OBVIOUS
<1>. HIDE DEF e, z
<1>4. b \in Int /\ v \in Int /\ v = b + Delay - 1
  <2>1. b \in Int
    BY <1>1, <1>3
  <2>2. v = b + Delay - 1
    BY DEF First
  <2>. HIDE DEF v, b
  <2>. QED
    BY <1>1, <2>1, <2>2
<1>. HIDE DEF b, v
<1>5. w \in Int /\ w \in {v, v + 1} /\ w = b + Delay - 1 + z
  BY <1>0, <1>1, <1>4
<1>. HIDE DEF w
<1>6. /\ la \in [Nat -> Int] /\ la[e] = w
      /\ \A x \in Nat : x # e => la[x] = h.last[1][x]
  BY <1>2, <1>3, <1>5
<1>7. g \in Tags /\ \A i \in Nat : g[i] = h.tag[1][i + 1]
  BY <1>2 DEF Tags
<1>. HIDE DEF la, g
<1>8. /\ ti \in [Seat -> Int] /\ ti[1] = b /\ ti[0] = h.tick[0]
      /\ he \in [Seat -> Int] /\ he[1] = v /\ he[0] = h.heard[0]
  BY <1>1, <1>4
<1>9. /\ ep \in [Seat -> Nat] /\ ep[1] = e /\ ep[0] = h.epoch[0]
      /\ ls \in [Seat -> [Nat -> Int]] /\ ls[1] = la /\ ls[0] = h.last[0]
      /\ tg \in [Seat -> Tags] /\ tg[1] = g /\ tg[0] = h.tag[0]
  BY <1>1, <1>3, <1>6, <1>7
<1>. HIDE DEF ti, he, ep, ls, tg
<1>10. /\ h2 \in History /\ h2.start = h.start
       /\ h2.tick[1] = b /\ h2.tick[0] = h.tick[0]
       /\ h2.heard[1] = v /\ h2.heard[0] = h.heard[0]
       /\ h2.epoch[1] = e /\ h2.epoch[0] = h.epoch[0]
       /\ h2.last[1] = la /\ h2.last[0] = h.last[0]
       /\ h2.tag[1] = g /\ h2.tag[0] = h.tag[0]
  BY <1>1, <1>8, <1>9 DEF History
<1>. HIDE DEF h2
<1>11. Taken(ch[1], h.tag[1], ch2[1], h2.tag[1])
  <2>. DEFINE s == ch[1]
              s2 == ch2[1]
              d == h.tag[1]
  <2>1. /\ Len(s) \in Nat \ {0} /\ Len(s2) = Len(s) - 1
        /\ \A i \in 1 .. Len(s2) : s2[i] = s[i + 1]
        /\ \A i \in Nat : g[i] = d[i + 1]
    BY <1>7 DEF Moved
  <2>. HIDE DEF s, s2, d
  <2>2. \A i \in 1 .. Len(s2) : s2[i] = s[i + 1] /\ g[i] = d[i + 1]
    <3>1. Len(s2) \in Int
      BY <2>1
    <3>. TAKE i \in 1 .. Len(s2)
    <3>2. i \in Nat
      BY <3>1
    <3>. QED
      BY <2>1, <3>2
  <2>3. Taken(s, d, s2, g)
    BY <2>1, <2>2 DEF Taken
  <2>. QED
    BY <1>10, <2>3 DEF s, s2, d
<1>12. ch2[0] = ch[0]
  BY <1>1 DEF Moved
<1>13. Ends(k, ch, h, k2, ch2, h2)
  <2>1. /\ h2.last[1][e] \in {v, v + 1}
        /\ \A x \in Nat : x # e => h2.last[1][x] = h.last[1][x]
    BY <1>5, <1>6, <1>10
  <2>. QED
    BY <1>10, <1>11, <1>12, <2>1 DEF Ends, EndMove, e, v, b
<1>14. Fits(k2, ch2, r, h2)
  BY <1>10, <1>13, EndsFits
<1>15. EndOn(k[1], h, h2)
  <2>1. Mark(h2, 1) = w /\ Mark(h2, 0) = Mark(h, 0)
    BY <1>6, <1>10 DEF Mark
  <2>. QED
    BY <1>5, <1>10, <2>1 DEF EndOn, z, e
<1>. QED
  BY <1>10, <1>14, <1>15

(* An END leaves a state some history fits, and no report of the new       *)
(* epoch.                                                                  *)
LEMMA OnEndGood ==
  ASSUME NEW S, TypeOK, Image, Roomy, NEW c \in Seat, OnEnd(c),
         ~con[c].dropped, Good(S, con, chan, room), NEW S2
  PROVE  Good(S2, con', chan', room')
<1>. DEFINE k2 == con'
            k == con
            ch == chan
            ch2 == chan'
            f == chan[1][1]
            n == Rebase(con[1])
<1>1. /\ chan[c] # <<>> /\ Head(chan[c]).type = "END" /\ room' = room
      /\ chan' = Consumed(c)
  BY DEF OnEnd, Arrives
<1>2. c = 1 /\ Head(chan[1]) = f /\ f.type = "END"
  BY <1>1, ToGuest, ConsumedMoved
<1>3. /\ k \in [Seat -> Console] /\ k[1] \in Console /\ room \in BOOLEAN
      /\ 0 \in Seat /\ 1 \in Seat /\ Peer(1) = 0
      /\ \A x \in Seat : x = 0 \/ x = 1
  BY Seats DEF TypeOK, Seat
<1>4. k[1].hold /\ ~k[1].dropped
  <2>1. Comes(con[1], chan[1][1])
    BY <1>1, <1>2, <1>3 DEF Image, Line
  <2>. QED
    BY <1>2, <2>1 DEF Comes
<1>5. k2[0] = k[0] /\ k2[1] = n
  BY <1>2, <1>3, <1>4 DEF OnEnd
<1>6. /\ n.dropped = k[1].dropped /\ n.tick = k[1].resume
      /\ n.wm = Plus(n.tick, Delay - 1) /\ n.epoch = k[1].epoch + 1
      /\ n.ring = IdleRings /\ ~n.hold /\ ~n.pend /\ n.pc = k[1].pc
  BY <1>3 DEF Rebase, Console
<1>7. EndMove(k, k2, f)
  BY <1>2, <1>4, <1>5, <1>6 DEF EndMove
<1>8. Moved(ch, ch2, 1)
  BY <1>1, <1>2, ConsumedMoved
<1>9. PICK h \in History :
        /\ Fits(k, ch, room, h) /\ Stamped(S, k, ch, h)
        /\ \A x \in Seat : ~k[x].dropped => Timed(k[x], h, x)
  BY DEF Good
<1>10. EndMove(k, k2, ch[1][1])
  BY <1>7
<1>11. ch2[0] = ch[0]
  BY <1>3, <1>8 DEF Moved
<1>. HIDE DEF k, ch, ch2, k2, f, n
<1>12. PICK h2 \in History : 
         Fits(k2, ch2, room, h2) /\ EndOn(k[1], h, h2)
  BY <1>3, <1>8, <1>9, <1>10, EndMade
<1>13. Timed(k2[0], h2, 0) \/ k2[0].dropped
  BY <1>3, <1>5, <1>9, <1>12 DEF Timed, EndOn
<1>14. Timed(k2[1], h2, 1)
  <2>1. h2.tick[1] \in Int /\ Delay \in Int
    BY <1>3, Typed, Numbers
  <2>. DEFINE x == h2.tick[1]
  <2>2. x + Delay - 1 + 1 = x + Delay /\ x + Delay - 1 + 0 = x + (Delay - 1)
    BY <2>1
  <2>. QED
    BY <1>5, <1>6, <1>12, <2>2 DEF Timed, EndOn
<1>15. \A x \in Seat : ~k2[x].dropped => Timed(k2[x], h2, x)
  BY <1>3, <1>13, <1>14
<1>16. Stamped(S2, k2, ch2, h2)
  <2>. SUFFICES ASSUME ~k2[0].dropped
                PROVE  /\ h2.epoch[1] = k2[1].epoch
                       /\ Vouched(S2, ch2[0], h2.tag[0], h2.epoch[1])
    BY DEF Stamped
  <2>1. ~k[0].dropped /\ h.epoch[1] = k[1].epoch /\ h.epoch[1] \in Nat
    BY <1>3, <1>5, <1>9, Typed DEF Stamped
  <2>2. /\ h2.epoch[1] = h.epoch[1] + 1 /\ h2.tag[0] = h.tag[0]
        /\ h2.epoch[1] = k2[1].epoch
    BY <1>5, <1>6, <1>12, <2>1 DEF EndOn
  <2>3. \A i \in 1 .. Len(ch[0]) :
          ch[0][i].type = "CRC" => h.tag[0][i].of <= h.epoch[1]
    BY <1>9, <2>1 DEF Fits, HostLine, Alarms
  <2>4. \A x : x <= h.epoch[1] => x # h.epoch[1] + 1
    BY <2>1
  <2>. QED
    BY <1>11, <2>2, <2>3, <2>4 DEF Vouched
<1>. QED
  BY <1>1, <1>12, <1>15, <1>16 DEF Good, k2, ch2

-----------------------------------------------------------------------------
(* In a hold no report of the new epoch is under way either: the guest has *)
(* not begun it.                                                           *)
LEMMA HeldGood ==
  ASSUME NEW S, NEW k, NEW ch, NEW r, Good(S, k, ch, r), NEW S2,
         ~k[1].dropped, k[1].hold
  PROVE  Good(S2, k, ch, r)
<1>1. PICK h \in History :
        /\ Fits(k, ch, r, h) /\ Stamped(S, k, ch, h)
        /\ \A x \in Seat : ~k[x].dropped => Timed(k[x], h, x)
  BY DEF Good
<1>2. h.epoch[1] < h.epoch[0] /\ h.epoch[0] \in Nat /\ h.epoch[1] \in Nat
  BY <1>1, Typed, Seats DEF Fits, GuestSpan
<1>3. h.epoch[0] # h.epoch[1]
  BY <1>2
<1>4. Stamped(S2, k, ch, h)
  BY <1>1, <1>3 DEF Stamped
<1>. QED
  BY <1>1, <1>4 DEF Good

(* A console whose match is over reads nothing more: it is on the terminal *)
(* screen, or the LEFT was the last there was to read.                     *)
Over ==
  \A c \in Seat :
    /\ \A i \in 1 .. Len(chan[c]) : chan[c][i].type = "LEFT" => i = Len(chan[c])
    /\ con[c].dropped => con[c].pc = "parked" \/ (~room /\ chan[c] = <<>>)

(* The step of a console without a room,                                   *)
LEMMA GateOver ==
  ASSUME TypeOK, NEW c \in Seat, NEW m \in Console, NEW ch, Gate(c, m, ch)
  PROVE  /\ con'[Peer(c)] = con[Peer(c)]
         /\ ~room => chan' = ch
         /\ con'[c].dropped => con'[c].pc = "parked"
<1>1. PICK n \in Console : Outcome(c, m, ch, n)
  BY GateOutcome
<1>2. con'[c] = n
  BY <1>1 DEF TypeOK, Outcome
<1>3. n.dropped => n.pc = "parked"
  BY <1>1 DEF Outcome, Open
<1>. QED
  BY <1>2, <1>3, GateAlone

LEMMA StepOver ==
  ASSUME TypeOK, NEW c \in Seat, Step(c)
  PROVE  \/ UNCHANGED vars
         \/ /\ con'[Peer(c)] = con[Peer(c)] /\ room' = room
            /\ ~room => chan' = chan
            /\ con'[c].dropped => con'[c].pc = "parked"
<1>1. con[c] \in Console /\ Peer(c) # c /\ Peer(c) \in Seat
  BY Seats DEF TypeOK
<1>2. CASE SampleInput(c)
  <2>. DEFINE t == Plus(con[c].tick, Delay)
  <2>1. PICK v \in Inputs :
          Gate(c, [con[c] EXCEPT !.ring[c][Slot(t)] = v],
               Sent(chan, c, <<[type |-> "INPUT", tick |-> t, in |-> v]>>))
    BY <1>2 DEF SampleInput
  <2>. DEFINE f == [type |-> "INPUT", tick |-> t, in |-> v]
              m == [con[c] EXCEPT !.ring[c][Slot(t)] = v]
              ch == Sent(chan, c, <<f>>)
  <2>2. m \in Console
    BY <1>1 DEF Console
  <2>3. ~room => ch = chan
    BY DEF Sent
  <2>4. Gate(c, m, ch) /\ room' = room
    BY <1>2, <2>1 DEF SampleInput
  <2>. HIDE DEF m, ch
  <2>5. /\ con'[Peer(c)] = con[Peer(c)]
        /\ ~room => chan' = ch
        /\ con'[c].dropped => con'[c].pc = "parked"
    BY <2>2, <2>4, GateOver
  <2>. QED
    BY <2>3, <2>4, <2>5
<1>3. CASE StallRound(c)
  <2>. DEFINE m == [con[c] EXCEPT !.waitc = IF GateRounds = 0 THEN 0 ELSE @ + 1]
              n == IF GateRounds # 0 /\ m.waitc >= GateRounds
                   THEN Drop(m, "lost") ELSE m
  <2>1. m \in Console
    <3>1. con[c].waitc + 1 \in Nat
      BY <1>1 DEF Console
    <3>. QED
      BY <1>1, <3>1 DEF Console
  <2>2. n \in Console
    BY <2>1, DropType
  <2>3. Gate(c, n, chan) /\ room' = room
    BY <1>3 DEF StallRound
  <2>. HIDE DEF n
  <2>4. /\ con'[Peer(c)] = con[Peer(c)]
        /\ ~room => chan' = chan
        /\ con'[c].dropped => con'[c].pc = "parked"
    BY <2>2, <2>3, GateOver
  <2>. QED
    BY <2>3, <2>4
<1>4. CASE HoldRound(c)
  <2>. DEFINE m == [con[c] EXCEPT !.rsto = IF HoldRounds = 0 THEN 0 ELSE @ + 1]
              d == [m EXCEPT !.hold = FALSE]
              n == IF HoldRounds # 0 /\ m.rsto >= HoldRounds
                   THEN Drop(d, "lost") ELSE m
  <2>1. m \in Console
    <3>1. con[c].rsto + 1 \in Nat
      BY <1>1 DEF Console
    <3>. QED
      BY <1>1, <3>1 DEF Console
  <2>2. d \in Console
    BY <2>1 DEF Console
  <2>3. n \in Console
    BY <2>1, <2>2, DropType
  <2>4. con' = [con EXCEPT ![c] = Pass(n)] /\ chan' = chan /\ room' = room
    BY <1>4 DEF HoldRound
  <2>. HIDE DEF n
  <2>5. /\ Pass(n).dropped = n.dropped
        /\ n.dropped => Pass(n).pc = "parked"
    BY <2>3, PassLooks DEF Same, Looks
  <2>. QED
    BY <1>1, <2>4, <2>5 DEF TypeOK
<1>5. CASE Park(c)
  BY <1>5 DEF Park
<1>. QED
  BY <1>2, <1>3, <1>4, <1>5 DEF Step

(* what is read,                                                           *)
LEMMA DeliverOver ==
  ASSUME TypeOK, Over, NEW c \in Seat, Deliver(c)
  PROVE  /\ chan[c] # <<>> /\ ~con[c].dropped /\ room' = room
         /\ con'[Peer(c)] = con[Peer(c)]
         /\ ~room => chan' = Consumed(c)
         /\ con'[c].dropped => OnPeerLeft(c)
<1>1. /\ chan[c] # <<>> /\ con[c].pc \in {"pump", "stall", "hold"}
      /\ room' = room
  BY DEF Deliver, OnInput, OnCrc, OnReq, OnBegin, OnChunk, OnEnd,
         OnPeerLeft, Arrives
<1>2. ~con[c].dropped
  BY <1>1 DEF Over
<1>3. ~room => chan' = Consumed(c)
  BY DEF Deliver, OnInput, OnCrc, OnReq, OnBegin, OnChunk, OnEnd,
         OnPeerLeft, Sent
<1>4. CASE OnPeerLeft(c)
  <2>1. con'[Peer(c)] = con[Peer(c)]
    BY <1>4, Seats DEF OnPeerLeft, TypeOK
  <2>. QED
    BY <1>1, <1>2, <1>3, <1>4, <2>1
<1>5. CASE ~OnPeerLeft(c)
  BY <1>1, <1>2, <1>3, <1>5, DeliverKeeps
<1>. QED
  BY <1>4, <1>5

(* and what is cut off.                                                    *)
LEMMA CutOver ==
  ASSUME NEW s, NEW s2, NEW n, Cut(s, s2, n),
         \A i \in 1 .. Len(s) : s[i].type # "LEFT"
  PROVE  \A i \in 1 .. Len(s2) : s2[i].type = "LEFT" => i = Len(s2)
<1>. SUFFICES ASSUME NEW i \in 1 .. Len(s2), s2[i].type = "LEFT"
              PROVE  i = Len(s2)
  OBVIOUS
<1>1. /\ Len(s) \in Nat /\ n \in 0 .. Len(s) /\ Len(s2) \in {n, n + 1}
      /\ \A j \in 1 .. n : s2[j] = s[j]
  BY DEF Cut
<1>2. ~(i \in 1 .. n)
  BY <1>1
<1>. QED
  BY <1>1, <1>2

(* It holds in every behaviour.                                            *)
LEMMA OverNext ==
  ASSUME TypeOK, Gone, Gone', Over, [Next]_vars
  PROVE  Over'
<1>. DEFINE Last1(q) ==
              \A i \in 1 .. Len(q) : q[i].type = "LEFT" => i = Len(q)
            Out(c) == con'[c].pc = "parked" \/ (~room' /\ chan'[c] = <<>>)
<1>0. /\ \A c \in Seat : Peer(c) \in Seat /\ Peer(c) # c
      /\ \A c \in Seat : \A x \in Seat : x = c \/ x = Peer(c)
      /\ con \in [Seat -> Console] /\ chan \in [Seat -> Seq(Frame)]
      /\ room \in BOOLEAN
  BY Seats DEF TypeOK
<1>1. \A c \in Seat : /\ room' => Last1(chan'[c])
                      /\ room' /\ con'[c].dropped => con'[c].pc = "parked"
  BY DEF Gone, NoLeft
<1>2. \A c \in Seat : /\ Last1(chan[c])
                      /\ con[c].dropped /\ room => con[c].pc = "parked"
                      /\ con[c].dropped => \/ con[c].pc = "parked"
                                           \/ ~room /\ chan[c] = <<>>
  BY DEF Over, Gone
<1>3. ASSUME NEW c \in Seat, Step(c), ~room'
      PROVE  \A x \in Seat : Last1(chan'[x]) /\ (con'[x].dropped => Out(x))
  <2>. HIDE DEF Last1
  <2>1. CASE UNCHANGED vars
    BY <1>2, <1>3, <2>1 DEF vars
  <2>2. CASE ~UNCHANGED vars
    BY <1>0, <1>2, <1>3, <2>2, StepOver
  <2>. QED
    BY <2>1, <2>2
<1>4. ASSUME NEW c \in Seat, Deliver(c), ~room'
      PROVE  \A x \in Seat : Last1(chan'[x]) /\ (con'[x].dropped => Out(x))
  <2>. DEFINE d == Consumed(c)
  <2>1. /\ chan[c] # <<>> /\ room' = room /\ con'[Peer(c)] = con[Peer(c)]
        /\ chan' = d
        /\ con'[c].dropped => OnPeerLeft(c)
    BY <1>4, DeliverOver
  <2>. DEFINE s == chan[c]
              s2 == d[c]
  <2>2. /\ chan' = d /\ d[Peer(c)] = chan[Peer(c)] /\ d[c] \in Seq(Frame)
        /\ Len(s) \in Nat \ {0} /\ Len(s2) = Len(s) - 1
        /\ \A i \in 1 .. Len(s2) : s2[i] = s[i + 1]
        /\ Head(s) = s[1]
    BY <2>1, ConsumedFrames
  <2>. HIDE DEF d, s, s2
  <2>3. Last1(s2)
    <3>1. Last1(s)
      BY <1>2 DEF s
    <3>. SUFFICES ASSUME NEW i \in 1 .. Len(s2), s2[i].type = "LEFT"
                  PROVE  i = Len(s2)
      OBVIOUS
    <3>2. Len(s) \in Nat /\ Len(s2) = Len(s) - 1 /\ s2[i] = s[i + 1]
      BY <2>2
    <3>3. i + 1 \in 1 .. Len(s) /\ i \in Int
      BY <3>2
    <3>4. s[i + 1].type = "LEFT"
      BY <3>2
    <3>5. i + 1 = Len(s)
      BY <3>1, <3>3, <3>4
    <3>. QED
      BY <3>2, <3>3, <3>5
  <2>4. con'[c].dropped => d[c] = <<>>
    <3>. SUFFICES ASSUME con'[c].dropped PROVE d[c] = <<>>
      OBVIOUS
    <3>0. OnPeerLeft(c)
      BY <2>1
    <3>1. s[1].type = "LEFT"
      BY <2>2, <3>0 DEF OnPeerLeft, Arrives, s
    <3>2. Len(s) = 1
      <4>1. Last1(s)
        BY <1>2 DEF s
      <4>2. 1 \in 1 .. Len(s)
        BY <2>2
      <4>. QED
        BY <3>1, <4>1, <4>2
    <3>3. Len(d[c]) = 0
      BY <2>2, <3>2 DEF s2
    <3>. QED
      BY <2>2, <3>3, EmptySeq
  <2>5. \A x \in Seat : Last1(chan'[x])
    <3>. HIDE DEF Last1
    <3>. QED
      BY <1>0, <1>2, <2>1, <2>2, <2>3 DEF s2
  <2>6. \A x \in Seat : con'[x].dropped => Out(x)
    BY <1>0, <1>2, <1>4, <2>1, <2>2, <2>4
  <2>. QED
    BY <2>5, <2>6
<1>5. ASSUME NEW c \in Seat, Glitch(c), ~room'
      PROVE  \A x \in Seat : Last1(chan'[x]) /\ (con'[x].dropped => Out(x))
  <2>1. /\ chan' = chan /\ room' = room
        /\ \E p \in Parts : con' = [con EXCEPT ![c].world[p] = glitches + 1]
    BY <1>5 DEF Glitch
  <2>2. \A x \in Seat : con'[x].dropped = con[x].dropped
                        /\ con'[x].pc = con[x].pc
    BY <1>0, <2>1 DEF Console
  <2>. HIDE DEF Last1
  <2>. QED
    BY <1>2, <2>1, <2>2
<1>6. ASSUME NEW c \in Seat, LoseRoom(c)
      PROVE  \A x \in Seat : Last1(chan'[x]) /\ (con'[x].dropped => Out(x))
  <2>1. room /\ con' = con /\ \A x \in Seat : \E n : Cut(chan[x], chan'[x], n)
    BY <1>6, LoseRoomCuts DEF LoseRoom
  <2>2. \A x \in Seat : Last1(chan'[x])
    BY <2>1, CutOver DEF Gone, NoLeft
  <2>. HIDE DEF Last1
  <2>. QED
    BY <1>2, <2>1, <2>2
<1>7. CASE UNCHANGED vars
  BY <1>7 DEF vars, Over
<1>8. CASE ~UNCHANGED vars
  <2>1. \A x \in Seat : Last1(chan'[x]) /\ (con'[x].dropped => Out(x))
    <3>. HIDE DEF Last1, Out
    <3>1. CASE room'
      BY <1>1, <3>1 DEF Out
    <3>2. CASE ~room'
      BY <1>3, <1>4, <1>5, <1>6, <1>8, <3>2 DEF Next
    <3>. QED
      BY <3>1, <3>2
  <2>. QED
    BY <2>1 DEF Over
<1>. QED
  BY <1>7, <1>8

LEMMA OverAlways == Spec => []Over
<1>1. Init => Over
  BY DEF Init, Over
<1>2. TypeOK /\ Gone /\ Gone' /\ Over /\ [Next]_vars => Over'
  BY OverNext
<1>. QED
  BY <1>1, <1>2, TypeCorrect, GoneAlways, PTL DEF Spec

-----------------------------------------------------------------------------
(* The invariant: there is a history that fits.                            *)
Timely == Good([Summed -> Label], con, chan, room)

(* A frame delivered keeps it, one handler at a time,                      *)
LEMMA DeliverGood ==
  ASSUME NEW S, TypeOK, Image, Over, Roomy, NEW c \in Seat, Deliver(c),
         Good(S, con, chan, room)
  PROVE  Good(S, con', chan', room')
<1>. DEFINE p == Peer(c)
            d == Consumed(c)
<1>1. chan[c] # <<>> /\ room' = room /\ p \in Seat /\ p # c
  BY Seats DEF Deliver, OnInput, OnCrc, OnReq, OnBegin, OnChunk, OnEnd,
               OnPeerLeft, Arrives
<1>2. d[p] = chan[p]
  BY <1>1, ConsumedFrames
<1>3. CASE OnPeerLeft(c)
  <2>. DEFINE m == Drop(con[c], "left")
  <2>1. con' = [con EXCEPT ![c] = m] /\ chan' = d
    BY <1>3 DEF OnPeerLeft
  <2>2. con \in [Seat -> Console] /\ con[c] \in Console
    BY DEF TypeOK
  <2>3. m.dropped /\ m.epoch = con[c].epoch
    BY <2>2 DEF Drop, IdleRemote, Console
  <2>. HIDE DEF m, d
  <2>4. con'[c].dropped /\ con'[p] = con[p] /\ chan'[p] = chan[p]
        /\ con'[c].epoch = con[c].epoch
    BY <1>1, <1>2, <2>1, <2>2, <2>3
  <2>. QED
    BY <1>1, <2>4, DropGood
<1>4. ~con[c].dropped
  BY DeliverOver
<1>5. CASE ~OnPeerLeft(c)
  BY <1>4, <1>5, OnInputGood, OnCrcGood, OnReqGood, OnBeginGood, OnChunkGood,
     OnEndGood DEF Deliver
<1>. QED
  BY <1>3, <1>5

(* as does every step.                                                     *)
LEMMA NextGood ==
  ASSUME NEW S, TypeOK, Image, Gone, Over, Roomy, [Next]_vars,
         Good(S, con, chan, room), Cksum(con[1].world) \in S
  PROVE  Good(S, con', chan', room')
<1>1. ASSUME NEW c \in Seat, Step(c) PROVE Good(S, con', chan', room')
  <2>1. CASE Park(c)
    BY <2>1 DEF Park, vars
  <2>. QED
    BY <1>1, <2>1, SampleGood, StallGood, HoldGood DEF Step
<1>2. ASSUME NEW c \in Seat, Deliver(c) PROVE Good(S, con', chan', room')
  BY <1>2, DeliverGood
<1>3. ASSUME NEW c \in Seat, Glitch(c) PROVE Good(S, con', chan', room')
  BY <1>3, GlitchGood
<1>4. ASSUME NEW c \in Seat, LoseRoom(c) PROVE Good(S, con', chan', room')
  BY <1>4, LoseRoomGood
<1>5. CASE UNCHANGED vars
  BY <1>5 DEF vars
<1>. QED
  BY <1>1, <1>2, <1>3, <1>4, <1>5 DEF Next

(* At the START the history is short.                                      *)
LEMMA InitGood ==
  ASSUME NEW S, Roomy, Init
  PROVE  Good(S, con, chan, room)
<1>. DEFINE v == Delay - 1
            h == [tick |-> [c \in Seat |-> 0], heard |-> [c \in Seat |-> v],
                  epoch |-> [c \in Seat |-> 0],
                  last |-> [c \in Seat |-> [e \in Nat |-> v]],
                  start |-> [e \in Nat |-> 0],
                  tag |-> [c \in Seat |-> [i \in Nat |-> [of |-> 0, at |-> 0]]]]
<1>1. /\ Delay \in Nat /\ PageSize \in Nat \ {0} /\ TickSpan \in Nat \ {0}
      /\ Delay >= 1 /\ Delay <= PageSize - 1 /\ PageSize <= TickSpan
      /\ v \in Int /\ v >= 0 /\ v = Delay - 1
  BY PageInSpan, SizeAssumption DEF Roomy
<1>2. v % PageSize = v /\ Wrap(v) = v /\ Wrap(0) = 0
  <2>1. 0 <= v /\ v < PageSize /\ v < TickSpan /\ 0 < TickSpan
    BY <1>1
  <2>. QED
    BY <1>1, <2>1, ModSmall DEF Wrap
<1>3. \A c \in Seat :
        /\ con[c].pc = "pump" /\ con[c].tick = 0 /\ con[c].wm = v
        /\ con[c].ring = IdleRings /\ con[c].epoch = 0 /\ ~con[c].hold
        /\ ~con[c].pend /\ con[c].crc = NoCrc /\ ~con[c].dropped
        /\ Len(chan[c]) = 0
  BY <1>2 DEF Init
<1>. HIDE DEF v
<1>4. /\ h \in History
      /\ \A c \in Seat : /\ h.tick[c] = 0 /\ h.heard[c] = v
                         /\ h.epoch[c] = 0 /\ h.last[c][0] = v
      /\ h.start[0] = 0
  BY <1>1 DEF History, Tags
<1>. HIDE DEF h
<1>5. /\ 0 \in Seat /\ 1 \in Seat /\ \A c \in Seat : Peer(c) \in Seat
  BY Seats
<1>6. /\ First(h, 0) = v /\ \A c \in Seat : Mark(h, c) = v
      /\ \A c \in Seat : Known(h, c, 0) = v
  <2>1. First(h, 0) = v
    BY <1>1, <1>4 DEF First
  <2>. QED
    BY <1>4, <2>1 DEF Mark, Known
<1>7. Ages(h)
  BY <1>1, <1>4, <1>5, <1>6 DEF Ages
<1>8. \A c \in Seat : Clock(con[c], h, c)
  BY <1>1, <1>2, <1>3, <1>4, <1>6 DEF Clock
<1>9. GuestSpan(con[1], h)
  BY <1>1, <1>3, <1>4, <1>5, <1>6 DEF GuestSpan
<1>10. /\ GuestLine(chan[1], h.tag[1], h)
       /\ Reached(chan[1], h.tag[1], h.epoch[1], h.epoch[0])
  BY <1>3, <1>4, <1>5 DEF GuestLine, Wired, Sorted, Labelled, Dated, Reached
<1>11. HostSpan(con, h)
  <2>1. Bit(con[0].pend) = 0
    BY <1>3, <1>5 DEF Bit
  <2>. QED
    BY <1>1, <1>4, <1>5, <1>6, <2>1 DEF HostSpan
<1>12. HostLine(con, chan[0], h.tag[0], h)
  BY <1>3, <1>5 DEF HostLine, Wired, Sorted, Alarms, Ranked, Dated
<1>13. Records(con[0], h)
  BY <1>3, <1>5 DEF Records, NoCrc
<1>14. ASSUME NEW c \in Seat
       PROVE  Agree(con, chan[c], h.tag[c], room, h, c)
  <2>1. Len(chan[c]) = 0 /\ h.epoch[0] = 0 /\ Known(h, c, 0) = v
        /\ Mark(h, Peer(c)) = v /\ v + 1 > v
    BY <1>1, <1>3, <1>4, <1>5, <1>6
  <2>2. con[0].ring = con[1].ring
    BY <1>3, <1>5
  <2>3. \A t : Alike(con, Peer(c), t)
    BY <2>2 DEF Alike
  <2>4. \A n, skip : Covered(chan[c], h.tag[c], 0, v, v, n, skip)
    BY <1>1 DEF Covered
  <2>5. \A ring : Told(chan[c], h.tag[c], 0, ring)
    BY <2>1 DEF Told
  <2>6. \A skip : Gapless(chan[c], h.tag[c], 0, v, skip)
    BY <2>1 DEF Gapless
  <2>. QED
    BY <2>1, <2>3, <2>4, <2>5, <2>6 DEF Agree
<1>15. Fresh(con, h)
  BY <1>4, <1>5 DEF Fresh
<1>16. Fits(con, chan, room, h)
  BY <1>7, <1>8, <1>9, <1>10, <1>11, <1>12, <1>13, <1>14, <1>15 DEF Fits
<1>17. \A c \in Seat : Timed(con[c], h, c)
  BY <1>1, <1>3, <1>4, <1>6 DEF Timed
<1>18. Stamped(S, con, chan, h)
  <2>1. Len(chan[0]) = 0 /\ con[1].epoch = 0 /\ h.epoch[1] = 0
    BY <1>3, <1>4, <1>5
  <2>. QED
    BY <2>1 DEF Stamped, Vouched
<1>. QED
  BY <1>4, <1>16, <1>17, <1>18 DEF Good

(* It is an invariant.                                                     *)
LEMMA TimelyAlways == Roomy => (Spec => []Timely)
<1>. SUFFICES ASSUME Roomy PROVE Spec => []Timely
  OBVIOUS
<1>1. Init => Timely
  BY InitGood DEF Timely
<1>2. TypeOK /\ Image /\ Gone /\ Over /\ Timely /\ [Next]_vars => Timely'
  <2>1. TypeOK => Cksum(con[1].world) \in [Summed -> Label]
    BY CksumType, Seats DEF TypeOK, Console
  <2>. QED
    BY <2>1, NextGood DEF Timely
<1>. QED
  BY <1>1, <1>2, TypeCorrect, ImageAlways, GoneAlways, OverAlways, PTL DEF Spec

-----------------------------------------------------------------------------
(* Two consoles on one epoch: each has sampled no more than d + 1 ticks    *)
(* past the other, and heard no more than was sampled.                     *)
LEMMA Abreast ==
  ASSUME NEW k, NEW ch, NEW r, NEW h \in History, Roomy, Fits(k, ch, r, h),
         ~k[0].dropped, ~k[1].dropped, k[0].epoch = k[1].epoch
  PROVE  /\ h.epoch[0] = h.epoch[1]
         /\ h.tick[0] - h.tick[1] \in -(Delay + 1) .. Delay + 1
         /\ \A c \in Seat : /\ Mark(h, c) <= h.tick[c] + Delay
                            /\ h.tick[c] - 1 <= h.heard[c]
                            /\ h.heard[c] <= h.tick[c] + 2 * Delay + 1
                            /\ k[c].tick = Wrap(h.tick[c])
                            /\ k[c].wm = Wrap(h.heard[c])
<1>1. /\ \A x \in Seat : /\ h.tick[x] \in Int /\ h.heard[x] \in Int
                         /\ Mark(h, x) \in Int
      /\ Delay \in Nat /\ 0 \in Seat /\ 1 \in Seat
      /\ \A x \in Seat : x \in {0, 1}
  BY Typed, Numbers, Seats
<1>2. \A c \in Seat : Clock(k[c], h, c)
  BY <1>1 DEF Fits
<1>3. h.epoch[0] = h.epoch[1]
  BY <1>1, <1>2 DEF Clock
<1>4. \A c \in Seat :
        /\ k[c].tick = Wrap(h.tick[c]) /\ k[c].wm = Wrap(h.heard[c])
        /\ h.tick[c] <= h.heard[c] + 1 /\ Mark(h, c) <= h.tick[c] + Delay
  <2>. SUFFICES ASSUME NEW c \in Seat
                PROVE  /\ k[c].tick = Wrap(h.tick[c])
                       /\ k[c].wm = Wrap(h.heard[c])
                       /\ h.tick[c] <= h.heard[c] + 1
                       /\ Mark(h, c) <= h.tick[c] + Delay
    OBVIOUS
  <2>1. /\ k[c].tick = Wrap(h.tick[c]) /\ k[c].wm = Wrap(h.heard[c])
        /\ h.tick[c] <= h.heard[c] + 1
        /\ Mark(h, c) \in {h.tick[c] + Delay - 1, h.tick[c] + Delay}
    BY <1>2 DEF Clock
  <2>. QED
    BY <1>1, <2>1
<1>5. /\ h.heard[1] <= Mark(h, 0) /\ Mark(h, 0) <= Mark(h, 1) + Delay + 1
      /\ h.heard[0] <= Mark(h, 1) /\ Mark(h, 1) <= Mark(h, 0) + Delay + 1
  BY <1>3 DEF Fits, GuestSpan, HostSpan, Mark
<1>6. h.tick[0] - h.tick[1] \in -(Delay + 1) .. Delay + 1
  <2>1. /\ h.tick[0] <= h.heard[0] + 1 /\ Mark(h, 0) <= h.tick[0] + Delay
        /\ h.tick[1] <= h.heard[1] + 1 /\ Mark(h, 1) <= h.tick[1] + Delay
    BY <1>1, <1>4
  <2>. QED
    BY <1>1, <1>5, <2>1
<1>7. \A c \in Seat : h.heard[c] <= h.tick[c] + 2 * Delay + 1
                      /\ h.tick[c] - 1 <= h.heard[c]
  <2>1. ASSUME NEW c \in Seat
        PROVE  h.heard[c] - h.tick[c] \in -1 .. 2 * Delay + 1
    BY <1>1, HeardSpan
  <2>. QED
    BY <1>1, <2>1
<1>. QED
  BY <1>3, <1>4, <1>6, <1>7

(* The 16-bit differences the properties and the gate take are true ones.  *)
LEMMA Near ==
  ASSUME NEW a \in Int, NEW b \in Int, Roomy,
         -(Delay + 1) <= a - b, a - b <= 3 * Delay + 2
  PROVE  Delta(Wrap(a), Wrap(b)) = a - b
<1>1. -TickSpan <= 2 * (a - b) /\ 2 * (a - b) < TickSpan
  BY Numbers DEF Roomy
<1>. QED
  BY <1>1, DeltaTick

(* What a history fits is within the delay,                                *)
LEMMA TimelyDelay == ASSUME Roomy, Timely PROVE WithinDelay
<1>1. PICK h \in History : Fits(con, chan, room, h)
  BY DEF Timely, Good
<1>2. ASSUME NEW c \in Seat, Playing(c)
      PROVE  Delta(con[c].wm, con[c].tick) \in -1 .. 2 * Delay + 1
  <2>1. ~con[c].dropped
    BY <1>2 DEF Playing
  <2>2. /\ h.heard[c] - h.tick[c] \in -1 .. 2 * Delay + 1
        /\ Delta(con[c].wm, con[c].tick) = h.heard[c] - h.tick[c]
    BY <1>1, <2>1, HeardSpan
  <2>. QED
    BY <2>2
<1>3. ASSUME Together
      PROVE  Delta(con[0].tick, con[1].tick) \in -(Delay + 1) .. Delay + 1
  <2>1. ~con[0].dropped /\ ~con[1].dropped /\ con[0].epoch = con[1].epoch
    BY <1>3 DEF Together, Playing
  <2>. DEFINE a == h.tick[0]
              b == h.tick[1]
  <2>2. /\ a - b \in -(Delay + 1) .. Delay + 1
        /\ con[0].tick = Wrap(a) /\ con[1].tick = Wrap(b)
    BY <1>1, <2>1, Abreast, Seats
  <2>3. a \in Int /\ b \in Int
    BY Typed, Seats
  <2>. HIDE DEF a, b
  <2>4. -(Delay + 1) <= a - b /\ a - b <= 3 * Delay + 2
    BY <2>2, <2>3, Numbers
  <2>5. Delta(Wrap(a), Wrap(b)) = a - b
    BY <2>3, <2>4, Near
  <2>. QED
    BY <2>2, <2>5
<1>. QED
  BY <1>2, <1>3 DEF WithinDelay

(* and alike in the rings: the tick T of the console behind, and k ticks   *)
(* from it that both know, are cells that Agree speaks of.                 *)
LEMMA TimelyAgree == ASSUME Roomy, Timely PROVE InputsAgree
<1>. SUFFICES ASSUME Together, NEW s \in Seat, NEW k \in Slots,
                     \A c \in Seat :
                       k <= Delta(Horizon(c, s), con[Behind].tick)
              PROVE  LET t == Slot(con[Behind].tick + k)
                     IN  con[0].ring[s][t] = con[1].ring[s][t]
  BY DEF InputsAgree
<1>. DEFINE p == Peer(s)
<1>1. PICK h \in History : Fits(con, chan, room, h)
  BY DEF Timely, Good
<1>2. ~con[0].dropped /\ ~con[1].dropped /\ con[0].epoch = con[1].epoch
  BY DEF Together, Playing
<1>3. /\ h.epoch[0] = h.epoch[1]
      /\ h.tick[0] - h.tick[1] \in -(Delay + 1) .. Delay + 1
      /\ \A c \in Seat : /\ Mark(h, c) <= h.tick[c] + Delay
                         /\ h.tick[c] - 1 <= h.heard[c]
                         /\ h.heard[c] <= h.tick[c] + 2 * Delay + 1
                         /\ con[c].tick = Wrap(h.tick[c])
                         /\ con[c].wm = Wrap(h.heard[c])
  BY <1>1, <1>2, Abreast
<1>4. /\ \A c \in Seat : /\ h.tick[c] \in Int /\ h.heard[c] \in Int
                         /\ Mark(h, c) \in Int
      /\ 0 \in Seat /\ 1 \in Seat /\ p \in Seat /\ Peer(p) = s /\ p # s
      /\ \A c \in Seat : c \in {0, 1}
      /\ Delay \in Nat
  BY Typed, Seats, Numbers
<1>. DEFINE T == h.tick[Behind]
<1>5. /\ Behind \in Seat /\ T \in Int /\ con[Behind].tick = Wrap(T)
      /\ \A c \in Seat : T <= h.tick[c] /\ h.tick[c] <= T + Delay + 1
  <2>. DEFINE a == h.tick[0]
              b == h.tick[1]
  <2>1. /\ a \in Int /\ b \in Int /\ con[0].tick = Wrap(a)
        /\ con[1].tick = Wrap(b) /\ a - b \in -(Delay + 1) .. Delay + 1
    BY <1>3, <1>4
  <2>. HIDE DEF a, b
  <2>2. -(Delay + 1) <= a - b /\ a - b <= Delay + 1 /\ a - b <= 3 * Delay + 2
    BY <1>4, <2>1
  <2>3. Delta(Wrap(a), Wrap(b)) = a - b
    BY <2>1, <2>2, Near
  <2>4. Behind = IF a - b <= 0 THEN 0 ELSE 1
    BY <2>1, <2>3 DEF Behind
  <2>5. Behind = IF a <= b THEN 0 ELSE 1
    BY <2>1, <2>4
  <2>6. /\ a <= b => Behind = 0 /\ a <= a /\ a <= b
                     /\ a <= a + Delay + 1 /\ b <= a + Delay + 1
        /\ ~(a <= b) => Behind = 1 /\ b <= a /\ b <= b
                        /\ b <= b + Delay + 1 /\ a <= b + Delay + 1
    BY <1>4, <2>1, <2>2, <2>5
  <2>7. CASE a <= b
    <3>1. T = a
      BY <2>6, <2>7 DEF a
    <3>2. \A c \in Seat : h.tick[c] = a \/ h.tick[c] = b
      BY <1>4 DEF a, b
    <3>. HIDE DEF T
    <3>. QED
      BY <1>4, <2>1, <2>6, <2>7, <3>1, <3>2
  <2>8. CASE ~(a <= b)
    <3>1. T = b
      BY <2>6, <2>8 DEF b
    <3>2. \A c \in Seat : h.tick[c] = a \/ h.tick[c] = b
      BY <1>4 DEF a, b
    <3>. HIDE DEF T
    <3>. QED
      BY <1>4, <2>1, <2>6, <2>8, <3>1, <3>2
  <2>. QED
    BY <2>7, <2>8
<1>. DEFINE H == h.heard[p]
            M == Mark(h, s)
<1>6. /\ H \in Int /\ M \in Int /\ T - 1 <= H /\ H <= T + 3 * Delay + 2
      /\ M <= T + 2 * Delay + 1
  <2>1. /\ h.tick[p] - 1 <= H /\ H <= h.tick[p] + 2 * Delay + 1
        /\ T <= h.tick[p] /\ h.tick[p] <= T + Delay + 1
        /\ M <= h.tick[s] + Delay /\ h.tick[s] <= T + Delay + 1
        /\ h.tick[p] \in Int /\ h.tick[s] \in Int /\ H \in Int /\ M \in Int
    BY <1>3, <1>4, <1>5
  <2>. HIDE DEF T, H, M
  <2>. QED
    BY <1>4, <1>5, <2>1
<1>7. k <= Delta(Wrap(H), Wrap(T))
  <2>1. Horizon(p, s) = con[p].wm
    BY <1>4 DEF Horizon
  <2>2. con[p].wm = Wrap(H)
    BY <1>3, <1>4
  <2>3. k <= Delta(Horizon(p, s), con[Behind].tick)
    BY <1>4
  <2>. QED
    BY <1>5, <2>1, <2>2, <2>3
<1>8. con[0].ring[s] = con[0].ring[s] /\ k \in Nat
  BY DEF Slots
<1>9. \A t \in M - PageSize + 1 .. H : Alike(con, s, t)
  <2>1. Agree(con, chan[p], h.tag[p], room, h, p)
    BY <1>1, <1>2, <1>4 DEF Fits
  <2>. QED
    BY <1>3, <1>4, <2>1 DEF Agree
<1>10. Slot(con[Behind].tick + k) = Cell(T + k)
  <2>. HIDE DEF T
  <2>1. Wrap(T) \in Int /\ T + k \in Int
    BY <1>5, <1>8, Numbers DEF Wrap
  <2>2. Plus(Wrap(T), k) = Wrap(T + k)
    <3>1. T \in Int /\ k \in Int
      BY <1>5, <1>8
    <3>. QED
      BY <3>1, PlusTick
  <2>3. Wrap(T) + k \in Int
    BY <1>8, <2>1
  <2>4. Slot(Plus(Wrap(T), k)) = Slot(Wrap(T) + k)
    BY <2>3, ModMod, SizeAssumption DEF Slot, Plus
  <2>5. Slot(Wrap(T + k)) = Cell(T + k)
    BY <2>1, SlotTick
  <2>. QED
    BY <1>5, <2>2, <2>4, <2>5
<1>. HIDE DEF T, H, M, p
<1>11. T + k \in M - PageSize + 1 .. H
  <2>1. -(Delay + 1) <= H - T /\ H - T <= 3 * Delay + 2
    BY <1>4, <1>5, <1>6
  <2>2. Delta(Wrap(H), Wrap(T)) = H - T
    BY <1>5, <1>6, <2>1, Near
  <2>3. k <= H - T
    BY <1>7, <2>2
  <2>. QED
    BY <1>4, <1>5, <1>6, <1>8, <2>3, Numbers DEF Roomy
<1>12. Alike(con, s, T + k)
  BY <1>9, <1>11
<1>. QED
  BY <1>10, <1>12 DEF Alike

(* WithinDelay, for every size that is Roomy: the gate of LS_PASS, which   *)
(* runs no tick past the watermark, keeps the two consoles within d + 1    *)
(* ticks, and what a console has heard within 2d + 1 ticks of its own.     *)
THEOREM DelayKept == Roomy => (Spec => []WithinDelay)
<1>. SUFFICES ASSUME Roomy PROVE Spec => []WithinDelay
  OBVIOUS
<1>1. Timely => WithinDelay
  BY TimelyDelay
<1>. QED
  BY <1>1, TimelyAlways, PTL

(* InputsAgree, for every size that is Roomy: wherever the frames are when *)
(* a console stalls, asks for a resync, pushes or is pushed to, two that   *)
(* are on one epoch hold the same inputs from the tick of the one behind   *)
(* on, in the ring pages that LS_PASS runs every tick from.                *)
THEOREM LockstepHolds == Roomy => (Spec => []InputsAgree)
<1>. SUFFICES ASSUME Roomy PROVE Spec => []InputsAgree
  OBVIOUS
<1>1. Timely => InputsAgree
  BY TimelyAgree
<1>. QED
  BY <1>1, TimelyAlways, PTL

-----------------------------------------------------------------------------
(* The two game states.  B[e] is the image both consoles had when they     *)
(* began epoch e, and every part that was changed since has a label of its *)
(* own: a part both have in common is still that of the image (Apart), and *)
(* one that is still the image's now was so in every checksum taken since  *)
(* (Valid).                                                                *)
Bases == [Nat -> [Parts -> Nat]]
Valid(w, b, sum) == \A p \in Summed : w[p] = b[p] => sum[p] = b[p]
Apart(w, v, b) == \A p \in Parts : w[p] = v[p] => w[p] = b[p]
Recorded(m, b) ==
  \A x \in CrcSlots :
    m.crc[x].t = TickSpan - 1 \/ Valid(m.world, b, m.crc[x].sum)

(* On the line s to the guest the epoch goes up behind an END, from the    *)
(* guest's to the host's: frame i is of epoch G[i].                        *)
Numbered(s, lo, hi, r, G) ==
  /\ G[1] = lo
  /\ \A i \in 1 .. Len(s) :
       G[i + 1] = IF s[i].type = "END" THEN G[i] + 1 ELSE G[i]
  /\ \A i \in 1 .. Len(s) + 1 : G[i] <= hi
  /\ r => G[Len(s) + 1] = hi

(* What frame f of epoch e tells of the host's memory m.                   *)
Tells(f, e, m, B) ==
  /\ f.type = "CRC" => CrcDue(f.tick) /\ Valid(m.world, B[e], f.sum)
  /\ f.type = "CHUNK" => e < m.epoch /\ f.data = B[e + 1][f.pos]

(* m is the host's memory and n the guest's, g the labels given out, and   *)
(* S has the reports that may be on the line to the host.                  *)
Worlds(S, m, n, s, r, g, B, G) ==
  /\ \A p \in Parts : /\ m.world[p] <= g /\ n.world[p] <= g
                      /\ \A e \in Nat : B[e][p] <= g
  /\ Numbered(s, n.epoch, m.epoch, r, G)
  /\ \A i \in 1 .. Len(s) : Tells(s[i], G[i], m, B)
  /\ Recorded(m, B[m.epoch])
  /\ n.epoch = m.epoch \/ (~n.dropped /\ ~n.hold) =>
       Apart(m.world, n.world, B[n.epoch])
  /\ ~n.dropped /\ ~n.hold => Recorded(n, B[n.epoch])
  /\ ~n.dropped /\ n.hold =>
       \A p \in n.applied : /\ n.epoch < m.epoch
                            /\ n.world[p] = B[n.epoch + 1][p]
  /\ \A sum \in S : Valid(n.world, B[n.epoch], sum)

Stands(S, m, n, s, r, g) ==
  \E B \in Bases, G \in [Nat -> Nat] : Worlds(S, m, n, s, r, g, B, G)

(* A checksum taken now will do,                                           *)
LEMMA OwnValid == ASSUME NEW w, NEW b PROVE Valid(w, b, Cksum(w))
BY DEF Valid, Cksum

(* also among those reported to the host.                                  *)
LEMMA StandsMore ==
  ASSUME NEW S, NEW m, NEW n, NEW s, NEW r, NEW g, Stands(S, m, n, s, r, g)
  PROVE  Stands(S \cup {Cksum(n.world)}, m, n, s, r, g)
<1>. DEFINE S2 == S \cup {Cksum(n.world)}
<1>1. PICK B \in Bases, G \in [Nat -> Nat] : Worlds(S, m, n, s, r, g, B, G)
  BY DEF Stands
<1>2. \A sum \in S2 : Valid(n.world, B[n.epoch], sum)
  BY <1>1, OwnValid DEF Worlds
<1>3. Worlds(S2, m, n, s, r, g, B, G)
  BY <1>1, <1>2 DEF Worlds
<1>. QED
  BY <1>3 DEF Stands

(* A step that leaves a console its game state, but for a record.          *)
Mild(m, m2) ==
  /\ m2.world = m.world /\ m2.epoch = m.epoch
  /\ \A x \in CrcSlots : \/ m2.crc[x] = m.crc[x]
                         \/ m2.crc[x].t = TickSpan - 1
                         \/ m2.crc[x].sum = Cksum(m.world)

LEMMA MildRecorded ==
  ASSUME NEW m, NEW m2, Mild(m, m2), NEW b, Recorded(m, b)
  PROVE  Recorded(m2, b)
<1>. SUFFICES ASSUME NEW x \in CrcSlots, m2.crc[x].t # TickSpan - 1
              PROVE  Valid(m2.world, b, m2.crc[x].sum)
  BY DEF Recorded
<1>1. m2.world = m.world
  BY DEF Mild
<1>2. CASE m2.crc[x] = m.crc[x]
  BY <1>1, <1>2 DEF Recorded
<1>3. CASE m2.crc[x].sum = Cksum(m.world)
  BY <1>1, <1>3, OwnValid
<1>. QED
  BY <1>2, <1>3 DEF Mild

LEMMA HostKeeps ==
  ASSUME NEW S, NEW m, NEW n, NEW s, NEW r, NEW g, Stands(S, m, n, s, r, g),
         NEW m2, Mild(m, m2)
  PROVE  Stands(S, m2, n, s, r, g)
<1>1. PICK B \in Bases, G \in [Nat -> Nat] : Worlds(S, m, n, s, r, g, B, G)
  BY DEF Stands
<1>2. m2.world = m.world /\ m2.epoch = m.epoch
  BY DEF Mild
<1>3. Recorded(m2, B[m2.epoch])
  BY <1>1, <1>2, MildRecorded DEF Worlds
<1>4. \A i \in 1 .. Len(s) : Tells(s[i], G[i], m2, B)
  BY <1>1, <1>2 DEF Worlds, Tells
<1>5. Worlds(S, m2, n, s, r, g, B, G)
  BY <1>1, <1>2, <1>3, <1>4 DEF Worlds
<1>. QED
  BY <1>5 DEF Stands

(* The guest has no part of an image that was not put in place.            *)
Eases(n, n2) ==
  /\ ~n2.dropped => ~n.dropped
  /\ ~n2.dropped /\ ~n2.hold => ~n.hold
  /\ ~n2.dropped /\ n2.hold =>
       n2.applied = {} \/ (n.hold /\ n2.applied = n.applied)

LEMMA GuestKeeps ==
  ASSUME NEW S, NEW m, NEW n, NEW s, NEW r, NEW g, Stands(S, m, n, s, r, g),
         NEW n2, Mild(n, n2), Eases(n, n2)
  PROVE  Stands(S, m, n2, s, r, g)
<1>1. PICK B \in Bases, G \in [Nat -> Nat] : Worlds(S, m, n, s, r, g, B, G)
  BY DEF Stands
<1>2. n2.world = n.world /\ n2.epoch = n.epoch
  BY DEF Mild
<1>3. ~n2.dropped /\ ~n2.hold => Recorded(n2, B[n2.epoch])
  BY <1>1, <1>2, MildRecorded DEF Worlds, Eases
<1>4. ~n2.dropped /\ n2.hold =>
        \A p \in n2.applied : /\ n2.epoch < m.epoch
                              /\ n2.world[p] = B[n2.epoch + 1][p]
  BY <1>1, <1>2 DEF Worlds, Eases
<1>5. n2.epoch = m.epoch \/ (~n2.dropped /\ ~n2.hold) =>
        Apart(m.world, n2.world, B[n2.epoch])
  BY <1>1, <1>2 DEF Worlds, Eases
<1>6. Worlds(S, m, n2, s, r, g, B, G)
  BY <1>1, <1>2, <1>3, <1>4, <1>5 DEF Worlds
<1>. QED
  BY <1>6 DEF Stands

(* (the places of a line one longer)                                       *)
LEMMA OneLonger ==
  ASSUME NEW N \in Nat
  PROVE  /\ 1 # N + 2 /\ N + 1 \in Nat /\ N + 1 # N + 2 /\ (N + 1) + 1 = N + 2
         /\ \A i \in 1 .. N : i \in Nat /\ i + 1 \in Nat
         /\ \A i \in 1 .. N : i # N + 2 /\ i + 1 # N + 2
         /\ \A i \in 1 .. N + 1 : i \in 1 .. N \/ i = N + 1
         /\ \A i \in 1 .. N + 1 : i # N + 2
         /\ \A i \in 1 .. N + 2 : i \in 1 .. N + 1 \/ i = N + 2
         /\ 1 \in 1 .. N + 1 /\ 1 + 1 = 2
         /\ \A i \in 1 .. N : i + 1 \in 1 .. N + 1
         /\ \A i \in 1 .. N + 1 : i \in Nat /\ i + 1 \in 1 .. (N + 1) + 1
OBVIOUS

(* The host writes a frame that is no part of a push: its input, or a      *)
(* report of the tick it runs.                                             *)
LEMMA LineGrows ==
  ASSUME NEW S, NEW m, NEW n, NEW s, NEW r \in BOOLEAN, NEW g,
         Stands(S, m, n, s, r, g), NEW s2, NEW f, Len(s) \in Nat,
         Len(s2) = Len(s) + 1, \A i \in 1 .. Len(s) : s2[i] = s[i],
         s2[Len(s2)] = f, f.type \notin {"CHUNK", "END"},
         f.type = "CRC" => CrcDue(f.tick) /\ f.sum = Cksum(m.world)
  PROVE  Stands(S, m, n, s2, r, g)
<1>1. PICK B \in Bases, G \in [Nat -> Nat] : Worlds(S, m, n, s, r, g, B, G)
  BY DEF Stands
<1>. DEFINE N == Len(s)
            G2 == [G EXCEPT ![N + 2] = G[N + 1]]
<1>2. /\ G2 \in [Nat -> Nat] /\ G2[N + 2] = G[N + 1]
      /\ \A i \in Nat : i # N + 2 => G2[i] = G[i]
  BY <1>1
<1>3. N \in Nat /\ Len(s2) = N + 1
  OBVIOUS
<1>4. Numbered(s, n.epoch, m.epoch, r, G)
  BY <1>1 DEF Worlds
<1>. HIDE DEF G2, N
<1>5. /\ G2[1] = G[1] /\ G2[N + 1] = G[N + 1]
      /\ \A i \in 1 .. N : G2[i] = G[i] /\ G2[i + 1] = G[i + 1]
  BY <1>2, <1>3, OneLonger
<1>6. \A i \in 1 .. N + 1 : i \in 1 .. N \/ i = N + 1
  BY <1>3
<1>7. \A i \in 1 .. N : s2[i] = s[i]
  BY DEF N
<1>8. s2[N + 1] = f
  BY <1>3
<1>9. Numbered(s2, n.epoch, m.epoch, r, G2)
  <2>1. G2[1] = n.epoch
    BY <1>4, <1>5 DEF Numbered
  <2>2. \A i \in 1 .. N + 1 :
          G2[i + 1] = IF s2[i].type = "END" THEN G2[i] + 1 ELSE G2[i]
    <3>1. \A i \in 1 .. N :
            G2[i + 1] = IF s2[i].type = "END" THEN G2[i] + 1 ELSE G2[i]
      BY <1>4, <1>5, <1>7 DEF Numbered, N
    <3>2. G2[(N + 1) + 1] = IF s2[N + 1].type = "END" THEN G2[N + 1] + 1
                            ELSE G2[N + 1]
      <4>1. (N + 1) + 1 = N + 2
        BY <1>3
      <4>. QED
        BY <1>2, <1>5, <1>8, <4>1
    <3>. QED
      BY <1>6, <3>1, <3>2
  <2>3. \A i \in 1 .. N + 2 : G2[i] <= m.epoch
    <3>1. \A i \in 1 .. N + 1 : G[i] <= m.epoch
      BY <1>4 DEF Numbered, N
    <3>2. \A i \in 1 .. N + 2 : i \in 1 .. N + 1 \/ i = N + 2
      BY <1>3
    <3>3. N + 1 \in 1 .. N + 1 /\ \A i \in 1 .. N + 1 : i \in Nat /\ i # N + 2
      BY <1>3
    <3>. QED
      BY <1>2, <3>1, <3>2, <3>3
  <2>4. r => G2[N + 2] = m.epoch
    <3>1. r => G[N + 1] = m.epoch
      BY <1>4 DEF Numbered, N
    <3>2. G2[N + 2] = G[N + 1]
      BY <1>2
    <3>. QED
      BY <3>1, <3>2, Zenon
  <2>5. Len(s2) + 1 = N + 2
    BY <1>3, OneLonger, Zenon
  <2>. QED
    BY <1>3, <2>1, <2>2, <2>3, <2>4, <2>5 DEF Numbered
<1>10. \A i \in 1 .. Len(s2) : Tells(s2[i], G2[i], m, B)
  <2>1. \A i \in 1 .. N : Tells(s[i], G[i], m, B)
    BY <1>1 DEF Worlds, N
  <2>2. Tells(f, G[N + 1], m, B)
    BY OwnValid DEF Tells
  <2>. QED
    BY <1>3, <1>5, <1>6, <1>7, <1>8, <2>1, <2>2
<1>11. Worlds(S, m, n, s2, r, g, B, G2)
  BY <1>1, <1>9, <1>10 DEF Worlds
<1>. QED
  BY <1>2, <1>11 DEF Stands

(* The guest reads a frame: what is left of the line is numbered.          *)
Shorter(s, s2) ==
  /\ Len(s) \in Nat \ {0} /\ Len(s2) = Len(s) - 1
  /\ \A i \in 1 .. Len(s2) : s2[i] = s[i + 1]

Past(f, e) == IF f.type = "END" THEN e + 1 ELSE e

TakenOn(m, n, s, s2, r, B, G2) ==
  /\ Tells(s[1], n.epoch, m, B)
  /\ Numbered(s2, Past(s[1], n.epoch), m.epoch, r, G2)
  /\ \A i \in 1 .. Len(s2) : Tells(s2[i], G2[i], m, B)

LEMMA LineTaken ==
  ASSUME NEW S, NEW m, NEW n, NEW s, NEW r \in BOOLEAN, NEW g, NEW B,
         NEW G \in [Nat -> Nat], Worlds(S, m, n, s, r, g, B, G),
         NEW s2, Shorter(s, s2)
  PROVE  \E G2 \in [Nat -> Nat] : TakenOn(m, n, s, s2, r, B, G2)
<1>. DEFINE G2 == [i \in Nat |-> G[i + 1]]
            N == Len(s2)
            e == Past(s[1], n.epoch)
<1>1. Numbered(s, n.epoch, m.epoch, r, G)
  BY DEF Worlds
<1>2. \A i \in 1 .. Len(s) : Tells(s[i], G[i], m, B)
  BY DEF Worlds
<1>3. G2 \in [Nat -> Nat] /\ \A i \in Nat : G2[i] = G[i + 1]
  OBVIOUS
<1>4. N \in Nat /\ Len(s) = N + 1
  BY DEF Shorter
<1>5. \A i \in 1 .. N : s2[i] = s[i + 1]
  BY DEF Shorter
<1>. HIDE DEF G2, N, e
<1>6. /\ 1 \in 1 .. N + 1 /\ 1 + 1 = 2 /\ N + 1 \in Nat
      /\ \A i \in 1 .. N : i \in Nat /\ i + 1 \in Nat /\ i + 1 \in 1 .. N + 1
      /\ \A i \in 1 .. N + 1 : i \in Nat /\ i + 1 \in 1 .. (N + 1) + 1
  BY <1>4, OneLonger
<1>7. G[1] = n.epoch
  BY <1>1 DEF Numbered
<1>8. G2[1] = e
  <2>1. G[1 + 1] = IF s[1].type = "END" THEN G[1] + 1 ELSE G[1]
    BY <1>1, <1>4, <1>6 DEF Numbered
  <2>. QED
    BY <1>3, <1>6, <1>7, <2>1 DEF e, Past
<1>9. Numbered(s2, e, m.epoch, r, G2)
  <2>1. \A i \in 1 .. N :
          G2[i + 1] = IF s2[i].type = "END" THEN G2[i] + 1 ELSE G2[i]
    <3>. TAKE i \in 1 .. N
    <3>1. G[(i + 1) + 1] = IF s[i + 1].type = "END" THEN G[i + 1] + 1
                           ELSE G[i + 1]
      BY <1>1, <1>4, <1>6 DEF Numbered
    <3>2. G2[i + 1] = G[(i + 1) + 1] /\ G2[i] = G[i + 1] /\ s2[i] = s[i + 1]
      BY <1>3, <1>5, <1>6
    <3>. QED
      BY <3>1, <3>2, Zenon
  <2>2. \A i \in 1 .. N + 1 : G2[i] <= m.epoch
    <3>1. \A i \in 1 .. (N + 1) + 1 : G[i] <= m.epoch
      BY <1>1, <1>4, Zenon DEF Numbered
    <3>. QED
      BY <1>3, <1>6, <3>1
  <2>3. r => G2[N + 1] = m.epoch
    <3>1. r => G[(N + 1) + 1] = m.epoch
      BY <1>1, <1>4, Zenon DEF Numbered
    <3>. QED
      BY <1>3, <1>6, <3>1, Zenon
  <2>. QED
    BY <1>8, <2>1, <2>2, <2>3 DEF Numbered, N
<1>10. \A i \in 1 .. N : Tells(s2[i], G2[i], m, B)
  BY <1>2, <1>3, <1>4, <1>5, <1>6
<1>11. Tells(s[1], n.epoch, m, B)
  BY <1>2, <1>4, <1>6, <1>7
<1>. QED
  BY <1>3, <1>9, <1>10, <1>11 DEF N, e, TakenOn

(* A frame that is no part of an image leaves the game states alone;       *)
LEMMA TakenStands ==
  ASSUME NEW S, NEW m, NEW n, NEW s, NEW r \in BOOLEAN, NEW g,
         Stands(S, m, n, s, r, g),
         NEW s2, Shorter(s, s2), s[1].type # "END"
  PROVE  Stands(S, m, n, s2, r, g)
<1>1. PICK B \in Bases, G \in [Nat -> Nat] : Worlds(S, m, n, s, r, g, B, G)
  BY DEF Stands
<1>2. PICK G2 \in [Nat -> Nat] : TakenOn(m, n, s, s2, r, B, G2)
  BY <1>1, LineTaken
<1>3. Worlds(S, m, n, s2, r, g, B, G2)
  BY <1>1, <1>2 DEF Worlds, TakenOn, Past
<1>. QED
  BY <1>3 DEF Stands

(* a chunk puts a part of the next epoch's image in place,                 *)
LEMMA ChunkStands ==
  ASSUME NEW S, NEW m \in Console, NEW n \in Console, NEW s,
         NEW r \in BOOLEAN, NEW g, Stands(S, m, n, s, r, g),
         NEW s2, Shorter(s, s2), s[1].type = "CHUNK",
         s[1].pos \in Parts, n.hold, NEW n2, n2 = PutChunk(n, s[1])
  PROVE  Stands({}, m, n2, s2, r, g)
<1>. DEFINE f == s[1]
<1>1. PICK B \in Bases, G \in [Nat -> Nat] : Worlds(S, m, n, s, r, g, B, G)
  BY DEF Stands
<1>2. PICK G2 \in [Nat -> Nat] : TakenOn(m, n, s, s2, r, B, G2)
  BY <1>1, LineTaken
<1>3. Tells(f, n.epoch, m, B)
  BY <1>2 DEF TakenOn
<1>4. /\ n2.world = [n.world EXCEPT ![f.pos] = f.data] /\ n2.hold
      /\ n2.applied = n.applied \cup {f.pos} /\ n2.epoch = n.epoch
      /\ n2.dropped = n.dropped
  BY DEF PutChunk, Console
<1>5. n.epoch < m.epoch /\ f.data = B[n.epoch + 1][f.pos]
  BY <1>3 DEF Tells
<1>6. n.world \in [Parts -> Label] /\ f.pos \in Parts /\ n.applied \subseteq Parts
      /\ n.epoch \in Nat /\ m.epoch \in Nat
  BY DEF Console
<1>. HIDE DEF f
<1>7. /\ n2.world[f.pos] = B[n.epoch + 1][f.pos]
      /\ \A p \in Parts : p # f.pos => n2.world[p] = n.world[p]
  <2>1. n2.world[f.pos] = f.data
    BY <1>4, <1>6
  <2>2. \A p \in Parts : p # f.pos => n2.world[p] = n.world[p]
    BY <1>4, <1>6
  <2>. QED
    BY <1>5, <2>1, <2>2
<1>8. n.epoch + 1 \in Nat /\ n.epoch # m.epoch
  BY <1>5, <1>6
<1>9. \A p \in Parts : /\ m.world[p] <= g /\ n2.world[p] <= g
                       /\ \A x \in Nat : B[x][p] <= g
  BY <1>1, <1>6, <1>7, <1>8 DEF Worlds
<1>10. ~n2.dropped => \A p \in n2.applied : /\ n2.epoch < m.epoch
                           /\ n2.world[p] = B[n2.epoch + 1][p]
  <2>. SUFFICES ASSUME ~n2.dropped, NEW p \in n2.applied
                PROVE  n2.world[p] = B[n.epoch + 1][p]
    <3>1. n2.epoch = n.epoch /\ n.epoch < m.epoch
      BY <1>4, <1>5
    <3>. QED
      BY <3>1
  <2>1. CASE p = f.pos
    BY <1>7, <2>1
  <2>2. CASE p # f.pos
    <3>1. p \in n.applied /\ p \in Parts
      BY <1>4, <1>6, <2>2
    <3>2. n.world[p] = B[n.epoch + 1][p]
      BY <1>1, <1>4, <3>1 DEF Worlds
    <3>. QED
      BY <1>7, <2>2, <3>1, <3>2
  <2>. QED
    BY <2>1, <2>2
<1>11. Recorded(m, B[m.epoch])
  BY <1>1 DEF Worlds
<1>12. /\ Numbered(s2, n2.epoch, m.epoch, r, G2)
       /\ \A i \in 1 .. Len(s2) : Tells(s2[i], G2[i], m, B)
  BY <1>2, <1>4 DEF TakenOn, Past
<1>13. Worlds({}, m, n2, s2, r, g, B, G2)
  BY <1>4, <1>5, <1>8, <1>9, <1>10, <1>11, <1>12 DEF Worlds
<1>. QED
  BY <1>13 DEF Stands

(* and the END begins that epoch with the image whole.                     *)
LEMMA EndStands ==
  ASSUME NEW S, NEW m \in Console, NEW n \in Console, NEW s,
         NEW r \in BOOLEAN, NEW g, Stands(S, m, n, s, r, g),
         NEW s2, Shorter(s, s2), s[1].type = "END",
         ~n.dropped, n.hold, n.applied = Parts, NEW n2, n2 = Rebase(n)
  PROVE  Stands({}, m, n2, s2, r, g)
<1>1. PICK B \in Bases, G \in [Nat -> Nat] : Worlds(S, m, n, s, r, g, B, G)
  BY DEF Stands
<1>2. PICK G2 \in [Nat -> Nat] : TakenOn(m, n, s, s2, r, B, G2)
  BY <1>1, LineTaken
<1>3. /\ n2.world = n.world /\ ~n2.hold /\ n2.epoch = n.epoch + 1
      /\ n2.crc = NoCrc
  BY ZenonT(40) DEF Rebase, Console
<1>4. \A p \in Parts : n2.world[p] = B[n2.epoch][p]
  BY <1>1, <1>3 DEF Worlds
<1>5. Apart(m.world, n2.world, B[n2.epoch])
  BY <1>4 DEF Apart
<1>6. Recorded(n2, B[n2.epoch])
  BY <1>3 DEF Recorded, NoCrc
<1>7. Numbered(s2, n2.epoch, m.epoch, r, G2)
  BY <1>2, <1>3 DEF TakenOn, Past
<1>8. Worlds({}, m, n2, s2, r, g, B, G2)
  BY <1>1, <1>2, <1>3, <1>5, <1>6, <1>7 DEF Worlds, TakenOn
<1>. QED
  BY <1>8 DEF Stands

(* (the places of a line cut behind k frames)                              *)
LEMMA CutPlaces ==
  ASSUME NEW N \in Nat, NEW k \in 0 .. N, NEW M \in {k, k + 1}
  PROVE  /\ \A i \in 1 .. M : i \in 1 .. k \/ (i = k + 1 /\ i > k)
         /\ \A i \in 1 .. M + 1 : i \in 1 .. k + 1 \/ i = k + 2
         /\ \A i \in 1 .. k : i \in 1 .. N /\ i \in 1 .. k + 1
                             /\ i + 1 \in 1 .. k + 1
         /\ \A i \in 1 .. k + 1 : i \in Nat /\ i <= k + 1 /\ i \in 1 .. N + 1
         /\ k + 1 \in 1 .. k + 1 /\ k + 2 \in Nat /\ ~(k + 2 <= k + 1)
         /\ (k + 1) + 1 = k + 2 /\ 1 \in 1 .. k + 1
OBVIOUS

(* The room lost leaves frames of the line, and a LEFT.                    *)
LEMMA CutStands ==
  ASSUME NEW S, NEW m, NEW n, NEW s, NEW r \in BOOLEAN, NEW g,
         Stands(S, m, n, s, r, g), NEW s2, NEW k, Cut(s, s2, k)
  PROVE  Stands(S, m, n, s2, FALSE, g)
<1>1. PICK B \in Bases, G \in [Nat -> Nat] : Worlds(S, m, n, s, r, g, B, G)
  BY DEF Stands
<1>. DEFINE G2 == [i \in Nat |-> IF i <= k + 1 THEN G[i] ELSE G[k + 1]]
<1>2. /\ Len(s) \in Nat /\ k \in 0 .. Len(s) /\ Len(s2) \in {k, k + 1}
      /\ \A i \in 1 .. k : s2[i] = s[i]
      /\ \A i \in 1 .. Len(s2) : i > k => s2[i].type = "LEFT"
  BY DEF Cut
<1>3. /\ \A i \in 1 .. Len(s2) : i \in 1 .. k \/ (i = k + 1 /\ i > k)
      /\ \A i \in 1 .. Len(s2) + 1 : i \in 1 .. k + 1 \/ i = k + 2
      /\ \A i \in 1 .. k : i \in 1 .. Len(s) /\ i \in 1 .. k + 1
                          /\ i + 1 \in 1 .. k + 1
      /\ \A i \in 1 .. k + 1 : i \in Nat /\ i <= k + 1
                               /\ i \in 1 .. Len(s) + 1
      /\ k + 1 \in 1 .. k + 1 /\ k + 2 \in Nat /\ ~(k + 2 <= k + 1)
      /\ (k + 1) + 1 = k + 2 /\ 1 \in 1 .. k + 1
  BY <1>2, CutPlaces
<1>4. /\ G2 \in [Nat -> Nat] /\ \A i \in 1 .. k + 1 : G2[i] = G[i]
      /\ G2[k + 2] = G[k + 1]
  <2>1. G2 \in [Nat -> Nat]
    BY <1>3
  <2>2. \A i \in 1 .. k + 1 : G2[i] = G[i]
    BY <1>3
  <2>. QED
    BY <1>3, <2>1, <2>2
<1>5. Numbered(s, n.epoch, m.epoch, r, G)
  BY <1>1 DEF Worlds
<1>. HIDE DEF G2
<1>6. Numbered(s2, n.epoch, m.epoch, FALSE, G2)
  <2>1. G2[1] = n.epoch
    BY <1>3, <1>4, <1>5 DEF Numbered
  <2>2. \A i \in 1 .. k :
          G2[i + 1] = IF s2[i].type = "END" THEN G2[i] + 1 ELSE G2[i]
    <3>. TAKE i \in 1 .. k
    <3>1. G[i + 1] = IF s[i].type = "END" THEN G[i] + 1 ELSE G[i]
      BY <1>3, <1>5 DEF Numbered
    <3>. QED
      BY <1>2, <1>3, <1>4, <3>1
  <2>3. G2[(k + 1) + 1] = G2[k + 1]
    BY <1>3, <1>4
  <2>4. \A i \in 1 .. Len(s2) :
          G2[i + 1] = IF s2[i].type = "END" THEN G2[i] + 1 ELSE G2[i]
    BY <1>2, <1>3, <2>2, <2>3
  <2>5. \A i \in 1 .. k + 1 : G2[i] <= m.epoch
    BY <1>3, <1>4, <1>5 DEF Numbered
  <2>6. \A i \in 1 .. Len(s2) + 1 : G2[i] <= m.epoch
    BY <1>3, <1>4, <2>5
  <2>. QED
    BY <2>1, <2>4, <2>6 DEF Numbered
<1>7. \A i \in 1 .. Len(s2) : Tells(s2[i], G2[i], m, B)
  <2>. TAKE i \in 1 .. Len(s2)
  <2>1. CASE i \in 1 .. k
    <3>1. Tells(s[i], G[i], m, B) /\ s2[i] = s[i]
      BY <1>1, <1>2, <1>3, <2>1 DEF Worlds
    <3>2. G2[i] = G[i]
      BY <1>3, <1>4, <2>1
    <3>. QED
      BY <3>1, <3>2
  <2>2. CASE s2[i].type = "LEFT"
    BY <2>2 DEF Tells
  <2>. QED
    BY <1>2, <1>3, <2>1, <2>2
<1>8. Worlds(S, m, n, s2, FALSE, g, B, G2)
  BY <1>1, <1>6, <1>7 DEF Worlds
<1>. QED
  BY <1>4, <1>8 DEF Stands

(* A part changed gets a label no image has and no other part.             *)
Below(w, v, b, g) ==
  /\ w \in [Parts -> Nat] /\ v \in [Parts -> Nat] /\ b \in [Parts -> Nat]
  /\ \A q \in Parts : w[q] <= g /\ v[q] <= g /\ b[q] <= g

Changed(w, w2, g) == \E p : w2 = [w EXCEPT ![p] = g + 1]

Renewed(w, w2, v, b, g) ==
  /\ \A q \in Parts : w2[q] <= g + 1 /\ v[q] <= g + 1 /\ b[q] <= g + 1
  /\ \A sum : Valid(w, b, sum) => Valid(w2, b, sum)
  /\ Apart(w, v, b) => Apart(w2, v, b)
  /\ Apart(v, w, b) => Apart(v, w2, b)

LEMMA NewLabel ==
  ASSUME NEW g \in Nat, NEW w, NEW v, NEW b, Below(w, v, b, g),
         NEW w2, Changed(w, w2, g)
  PROVE  Renewed(w, w2, v, b, g)
<1>1. \A q \in Parts : w2[q] = w[q] \/ w2[q] = g + 1
  BY DEF Changed, Below
<1>2. \A q \in Parts : /\ w[q] \in Nat /\ v[q] \in Nat /\ b[q] \in Nat
                       /\ w[q] <= g /\ v[q] <= g /\ b[q] <= g
                       /\ v[q] # g + 1 /\ b[q] # g + 1
  BY DEF Below
<1>3. Summed \subseteq Parts
  BY SizeAssumption DEF Parts
<1>4. \A q \in Parts : w2[q] <= g + 1 /\ v[q] <= g + 1 /\ b[q] <= g + 1
  BY <1>1, <1>2
<1>5. \A sum : Valid(w, b, sum) => Valid(w2, b, sum)
  BY <1>1, <1>2, <1>3 DEF Valid
<1>6. /\ Apart(w, v, b) => Apart(w2, v, b)
      /\ Apart(v, w, b) => Apart(v, w2, b)
  BY <1>1, <1>2 DEF Apart
<1>. QED
  BY <1>4, <1>5, <1>6 DEF Renewed

Relabels(m, m2, g) ==
  /\ Changed(m.world, m2.world, g)
  /\ m2.epoch = m.epoch /\ m2.crc = m.crc /\ m2.hold = m.hold
  /\ m2.applied = m.applied /\ m2.dropped = m.dropped

LEMMA HostRelabels ==
  ASSUME NEW S, NEW m \in Console, NEW n \in Console, NEW s, NEW r,
         NEW g \in Nat, Stands(S, m, n, s, r, g),
         NEW m2, Relabels(m, m2, g)
  PROVE  Stands(S, m2, n, s, r, g + 1)
<1>1. PICK B \in Bases, G \in [Nat -> Nat] : Worlds(S, m, n, s, r, g, B, G)
  BY DEF Stands
<1>2. Changed(m.world, m2.world, g)
  BY DEF Relabels
<1>3. m2.epoch = m.epoch /\ m2.crc = m.crc
  BY DEF Relabels
<1>4. /\ m.world \in [Parts -> Nat] /\ n.world \in [Parts -> Nat]
      /\ n.epoch \in Nat /\ m.epoch \in Nat
  BY DEF Console, Label
<1>5. \A e \in Nat : Below(m.world, n.world, B[e], g)
  BY <1>1, <1>4 DEF Bases, Worlds, Below
<1>6. \A e \in Nat : Renewed(m.world, m2.world, n.world, B[e], g)
  BY <1>2, <1>5, NewLabel
<1>7. \A q \in Parts : /\ m2.world[q] <= g + 1 /\ n.world[q] <= g + 1
                       /\ \A e \in Nat : B[e][q] <= g + 1
  BY <1>4, <1>6 DEF Renewed
<1>8. Recorded(m2, B[m2.epoch])
  BY <1>1, <1>3, <1>4, <1>6 DEF Worlds, Recorded, Renewed
<1>9. \A i \in 1 .. Len(s) : Tells(s[i], G[i], m2, B)
  <2>. TAKE i \in 1 .. Len(s)
  <2>1. Tells(s[i], G[i], m, B) /\ G[i] \in Nat
    BY <1>1 DEF Worlds
  <2>. QED
    BY <1>3, <1>6, <2>1 DEF Tells, Renewed
<1>10. n.epoch = m2.epoch \/ (~n.dropped /\ ~n.hold) =>
         Apart(m2.world, n.world, B[n.epoch])
  BY <1>1, <1>3, <1>4, <1>6 DEF Worlds, Renewed
<1>11. Worlds(S, m2, n, s, r, g + 1, B, G)
  BY <1>1, <1>3, <1>7, <1>8, <1>9, <1>10 DEF Worlds
<1>. QED
  BY <1>11 DEF Stands

LEMMA GuestRelabels ==
  ASSUME NEW S, NEW m \in Console, NEW n \in Console, NEW s, NEW r,
         NEW g \in Nat, Stands(S, m, n, s, r, g),
         NEW n2, Relabels(n, n2, g), ~n.hold
  PROVE  Stands(S, m, n2, s, r, g + 1)
<1>1. PICK B \in Bases, G \in [Nat -> Nat] : Worlds(S, m, n, s, r, g, B, G)
  BY DEF Stands
<1>2. Changed(n.world, n2.world, g)
  BY DEF Relabels
<1>3. /\ n2.epoch = n.epoch /\ n2.crc = n.crc /\ ~n2.hold
      /\ n2.dropped = n.dropped
  BY DEF Relabels
<1>4. /\ m.world \in [Parts -> Nat] /\ n.world \in [Parts -> Nat]
      /\ n.epoch \in Nat /\ m.epoch \in Nat
  BY DEF Console, Label
<1>5. \A e \in Nat : Below(n.world, m.world, B[e], g)
  BY <1>1, <1>4 DEF Bases, Worlds, Below
<1>6. \A e \in Nat : Renewed(n.world, n2.world, m.world, B[e], g)
  BY <1>2, <1>5, NewLabel
<1>7. \A q \in Parts : /\ m.world[q] <= g + 1 /\ n2.world[q] <= g + 1
                       /\ \A e \in Nat : B[e][q] <= g + 1
  BY <1>4, <1>6 DEF Renewed
<1>8. ~n2.dropped => Recorded(n2, B[n2.epoch])
  BY <1>1, <1>3, <1>4, <1>6 DEF Worlds, Recorded, Renewed
<1>9. \A sum \in S : Valid(n2.world, B[n2.epoch], sum)
  BY <1>1, <1>3, <1>4, <1>6 DEF Worlds, Renewed
<1>10. n2.epoch = m.epoch \/ (~n2.dropped /\ ~n2.hold) =>
         Apart(m.world, n2.world, B[n2.epoch])
  BY <1>1, <1>3, <1>4, <1>6 DEF Worlds, Renewed
<1>11. Worlds(S, m, n2, s, r, g + 1, B, G)
  BY <1>1, <1>3, <1>7, <1>8, <1>9, <1>10 DEF Worlds
<1>. QED
  BY <1>11 DEF Stands

(* The host pushes: its game state is the image of the next epoch, and the *)
(* line carries it where there is a room.                                  *)
Ships(s, s2, r, w) ==
  /\ Len(s) \in Nat
  /\ ~r => s2 = s
  /\ r => LET N == Len(s)
          IN  /\ Len(s2) = N + (NParts + 2)
              /\ \A i \in 1 .. N : s2[i] = s[i]
              /\ s2[N + 1].type = "BEGIN"
              /\ \A i \in 1 .. NParts : /\ s2[N + (i + 1)].type = "CHUNK"
                                        /\ s2[N + (i + 1)].pos = i
                                        /\ s2[N + (i + 1)].data = w[i]
              /\ s2[N + (NParts + 2)].type = "END"

LEMMA SentShips ==
  ASSUME NEW ch \in [Seat -> Seq(Frame)], NEW x \in Console, room \in BOOLEAN
  PROVE  Ships(ch[1], Sent(ch, 0, PushFrames(x))[1], room, x.world)
<1>. DEFINE u == PushFrames(x)
            s == ch[1]
            w == s \o u
            M == NParts + 2
<1>1. /\ u \in Seq(Frame) /\ Len(u) = M
      /\ u[1].type = "BEGIN"
      /\ \A i \in 2 .. NParts + 1 : u[i].type = "CHUNK"
      /\ \A i \in 1 .. NParts : u[i + 1].pos = i /\ u[i + 1].data = x.world[i]
      /\ u[M].type = "END"
  BY PushFrame
<1>2. NParts \in Nat
  BY SizeAssumption
<1>3. s \in Seq(Frame) /\ 1 \in Seat /\ Peer(0) = 1
  BY Seats
<1>4. room => Sent(ch, 0, u)[1] = w
  BY <1>3 DEF Sent
<1>5. ~room => Sent(ch, 0, u)[1] = s
  BY DEF Sent
<1>. HIDE DEF u, s
<1>6. /\ Len(w) = Len(s) + Len(u) /\ Len(s) \in Nat
      /\ \A i \in 1 .. Len(s) : w[i] = s[i]
      /\ \A i \in Len(s) + 1 .. Len(s) + Len(u) : w[i] = u[i - Len(s)]
  <2>1. u \in Seq(Frame) /\ s \in Seq(Frame)
    BY <1>1, <1>3
  <2>. QED
    BY <2>1, ConcatProperties, LenProperties
<1>. HIDE DEF w
<1>7. PICK N \in Nat : N = Len(s)
  BY <1>6
<1>8. \A i \in 1 .. M : w[N + i] = u[i]
  <2>. TAKE i \in 1 .. M
  <2>1. N + i \in N + 1 .. N + M /\ (N + i) - N = i
    BY <1>2, <1>7
  <2>. QED
    BY <1>1, <1>6, <1>7, <2>1
<1>9. /\ 1 \in 1 .. M /\ M \in 1 .. M
      /\ \A i \in 1 .. NParts : i + 1 \in 1 .. M /\ i + 1 \in 2 .. NParts + 1
  BY <1>2
<1>10. /\ w[N + 1].type = "BEGIN"
       /\ \A i \in 1 .. NParts : /\ w[N + (i + 1)].type = "CHUNK"
                                 /\ w[N + (i + 1)].pos = i
                                 /\ w[N + (i + 1)].data = x.world[i]
       /\ w[N + M].type = "END"
  <2>. HIDE DEF M
  <2>. QED
    BY <1>1, <1>8, <1>9
<1>11. Len(w) = N + M /\ \A i \in 1 .. N : w[i] = s[i]
  BY <1>1, <1>6, <1>7
<1>. DEFINE v == Sent(ch, 0, u)[1]
<1>12. Ships(s, v, room, x.world)
  <2>1. CASE room
    <3>1. v = w
      BY <1>4, <2>1
    <3>. HIDE DEF v
    <3>. QED
      BY <1>7, <1>10, <1>11, <2>1, <3>1 DEF Ships
  <2>2. CASE ~room
    <3>1. v = s
      BY <1>5, <2>2
    <3>. HIDE DEF v
    <3>. QED
      BY <1>6, <2>2, <3>1 DEF Ships
  <2>. QED
    BY <2>1, <2>2
<1>. QED
  BY <1>12 DEF u, s

(* (the places of a line of N frames with a push behind it)                *)
LEMMA PushPlaces ==
  ASSUME NEW N \in Nat, NEW P \in Nat
  PROVE  /\ \A i \in 1 .. N : i \in Nat /\ i <= N + 1 /\ i + 1 <= N + 1
                              /\ i + 1 \in Nat
         /\ \A i \in 1 .. N + (P + 2) :
              \/ i \in 1 .. N \/ i = N + 1
              \/ \E j \in 1 .. P : i = N + (j + 1)
              \/ i = N + (P + 2)
         /\ 1 \in Nat /\ 1 <= N + 1 /\ N + 1 \in Nat /\ N + 1 <= N + (P + 2)
         /\ N + 2 \in Nat /\ ~(N + 2 <= N + 1) /\ N + 2 <= N + (P + 2)
         /\ (N + 1) + 1 = N + 2
         /\ \A j \in 1 .. P :
              /\ N + (j + 1) \in Nat /\ ~(N + (j + 1) <= N + 1)
              /\ N + (j + 1) <= N + (P + 2)
              /\ (N + (j + 1)) + 1 \in Nat /\ ~((N + (j + 1)) + 1 <= N + 1)
              /\ (N + (j + 1)) + 1 <= N + (P + 2)
         /\ N + (P + 2) \in Nat /\ ~(N + (P + 2) <= N + 1)
         /\ (N + (P + 2)) + 1 \in Nat /\ ~((N + (P + 2)) + 1 <= N + 1)
         /\ ~((N + (P + 2)) + 1 <= N + (P + 2))
         /\ \A i \in 1 .. (N + (P + 2)) + 1 : i \in Nat
<1>1. \A i \in 1 .. N + (P + 2) :
        \/ i \in 1 .. N \/ i = N + 1
        \/ \E j \in 1 .. P : i = N + (j + 1)
        \/ i = N + (P + 2)
  <2>. TAKE i \in 1 .. N + (P + 2)
  <2>. DEFINE j == i - (N + 1)
  <2>1. i \in 1 .. N \/ i = N + 1 \/ j \in 1 .. P \/ i = N + (P + 2)
    OBVIOUS
  <2>2. i = N + (j + 1)
    OBVIOUS
  <2>. QED
    BY <2>1, <2>2
<1>. QED
  BY <1>1

(* The epochs of a line that carries a push.                               *)
ShippedOn(s, s2, lo, e, w, G, G2) ==
  /\ Numbered(s2, lo, e + 1, TRUE, G2)
  /\ \A i \in 1 .. Len(s) : G2[i] = G[i] /\ s2[i] = s[i] /\ G[i] <= e
  /\ \A i \in 1 .. Len(s2) :
       \/ i \in 1 .. Len(s)
       \/ G2[i] = e /\ s2[i].type \in {"BEGIN", "END"}
       \/ /\ G2[i] = e /\ s2[i].type = "CHUNK"
          /\ s2[i].pos \in Parts /\ s2[i].data = w[s2[i].pos]

LEMMA ShipsNumbered ==
  ASSUME NEW s, NEW s2, NEW w, Ships(s, s2, TRUE, w), NEW lo, NEW e \in Nat,
         NEW G \in [Nat -> Nat], Numbered(s, lo, e, TRUE, G)
  PROVE  \E G2 \in [Nat -> Nat] : ShippedOn(s, s2, lo, e, w, G, G2)
<1>. DEFINE N == Len(s)
            L == N + (NParts + 2)
            G2 == [i \in Nat |-> IF i <= N + 1 THEN G[i]
                                 ELSE IF i <= L THEN e ELSE e + 1]
<1>1. NParts \in Nat
  BY SizeAssumption
<1>2. /\ N \in Nat /\ Len(s2) = L
      /\ \A i \in 1 .. N : s2[i] = s[i]
      /\ s2[N + 1].type = "BEGIN"
      /\ \A i \in 1 .. NParts : /\ s2[N + (i + 1)].type = "CHUNK"
                                /\ s2[N + (i + 1)].pos = i
                                /\ s2[N + (i + 1)].data = w[i]
      /\ s2[L].type = "END"
  BY DEF Ships
<1>3. /\ G[1] = lo
      /\ \A i \in 1 .. N :
           G[i + 1] = IF s[i].type = "END" THEN G[i] + 1 ELSE G[i]
      /\ \A i \in 1 .. N + 1 : G[i] <= e
      /\ G[N + 1] = e
  BY DEF Numbered
<1>4. /\ G2 \in [Nat -> Nat]
      /\ \A i \in Nat : /\ i <= N + 1 => G2[i] = G[i]
                        /\ ~(i <= N + 1) /\ i <= L => G2[i] = e
                        /\ ~(i <= N + 1) /\ ~(i <= L) => G2[i] = e + 1
  OBVIOUS
<1>. HIDE DEF G2, N
<1>5. /\ \A i \in 1 .. N : i \in Nat /\ i <= N + 1 /\ i + 1 <= N + 1
                           /\ i + 1 \in Nat
      /\ \A i \in 1 .. L :
           \/ i \in 1 .. N \/ i = N + 1
           \/ \E j \in 1 .. NParts : i = N + (j + 1)
           \/ i = L
      /\ 1 \in Nat /\ 1 <= N + 1 /\ N + 1 \in Nat /\ N + 1 <= L
      /\ N + 2 \in Nat /\ ~(N + 2 <= N + 1) /\ N + 2 <= L
      /\ (N + 1) + 1 = N + 2
      /\ \A j \in 1 .. NParts :
           /\ N + (j + 1) \in Nat /\ ~(N + (j + 1) <= N + 1)
           /\ N + (j + 1) <= L
           /\ (N + (j + 1)) + 1 \in Nat /\ ~((N + (j + 1)) + 1 <= N + 1)
           /\ (N + (j + 1)) + 1 <= L
      /\ L \in Nat /\ ~(L <= N + 1)
      /\ L + 1 \in Nat /\ ~(L + 1 <= N + 1) /\ ~(L + 1 <= L)
      /\ \A i \in 1 .. L + 1 : i \in Nat
  BY <1>1, <1>2, PushPlaces
<1>. HIDE DEF L
<1>6. /\ G2[1] = lo /\ G2[N + 1] = e /\ G2[N + 2] = e
      /\ \A j \in 1 .. NParts : /\ G2[N + (j + 1)] = e
                                /\ G2[(N + (j + 1)) + 1] = e
      /\ G2[L] = e /\ G2[L + 1] = e + 1
  <2>1. G2[1] = lo /\ G2[N + 1] = e
    BY <1>3, <1>4, <1>5
  <2>2. G2[N + 2] = e /\ G2[L] = e
    <3>1. L <= L
      BY <1>5
    <3>. QED
      BY <1>4, <1>5, <3>1
  <2>3. G2[L + 1] = e + 1
    BY <1>4, <1>5
  <2>4. \A j \in 1 .. NParts : /\ G2[N + (j + 1)] = e
                               /\ G2[(N + (j + 1)) + 1] = e
    <3>. TAKE j \in 1 .. NParts
    <3>. DEFINE a == N + (j + 1)
                b == a + 1
    <3>1. /\ a \in Nat /\ ~(a <= N + 1) /\ a <= L
          /\ b \in Nat /\ ~(b <= N + 1) /\ b <= L
      BY <1>5
    <3>. HIDE DEF a, b
    <3>2. G2[a] = e /\ G2[b] = e
      BY <1>4, <3>1
    <3>. QED
      BY <3>2 DEF a, b
  <2>. QED
    BY <2>1, <2>2, <2>3, <2>4
<1>7. \A i \in 1 .. N : G2[i] = G[i] /\ G2[i + 1] = G[i + 1]
  BY <1>4, <1>5
<1>8. \A i \in 1 .. L :
        G2[i + 1] = IF s2[i].type = "END" THEN G2[i] + 1 ELSE G2[i]
  <2>. TAKE i \in 1 .. L
  <2>1. CASE i \in 1 .. N
    <3>1. G[i + 1] = IF s[i].type = "END" THEN G[i] + 1 ELSE G[i]
      BY <1>3, <2>1
    <3>2. s2[i] = s[i] /\ G2[i] = G[i] /\ G2[i + 1] = G[i + 1]
      BY <1>2, <1>7, <2>1
    <3>. QED
      BY <3>1, <3>2, Zenon
  <2>2. CASE i = N + 1
    BY <1>2, <1>5, <1>6, <2>2
  <2>3. CASE \E j \in 1 .. NParts : i = N + (j + 1)
    <3>1. PICK j \in 1 .. NParts : i = N + (j + 1)
      BY <2>3
    <3>2. s2[i].type = "CHUNK" /\ G2[i] = e /\ G2[i + 1] = e
      BY <1>2, <1>6, <3>1, Zenon
    <3>. QED
      BY <3>2
  <2>4. CASE i = L
    BY <1>2, <1>6, <2>4
  <2>. QED
    BY <1>5, <2>1, <2>2, <2>3, <2>4
<1>9. \A i \in 1 .. L + 1 : G2[i] <= e + 1
  <2>. TAKE i \in 1 .. L + 1
  <2>1. i \in Nat
    BY <1>5
  <2>2. i <= N + 1 => G[i] <= e
    <3>1. i <= N + 1 => i \in 1 .. N + 1
      BY <1>2, <2>1
    <3>. QED
      BY <1>3, <3>1
  <2>3. G2[i] \in Nat /\ G[i] \in Nat
    BY <1>4, <2>1
  <2>4. CASE i <= N + 1
    <3>1. G2[i] = G[i] /\ G[i] <= e
      BY <1>4, <2>1, <2>2, <2>4
    <3>. QED
      BY <2>3, <3>1
  <2>5. CASE ~(i <= N + 1)
    <3>1. G2[i] = e \/ G2[i] = e + 1
      BY <1>4, <2>1, <2>5
    <3>. QED
      BY <3>1
  <2>. QED
    BY <2>4, <2>5
<1>10. Numbered(s2, lo, e + 1, TRUE, G2)
  BY <1>2, <1>6, <1>8, <1>9 DEF Numbered
<1>11. \A i \in 1 .. N : G2[i] = G[i] /\ s2[i] = s[i] /\ G[i] <= e
  <2>1. \A i \in 1 .. N : i \in 1 .. N + 1
    BY <1>2
  <2>. QED
    BY <1>2, <1>3, <1>7, <2>1
<1>12. \A i \in 1 .. L :
         \/ i \in 1 .. N
         \/ G2[i] = e /\ s2[i].type \in {"BEGIN", "END"}
         \/ /\ G2[i] = e /\ s2[i].type = "CHUNK"
            /\ s2[i].pos \in Parts /\ s2[i].data = w[s2[i].pos]
  <2>. TAKE i \in 1 .. L
  <2>1. CASE \E j \in 1 .. NParts : i = N + (j + 1)
    <3>1. PICK j \in 1 .. NParts : i = N + (j + 1)
      BY <2>1
    <3>. QED
      BY <1>2, <1>6, <3>1 DEF Parts
  <2>. QED
    BY <1>2, <1>5, <1>6, <2>1
<1>. QED
  BY <1>2, <1>4, <1>10, <1>11, <1>12 DEF N, ShippedOn

(* (an epoch before the last)                                              *)
LEMMA Earlier ==
  ASSUME NEW a \in Nat, NEW e \in Nat, a < e
  PROVE  a < e + 1 /\ a + 1 \in Nat /\ a + 1 <= e
OBVIOUS

(* A push makes the host's game state the image of the next epoch.         *)
LEMMA PushStands ==
  ASSUME NEW S, NEW m \in Console, NEW n \in Console, NEW s,
         NEW r \in BOOLEAN, NEW g, Stands(S, m, n, s, r, g),
         NEW s2, Ships(s, s2, r, m.world), NEW m2, m2.world = m.world,
         m2.epoch = m.epoch + 1, m2.crc = NoCrc
  PROVE  Stands(S, m2, n, s2, r, g)
<1>1. PICK B \in Bases, G \in [Nat -> Nat] : Worlds(S, m, n, s, r, g, B, G)
  BY DEF Stands
<1>. DEFINE e == m.epoch
            B2 == [B EXCEPT ![e + 1] = m.world]
<1>2. /\ e \in Nat /\ m.world \in [Parts -> Nat] /\ n.epoch \in Nat
      /\ m.epoch = e /\ m2.epoch = e + 1 /\ e < e + 1
  BY DEF Console, Label
<1>3. /\ B2 \in Bases /\ B2[e + 1] = m.world
      /\ \A x \in Nat : x <= e => B2[x] = B[x]
      /\ \A x \in Nat : B2[x] = B[x] \/ B2[x] = m.world
  BY <1>2 DEF Bases
<1>4. /\ Numbered(s, n.epoch, e, r, G)
      /\ \A i \in 1 .. Len(s) : Tells(s[i], G[i], m, B)
      /\ \A p \in Parts : /\ m.world[p] <= g /\ n.world[p] <= g
                          /\ \A x \in Nat : B[x][p] <= g
  BY <1>1 DEF Worlds
<1>5. Len(s) \in Nat
  BY DEF Ships
<1>. HIDE DEF B2, e
<1>6. \A i \in 1 .. Len(s) : G[i] \in Nat /\ G[i] <= e
  <2>1. \A i \in 1 .. Len(s) : i \in Nat /\ i \in 1 .. Len(s) + 1
    BY <1>5
  <2>. QED
    BY <1>4, <2>1 DEF Numbered
<1>7. \A i \in 1 .. Len(s) : Tells(s[i], G[i], m2, B2)
  <2>. TAKE i \in 1 .. Len(s)
  <2>1. Tells(s[i], G[i], m, B) /\ G[i] \in Nat /\ G[i] <= e
    BY <1>4, <1>6
  <2>2. s[i].type = "CHUNK" => /\ G[i] < e /\ G[i] < m2.epoch
                               /\ G[i] + 1 \in Nat /\ G[i] + 1 <= e
    <3>1. s[i].type = "CHUNK" => G[i] < e
      BY <1>2, <2>1 DEF Tells
    <3>. QED
      BY <1>2, <2>1, <3>1, Earlier
  <2>. QED
    BY <1>3, <2>1, <2>2 DEF Tells
<1>8. n.epoch <= e
  <2>1. 1 \in 1 .. Len(s) + 1
    BY <1>5
  <2>. QED
    BY <1>4, <2>1 DEF Numbered
<1>9. \E G2 \in [Nat -> Nat] :
        /\ Numbered(s2, n.epoch, e + 1, r, G2)
        /\ \A i \in 1 .. Len(s2) : Tells(s2[i], G2[i], m2, B2)
  <2>1. CASE ~r
    <3>1. Numbered(s, n.epoch, e + 1, r, G)
      <4>1. \A i \in 1 .. Len(s) + 1 : G[i] <= e + 1
        <5>1. \A i \in 1 .. Len(s) + 1 : i \in Nat
          BY <1>5
        <5>2. \A i \in 1 .. Len(s) + 1 : G[i] \in Nat /\ G[i] <= e
          BY <1>4, <5>1 DEF Numbered
        <5>3. \A x \in Nat : x <= e => x <= e + 1
          BY <1>2
        <5>. QED
          BY <5>2, <5>3
      <4>. QED
        BY <1>4, <2>1, <4>1 DEF Numbered
    <3>2. s2 = s
      BY <2>1 DEF Ships
    <3>. QED
      BY <1>7, <3>1, <3>2
  <2>2. CASE r
    <3>1. r = TRUE
      BY <2>2
    <3>2. /\ Ships(s, s2, TRUE, m.world)
          /\ Numbered(s, n.epoch, e, TRUE, G)
      BY <1>4, <3>1
    <3>3. PICK G2 \in [Nat -> Nat] :
            ShippedOn(s, s2, n.epoch, e, m.world, G, G2)
      BY <1>2, <3>2, ShipsNumbered
    <3>4. \A i \in 1 .. Len(s2) : Tells(s2[i], G2[i], m2, B2)
      <4>. TAKE i \in 1 .. Len(s2)
      <4>1. CASE i \in 1 .. Len(s)
        BY <1>7, <3>3, <4>1 DEF ShippedOn
      <4>2. CASE s2[i].type \in {"BEGIN", "END"}
        BY <4>2 DEF Tells
      <4>3. CASE /\ G2[i] = e /\ s2[i].type = "CHUNK"
                 /\ s2[i].pos \in Parts /\ s2[i].data = m.world[s2[i].pos]
        <5>1. G2[i] < m2.epoch
          BY <1>2, <4>3
        <5>2. s2[i].data = B2[G2[i] + 1][s2[i].pos]
          BY <1>3, <4>3
        <5>. QED
          BY <4>3, <5>1, <5>2 DEF Tells
      <4>. QED
        BY <3>3, <4>1, <4>2, <4>3 DEF ShippedOn
    <3>. QED
      BY <3>1, <3>3, <3>4 DEF ShippedOn
  <2>. QED
    BY <2>1, <2>2
<1>10. PICK G2 \in [Nat -> Nat] :
         /\ Numbered(s2, n.epoch, e + 1, r, G2)
         /\ \A i \in 1 .. Len(s2) : Tells(s2[i], G2[i], m2, B2)
  BY <1>9
<1>11. B2[n.epoch] = B[n.epoch] /\ n.epoch # m2.epoch
  BY <1>2, <1>3, <1>8
<1>12. Recorded(m2, B2[m2.epoch])
  BY DEF Recorded, NoCrc
<1>13. \A p \in Parts : /\ m2.world[p] <= g /\ n.world[p] <= g
                        /\ \A x \in Nat : B2[x][p] <= g
  BY <1>3, <1>4
<1>14. ~n.dropped /\ n.hold =>
         \A p \in n.applied : /\ n.epoch < m2.epoch
                              /\ n.world[p] = B2[n.epoch + 1][p]
  <2>. SUFFICES ASSUME ~n.dropped, n.hold, NEW p \in n.applied
                PROVE  /\ n.epoch < m2.epoch
                       /\ n.world[p] = B2[n.epoch + 1][p]
    OBVIOUS
  <2>1. n.epoch < e /\ n.world[p] = B[n.epoch + 1][p]
    BY <1>1, <1>2 DEF Worlds
  <2>2. n.epoch + 1 \in Nat /\ n.epoch + 1 <= e /\ n.epoch < m2.epoch
    BY <1>2, <2>1, Earlier
  <2>. QED
    BY <1>3, <2>1, <2>2
<1>15. ~n.dropped /\ ~n.hold =>
         /\ Apart(m2.world, n.world, B2[n.epoch])
         /\ Recorded(n, B2[n.epoch])
  BY <1>1, <1>11 DEF Worlds
<1>16. \A sum \in S : Valid(n.world, B2[n.epoch], sum)
  BY <1>1, <1>11 DEF Worlds
<1>17. Worlds(S, m2, n, s2, r, g, B2, G2)
  BY <1>2, <1>10, <1>11, <1>12, <1>13, <1>14, <1>15, <1>16
  DEF Worlds
<1>. QED
  BY <1>3, <1>17 DEF Stands

-----------------------------------------------------------------------------
(* The steps of the consoles: a change of one of the two memories,         *)
LEMMA ChangeStands ==
  ASSUME NEW S, NEW k \in [Seat -> Console], NEW s, NEW r, NEW g,
         Stands(S, k[0], k[1], s, r, g), NEW c \in Seat, NEW n,
         Mild(k[c], n), Eases(k[c], n), NEW k2, k2 = [k EXCEPT ![c] = n]
  PROVE  Stands(S, k2[0], k2[1], s, r, g)
<1>1. CASE c = 0
  <2>1. k2[0] = n /\ k2[1] = k[1]
    BY <1>1, Seats
  <2>. QED
    BY <1>1, <2>1, HostKeeps
<1>2. CASE c = 1
  <2>1. k2[1] = n /\ k2[0] = k[0]
    BY <1>2, Seats
  <2>. QED
    BY <1>2, <2>1, GuestKeeps
<1>. QED
  BY <1>1, <1>2, Seats

(* a frame written that is no part of a push,                              *)
LEMMA SentStands ==
  ASSUME NEW S, NEW m, NEW n, NEW g, NEW ch \in [Seat -> Seq(Frame)],
         room \in BOOLEAN, Stands(S, m, n, ch[1], room, g),
         NEW c \in Seat, NEW f, <<f>> \in Seq(Frame),
         f.type \notin {"CHUNK", "END"},
         c = 0 /\ f.type = "CRC" => CrcDue(f.tick) /\ f.sum = Cksum(m.world)
  PROVE  Stands(S, m, n, Sent(ch, c, <<f>>)[1], room, g)
<1>. DEFINE ch2 == Sent(ch, c, <<f>>)
<1>1. More(ch, room, ch2, c, f)
  BY SentOne
<1>2. CASE c = 1
  BY <1>1, <1>2 DEF More
<1>3. CASE c = 0 /\ ~room
  BY <1>3 DEF Sent
<1>4. CASE c = 0 /\ room
  <2>. HIDE DEF ch2
  <2>. DEFINE s == ch[1]
              s2 == ch2[1]
  <2>1. /\ Len(s) \in Nat /\ Len(s2) = Len(s) + 1
        /\ \A i \in 1 .. Len(s) : s2[i] = s[i]
        /\ s2[Len(s2)] = f
    BY <1>1, <1>4, Seats DEF More
  <2>. HIDE DEF s, s2
  <2>2. Stands(S, m, n, s, room, g)
    BY DEF s
  <2>3. Stands(S, m, n, s2, room, g)
    BY <1>4, <2>1, <2>2, LineGrows
  <2>. QED
    BY <2>3 DEF s2, ch2
<1>. QED
  BY <1>2, <1>3, <1>4, Seats

(* the gate,                                                               *)
LEMMA GateStands ==
  ASSUME NEW S, TypeOK, NEW c \in Seat, NEW m \in Console,
         NEW ch \in [Seat -> Seq(Frame)], Gate(c, m, ch), NEW g,
         NEW k, k = [con EXCEPT ![c] = m],
         Stands(S, k[0], k[1], ch[1], room, g)
  PROVE  Stands(S, con'[0], con'[1], chan'[1], room, g)
<1>. DEFINE rep == Reported(c, m, ch)
            k2 == con'
<1>1. /\ k \in [Seat -> Console] /\ room \in BOOLEAN /\ k[c] = m
      /\ con \in [Seat -> Console] /\ 0 \in Seat /\ 1 \in Seat
  BY Seats DEF TypeOK
<1>2. PICK n \in Console : Outcome(c, m, ch, n)
  BY GateOutcome
<1>3. k2 = [k EXCEPT ![c] = n] /\ n.dropped = m.dropped /\ Leaves(m, n)
  BY <1>1, <1>2 DEF Outcome
<1>4. \/ Same(m, n) /\ chan' = ch
      \/ Kept1(m, n) /\ chan' = rep
      \/ /\ Pushed(m, n) /\ c = 0
         /\ \E x \in Console : /\ x.world = m.world
                               /\ chan' = Sent(rep, c, PushFrames(x))
  BY <1>2 DEF Outcome, Host
<1>5. /\ rep \in [Seat -> Seq(Frame)]
      /\ Stands(S, k[0], k[1], rep[1], room, g)
  <2>. DEFINE f == Report(m)
  <2>1. <<f>> \in Seq(Frame) /\ rep \in [Seat -> Seq(Frame)]
    BY ReportFrame, ReportedNoLeft
  <2>2. f.type = "CRC" /\ f.tick = m.tick /\ f.sum = Cksum(m.world)
    BY DEF Report
  <2>. HIDE DEF f, rep
  <2>3. CASE CrcDue(m.tick)
    <3>1. f.type \notin {"CHUNK", "END"}
      BY <2>2
    <3>2. c = 0 /\ f.type = "CRC" =>
            CrcDue(f.tick) /\ f.sum = Cksum(k[0].world)
      BY <1>1, <2>2, <2>3
    <3>3. Stands(S, k[0], k[1], Sent(ch, c, <<f>>)[1], room, g)
      BY <1>1, <2>1, <3>1, <3>2, SentStands
    <3>. QED
      BY <2>1, <2>3, <3>3 DEF rep, Reported, f
  <2>4. CASE ~CrcDue(m.tick)
    BY <2>1, <2>4 DEF rep, Reported
  <2>. QED
    BY <2>3, <2>4
<1>. HIDE DEF rep, k2
<1>6. CASE Same(m, n) /\ chan' = ch
  <2>1. Mild(m, n) /\ Eases(m, n)
    BY <1>3, <1>6 DEF Mild, Eases, Leaves, Same, Looks
  <2>2. Stands(S, k2[0], k2[1], ch[1], room, g)
    BY <1>1, <1>3, <2>1, ChangeStands
  <2>. QED
    BY <1>6, <2>2 DEF k2
<1>7. CASE Kept1(m, n) /\ chan' = rep
  <2>1. Mild(m, n) /\ Eases(m, n)
    BY <1>3, <1>7 DEF Mild, Eases, Leaves, Kept1
  <2>2. Stands(S, k2[0], k2[1], rep[1], room, g)
    BY <1>1, <1>3, <1>5, <2>1, ChangeStands
  <2>. QED
    BY <1>7, <2>2 DEF k2
<1>8. CASE /\ Pushed(m, n) /\ c = 0
           /\ \E x \in Console : /\ x.world = m.world
                                 /\ chan' = Sent(rep, c, PushFrames(x))
  <2>1. PICK x \in Console : /\ x.world = m.world
                             /\ chan' = Sent(rep, 0, PushFrames(x))
    BY <1>8
  <2>2. Ships(rep[1], chan'[1], room, m.world)
    BY <1>1, <1>5, <2>1, SentShips
  <2>3. /\ n.world = m.world /\ n.epoch = m.epoch + 1 /\ n.crc = NoCrc
        /\ k[0] = m /\ k2[0] = n /\ k2[1] = k[1] /\ k[1] \in Console
    BY <1>1, <1>3, <1>8 DEF Pushed, Leaves
  <2>4. Stands(S, m, k[1], rep[1], room, g)
    BY <1>5, <2>3
  <2>. DEFINE s2 == chan'[1]
  <2>5. Ships(rep[1], s2, room, m.world)
    BY <2>2
  <2>. HIDE DEF s2
  <2>6. Stands(S, n, k[1], s2, room, g)
    BY <1>1, <2>3, <2>4, <2>5, PushStands
  <2>. QED
    BY <2>3, <2>6 DEF s2, k2
<1>. QED
  BY <1>4, <1>6, <1>7, <1>8

(* and what leads to it: the sample, a round of the stall, a round of a    *)
(* hold.                                                                   *)
LEMMA DropMild ==
  ASSUME NEW m \in Console, NEW why
  PROVE  /\ Mild(m, Drop(m, why)) /\ Drop(m, why).dropped
         /\ Eases(m, Drop(m, why))
<1>. DEFINE n == Drop(m, why)
<1>1. n.world = m.world /\ n.epoch = m.epoch /\ n.crc = m.crc /\ n.dropped
  BY DEF Drop, IdleRemote, Console
<1>. HIDE DEF n
<1>2. Mild(m, n) /\ Eases(m, n)
  BY <1>1 DEF Mild, Eases
<1>. QED
  BY <1>1, <1>2 DEF n

LEMMA StepStands ==
  ASSUME NEW S, TypeOK, NEW c \in Seat, Step(c), NEW g,
         Stands(S, con[0], con[1], chan[1], room, g)
  PROVE  Stands(S, con'[0], con'[1], chan'[1], room, g)
<1>1. /\ con \in [Seat -> Console] /\ con[c] \in Console
      /\ chan \in [Seat -> Seq(Frame)] /\ room \in BOOLEAN
      /\ 0 \in Seat /\ 1 \in Seat
  BY Seats DEF TypeOK
<1>2. CASE SampleInput(c)
  <2>. DEFINE t == Plus(con[c].tick, Delay)
  <2>1. PICK v \in Inputs :
          Gate(c, [con[c] EXCEPT !.ring[c][Slot(t)] = v],
               Sent(chan, c, <<[type |-> "INPUT", tick |-> t, in |-> v]>>))
    BY <1>2 DEF SampleInput
  <2>. DEFINE f == [type |-> "INPUT", tick |-> t, in |-> v]
              m == [con[c] EXCEPT !.ring[c][Slot(t)] = v]
              ch == Sent(chan, c, <<f>>)
              k == [con EXCEPT ![c] = m]
  <2>2. t \in Tick
    <3>1. con[c].tick \in Int /\ Delay \in Int
      BY <1>1, SizeAssumption DEF Console, Tick
    <3>. QED
      BY <3>1, PlusType
  <2>3. /\ m \in Console /\ m.world = con[c].world /\ m.epoch = con[c].epoch
        /\ m.crc = con[c].crc /\ m.hold = con[c].hold
        /\ m.dropped = con[c].dropped /\ m.applied = con[c].applied
    BY <1>1 DEF Console
  <2>. HIDE DEF t
  <2>4. <<f>> \in Seq(Frame) /\ f.type = "INPUT"
    BY <2>2 DEF Frame
  <2>5. Gate(c, m, ch)
    BY <2>1
  <2>. HIDE DEF m, f
  <2>6. Mild(con[c], m) /\ Eases(con[c], m)
    BY <2>3 DEF Mild, Eases
  <2>7. ch \in [Seat -> Seq(Frame)]
    BY <1>1, <2>4, SentType
  <2>8. Stands(S, con[0], con[1], ch[1], room, g)
    <3>1. f.type \notin {"CHUNK", "END"} /\ f.type # "CRC"
      BY <2>4
    <3>. QED
      BY <1>1, <2>4, <3>1, SentStands
  <2>. HIDE DEF ch
  <2>9. Stands(S, k[0], k[1], ch[1], room, g)
    BY <1>1, <2>6, <2>8, ChangeStands
  <2>. HIDE DEF k
  <2>10. k = [con EXCEPT ![c] = m]
    BY DEF k
  <2>. QED
    BY <2>3, <2>5, <2>7, <2>9, <2>10, GateStands
<1>3. CASE StallRound(c)
  <2>. DEFINE m == [con[c] EXCEPT !.waitc = IF GateRounds = 0 THEN 0 ELSE @ + 1]
              n == IF GateRounds # 0 /\ m.waitc >= GateRounds
                   THEN Drop(m, "lost") ELSE m
              k == [con EXCEPT ![c] = n]
  <2>1. /\ m \in Console /\ m.world = con[c].world /\ m.epoch = con[c].epoch
        /\ m.crc = con[c].crc /\ m.hold = con[c].hold
        /\ m.dropped = con[c].dropped /\ m.applied = con[c].applied
    <3>1. con[c].waitc + 1 \in Nat
      BY <1>1 DEF Console
    <3>. QED
      BY <1>1, <3>1 DEF Console
  <2>2. n \in Console
    BY <2>1, DropType
  <2>3. Gate(c, n, chan)
    BY <1>3 DEF StallRound
  <2>. HIDE DEF m
  <2>4. Mild(m, n) /\ Eases(m, n)
    BY <2>1, DropMild DEF Mild, Eases
  <2>. HIDE DEF n
  <2>5. Mild(con[c], n) /\ Eases(con[c], n)
    BY <2>1, <2>4 DEF Mild, Eases
  <2>6. Stands(S, k[0], k[1], chan[1], room, g)
    BY <1>1, <2>5, ChangeStands
  <2>. HIDE DEF k
  <2>7. k = [con EXCEPT ![c] = n]
    BY DEF k
  <2>. QED
    BY <1>1, <2>2, <2>3, <2>6, <2>7, GateStands
<1>4. CASE HoldRound(c)
  <2>. DEFINE m == [con[c] EXCEPT !.rsto = IF HoldRounds = 0 THEN 0 ELSE @ + 1]
              d == [m EXCEPT !.hold = FALSE]
              n == IF HoldRounds # 0 /\ m.rsto >= HoldRounds
                   THEN Drop(d, "lost") ELSE m
              k2 == con'
  <2>1. /\ m \in Console /\ m.world = con[c].world /\ m.epoch = con[c].epoch
        /\ m.crc = con[c].crc /\ m.hold = con[c].hold
        /\ m.dropped = con[c].dropped /\ m.applied = con[c].applied
    <3>1. con[c].rsto + 1 \in Nat
      BY <1>1 DEF Console
    <3>. QED
      BY <1>1, <3>1 DEF Console
  <2>2. /\ d \in Console /\ d.world = m.world /\ d.epoch = m.epoch
        /\ d.crc = m.crc
    <3>. HIDE DEF m
    <3>. QED
      BY <2>1 DEF Console
  <2>3. n \in Console
    BY <2>1, <2>2, DropType
  <2>4. con' = [con EXCEPT ![c] = Pass(n)] /\ chan' = chan
    BY <1>4 DEF HoldRound
  <2>. HIDE DEF m, d
  <2>5. Mild(m, n) /\ Eases(m, n)
    <3>1. Mild(d, Drop(d, "lost")) /\ Drop(d, "lost").dropped
      BY <2>2, DropMild
    <3>2. Mild(m, Drop(d, "lost")) /\ Eases(m, Drop(d, "lost"))
      BY <2>2, <3>1 DEF Mild, Eases
    <3>3. Mild(m, m) /\ Eases(m, m)
      BY DEF Mild, Eases
    <3>. QED
      BY <3>2, <3>3
  <2>. HIDE DEF n
  <2>6. Mild(con[c], n) /\ Eases(con[c], n)
    BY <2>1, <2>5 DEF Mild, Eases
  <2>7. Same(n, Pass(n)) /\ Still(n, Pass(n))
    BY <2>3, PassLooks
  <2>8. Mild(con[c], Pass(n)) /\ Eases(con[c], Pass(n))
    BY <2>6, <2>7 DEF Mild, Eases, Same, Looks, Still
  <2>9. k2 = [con EXCEPT ![c] = Pass(n)]
    BY <2>4
  <2>. HIDE DEF k2
  <2>10. Stands(S, k2[0], k2[1], chan[1], room, g)
    BY <1>1, <2>8, <2>9, ChangeStands
  <2>. QED
    BY <2>4, <2>10 DEF k2
<1>5. CASE Park(c)
  BY <1>5 DEF Park, vars
<1>. QED
  BY <1>2, <1>3, <1>4, <1>5 DEF Step

(* A frame read by the host, which changes what it knows only,             *)
LEMMA HostReads ==
  ASSUME NEW S, TypeOK, Deliver(0), NEW g, Image,
         Stands(S, con[0], con[1], chan[1], room, g)
  PROVE  Stands(S, con'[0], con'[1], chan'[1], room, g)
<1>. DEFINE m == con[0]
            f == Head(chan[0])
            read == [m EXCEPT !.ring[Peer(0)][Slot(f.tick)] = f.in,
                              !.wm = f.tick]
            k2 == con'
<1>0. /\ con \in [Seat -> Console] /\ m \in Console /\ 0 \in Seat
      /\ 1 \in Seat /\ Peer(0) = 1
  BY Seats DEF TypeOK
<1>1. /\ chan[0] # <<>>
      /\ f.type \notin {"BEGIN", "CHUNK", "END"}
  <2>1. chan[0] # <<>>
    BY DEF Deliver, OnInput, OnCrc, OnReq, OnBegin, OnChunk, OnEnd,
           OnPeerLeft, Arrives
  <2>2. /\ Head(chan[0]) = chan[0][1] /\ Len(chan[0]) \in Nat \ {0}
    BY <1>0, <2>1, ConsumedFrames
  <2>3. 1 \in 1 .. Len(chan[0])
    BY <2>2
  <2>. QED
    BY <2>1, <2>2, <2>3 DEF Image, Host, Quiet
<1>2. chan' = Consumed(0)
  <2>1. ~OnBegin(0) /\ ~OnChunk(0) /\ ~OnEnd(0)
    BY <1>1 DEF OnBegin, OnChunk, OnEnd, Arrives
  <2>. QED
    BY <2>1 DEF Deliver, OnInput, OnCrc, OnReq, OnPeerLeft, Host
<1>3. chan'[1] = chan[1]
  BY <1>0, <1>1, <1>2, ConsumedFrames
<1>4. \/ con' = con
      \/ \E n \in {read, Want(m), Drop(m, "left")} :
           con' = [con EXCEPT ![0] = n]
  <2>1. OnInput(0) => con' = con \/ con' = [con EXCEPT ![0] = read]
    BY <1>0 DEF OnInput
  <2>2. OnCrc(0) \/ OnReq(0) =>
          con' = con \/ con' = [con EXCEPT ![0] = Want(m)]
    BY DEF OnCrc, OnReq
  <2>3. OnPeerLeft(0) => con' = [con EXCEPT ![0] = Drop(m, "left")]
    BY DEF OnPeerLeft
  <2>4. ~OnBegin(0) /\ ~OnChunk(0) /\ ~OnEnd(0)
    BY <1>1 DEF OnBegin, OnChunk, OnEnd, Arrives
  <2>. HIDE DEF read, m, f
  <2>. QED
    BY <2>1, <2>2, <2>3, <2>4 DEF Deliver
<1>5. \A n \in {read, Want(m), Drop(m, "left")} : Mild(m, n) /\ Eases(m, n)
  <2>. HIDE DEF m, f
  <2>1. /\ read.world = m.world /\ read.epoch = m.epoch /\ read.crc = m.crc
        /\ read.hold = m.hold /\ read.dropped = m.dropped
        /\ read.applied = m.applied
    BY <1>0 DEF Console
  <2>2. /\ Want(m).world = m.world /\ Want(m).epoch = m.epoch
        /\ Want(m).crc = m.crc /\ Want(m).hold = m.hold
        /\ Want(m).dropped = m.dropped /\ Want(m).applied = m.applied
    BY <1>0 DEF Console, Want
  <2>. HIDE DEF read
  <2>3. Mild(m, read) /\ Eases(m, read)
    BY <2>1 DEF Mild, Eases
  <2>4. Mild(m, Want(m)) /\ Eases(m, Want(m))
    BY <2>2 DEF Mild, Eases
  <2>. QED
    BY <1>0, <2>3, <2>4, DropMild
<1>. HIDE DEF read, m
<1>6. CASE con' = con
  BY <1>3, <1>6
<1>7. CASE \E n \in {read, Want(m), Drop(m, "left")} :
             con' = [con EXCEPT ![0] = n]
  <2>1. PICK n \in {read, Want(m), Drop(m, "left")} :
          k2 = [con EXCEPT ![0] = n]
    BY <1>7
  <2>2. Mild(con[0], n) /\ Eases(con[0], n)
    BY <1>5 DEF m
  <2>. HIDE DEF k2
  <2>3. Stands(S, k2[0], k2[1], chan[1], room, g)
    BY <1>0, <2>1, <2>2, ChangeStands
  <2>. QED
    BY <1>3, <2>3 DEF k2
<1>. QED
  BY <1>4, <1>6, <1>7

(* by the guest, outside an image or of one.                               *)
LEMMA GuestHead ==
  ASSUME TypeOK, Image, Over, Deliver(1)
  PROVE  /\ con \in [Seat -> Console] /\ con[0] \in Console
         /\ con[1] \in Console /\ room \in BOOLEAN /\ ~con[1].dropped
         /\ chan[1] # <<>> /\ Head(chan[1]) = chan[1][1]
         /\ chan[1][1] \in Frame /\ Comes(con[1], chan[1][1])
         /\ Shorter(chan[1], Consumed(1)[1])
         /\ Consumed(1) \in [Seat -> Seq(Frame)] /\ 1 \in Seat /\ 0 \in Seat
         /\ room' = room /\ glitches' = glitches
<1>1. 0 \in Seat /\ 1 \in Seat
  BY Seats
<1>2. chan[1] # <<>> /\ ~con[1].dropped /\ room' = room
  BY <1>1, DeliverOver
<1>3. Shorter(chan[1], Consumed(1)[1]) /\ Head(chan[1]) = chan[1][1]
  BY <1>1, <1>2, ConsumedFrames DEF Shorter
<1>4. Head(chan[1]) \in Frame /\ Consumed(1) \in [Seat -> Seq(Frame)]
  BY <1>1, <1>2, ConsumedType
<1>5. Comes(con[1], chan[1][1])
  BY <1>1, <1>2 DEF Image, Line
<1>6. glitches' = glitches
  BY DEF Deliver, OnInput, OnCrc, OnReq, OnBegin, OnChunk, OnEnd, OnPeerLeft
<1>. QED
  BY <1>1, <1>2, <1>3, <1>4, <1>5, <1>6 DEF TypeOK

LEMMA GuestReads ==
  ASSUME NEW S, TypeOK, Image, Over, Deliver(1), NEW g,
         Head(chan[1]).type \notin {"CHUNK", "END"},
         Stands(S, con[0], con[1], chan[1], room, g)
  PROVE  Stands(S, con'[0], con'[1], chan'[1], room, g)
<1>. DEFINE m == con[1]
            f == Head(chan[1])
            d == Consumed(1)
            q == [type |-> "REQ", tick |-> f.tick]
            read == [m EXCEPT !.ring[Peer(1)][Slot(f.tick)] = f.in,
                              !.wm = f.tick]
            begun == [EnterHold(m) EXCEPT !.resume = f.tick, !.begun = TRUE]
            k2 == con'
<1>0. /\ con \in [Seat -> Console] /\ m \in Console /\ room \in BOOLEAN
      /\ f = chan[1][1] /\ f \in Frame /\ Shorter(chan[1], d[1])
      /\ d \in [Seat -> Seq(Frame)] /\ 1 \in Seat /\ 0 \in Seat /\ ~m.dropped
  BY GuestHead
<1>1. ~OnChunk(1) /\ ~OnEnd(1)
  BY DEF OnChunk, OnEnd, Arrives
<1>2. chan' = d \/ (f.type = "CRC" /\ chan' = Sent(d, 1, <<q>>))
  BY <1>1 DEF Deliver, OnInput, OnCrc, OnReq, OnBegin, OnPeerLeft, Arrives,
              Host
<1>3. chan'[1] = d[1]
  <2>1. CASE chan' = d
    BY <2>1
  <2>2. CASE f.type = "CRC" /\ chan' = Sent(d, 1, <<q>>)
    <3>. HIDE DEF d, q
    <3>1. Peer(1) # 1
      BY <1>0, Seats
    <3>. QED
      BY <1>0, <2>2, <3>1 DEF Sent
  <2>. QED
    BY <1>2, <2>1, <2>2
<1>4. \/ con' = con
      \/ \E n \in {read, begun, Want(m), Drop(m, "left")} :
           con' = [con EXCEPT ![1] = n]
  <2>1. OnInput(1) => con' = con \/ con' = [con EXCEPT ![1] = read]
    BY <1>0 DEF OnInput
  <2>2. OnCrc(1) \/ OnReq(1) =>
          con' = con \/ con' = [con EXCEPT ![1] = Want(m)]
    BY DEF OnCrc, OnReq
  <2>3. OnPeerLeft(1) => con' = [con EXCEPT ![1] = Drop(m, "left")]
    BY DEF OnPeerLeft
  <2>4. OnBegin(1) => con' = [con EXCEPT ![1] = begun]
    BY DEF OnBegin
  <2>. HIDE DEF read, begun, m, f
  <2>. QED
    BY <1>1, <2>1, <2>2, <2>3, <2>4 DEF Deliver
<1>5. \A n \in {read, begun, Want(m), Drop(m, "left")} :
        Mild(m, n) /\ Eases(m, n)
  <2>. HIDE DEF m, f
  <2>1. /\ read.world = m.world /\ read.epoch = m.epoch /\ read.crc = m.crc
        /\ read.hold = m.hold /\ read.dropped = m.dropped
        /\ read.applied = m.applied
    BY <1>0 DEF Console
  <2>2. /\ Want(m).world = m.world /\ Want(m).epoch = m.epoch
        /\ Want(m).crc = m.crc /\ Want(m).hold = m.hold
        /\ Want(m).dropped = m.dropped /\ Want(m).applied = m.applied
    BY <1>0 DEF Console, Want
  <2>3. /\ begun.world = m.world /\ begun.epoch = m.epoch
        /\ begun.crc = NoCrc /\ begun.applied = {} /\ begun.hold
        /\ begun.dropped = m.dropped
    <3>. DEFINE l == EnterHold(m)
    <3>1. /\ l.world = m.world /\ l.epoch = m.epoch /\ l.crc = NoCrc
          /\ l.applied = {} /\ l.hold /\ l.dropped = m.dropped
      BY <1>0 DEF EnterHold, Console
    <3>2. l \in Console /\ begun = [l EXCEPT !.resume = f.tick, !.begun = TRUE]
      BY <1>0, EnterHoldType
    <3>. HIDE DEF l, begun
    <3>. QED
      BY <3>1, <3>2 DEF Console
  <2>. HIDE DEF read, begun
  <2>4. Mild(m, read) /\ Eases(m, read)
    BY <2>1 DEF Mild, Eases
  <2>5. Mild(m, Want(m)) /\ Eases(m, Want(m))
    BY <2>2 DEF Mild, Eases
  <2>6. Mild(m, begun) /\ Eases(m, begun)
    BY <1>0, <2>3 DEF Mild, Eases, NoCrc
  <2>. QED
    BY <1>0, <2>4, <2>5, <2>6, DropMild
<1>6. Stands(S, con[0], con[1], d[1], room, g)
  <2>. HIDE DEF d, m
  <2>1. chan[1][1].type # "END"
    BY <1>0
  <2>. QED
    BY <1>0, <2>1, TakenStands
<1>. HIDE DEF read, begun, m, d
<1>7. CASE con' = con
  BY <1>3, <1>6, <1>7
<1>8. CASE \E n \in {read, begun, Want(m), Drop(m, "left")} :
             con' = [con EXCEPT ![1] = n]
  <2>1. PICK n \in {read, begun, Want(m), Drop(m, "left")} :
          k2 = [con EXCEPT ![1] = n]
    BY <1>8
  <2>2. Mild(con[1], n) /\ Eases(con[1], n)
    BY <1>5 DEF m
  <2>. HIDE DEF k2
  <2>3. Stands(S, k2[0], k2[1], d[1], room, g)
    BY <1>0, <1>6, <2>1, <2>2, ChangeStands
  <2>. QED
    BY <1>3, <2>3 DEF k2
<1>. QED
  BY <1>4, <1>7, <1>8

LEMMA GuestLoads ==
  ASSUME NEW S, TypeOK, Image, Over, Deliver(1), NEW g,
         Head(chan[1]).type \in {"CHUNK", "END"},
         Stands(S, con[0], con[1], chan[1], room, g)
  PROVE  Stands({}, con'[0], con'[1], chan'[1], room, g)
<1>. DEFINE m == con[1]
            f == chan[1][1]
            s2 == chan'[1]
            n == con'[1]
<1>0. /\ con \in [Seat -> Console] /\ m \in Console /\ room \in BOOLEAN
      /\ con[0] \in Console
      /\ Head(chan[1]) = f /\ f \in Frame /\ Shorter(chan[1], Consumed(1)[1])
      /\ 1 \in Seat /\ 0 \in Seat /\ ~m.dropped /\ Comes(m, f)
  BY GuestHead
<1>1. chan' = Consumed(1)
  BY DEF Deliver, OnInput, OnCrc, OnReq, OnBegin, OnChunk, OnEnd, OnPeerLeft,
         Arrives
<1>2. Shorter(chan[1], s2)
  BY <1>0, <1>1
<1>3. CASE f.type = "CHUNK"
  <2>1. m.hold
    BY <1>0, <1>3 DEF Comes
  <2>2. con' = [con EXCEPT ![1] = PutChunk(m, f)]
    BY <1>0, <1>3 DEF Deliver, OnInput, OnCrc, OnReq, OnBegin, OnChunk,
                      OnEnd, OnPeerLeft, Arrives
  <2>3. con'[0] = con[0] /\ n = PutChunk(m, f)
    <3>. HIDE DEF m, f
    <3>. QED
      BY <1>0, <2>2
  <2>4. f.pos \in Parts
    BY <1>0, <1>3 DEF Frame
  <2>. HIDE DEF n, s2
  <2>5. Stands({}, con[0], n, s2, room, g)
    BY <1>0, <1>2, <1>3, <2>1, <2>3, <2>4, ChunkStands
  <2>. QED
    BY <2>3, <2>5 DEF n, s2
<1>4. CASE f.type = "END"
  <2>1. m.hold /\ m.applied = Parts
    BY <1>0, <1>4 DEF Comes
  <2>2. con' = [con EXCEPT ![1] = Rebase(m)]
    BY <1>0, <1>4, <2>1 DEF Deliver, OnInput, OnCrc, OnReq, OnBegin, OnChunk,
                      OnEnd, OnPeerLeft, Arrives
  <2>3. con'[0] = con[0] /\ n = Rebase(m)
    <3>. HIDE DEF m, f
    <3>. QED
      BY <1>0, <2>2
  <2>. HIDE DEF n, s2
  <2>4. Stands({}, con[0], n, s2, room, g)
    BY <1>0, <1>2, <1>4, <2>1, <2>3, EndStands
  <2>. QED
    BY <2>3, <2>4 DEF n, s2
<1>. QED
  BY <1>0, <1>3, <1>4

(* What the image brings is reported in no frame on the way.               *)
LEMMA GuestLoadsGood ==
  ASSUME NEW S, TypeOK, Image, Over, Roomy, Deliver(1),
         Head(chan[1]).type \in {"CHUNK", "END"},
         Good(S, con, chan, room)
  PROVE  Good({}, con', chan', room')
<1>. DEFINE m == con[1]
            f == chan[1][1]
            n == con'[1]
            k2 == con'
            ch2 == chan'
            r2 == room'
<1>0. /\ con \in [Seat -> Console] /\ m \in Console
      /\ Head(chan[1]) = f /\ 1 \in Seat /\ ~m.dropped /\ Comes(m, f)
  BY GuestHead
<1>1. CASE f.type = "CHUNK"
  <2>1. OnChunk(1)
    BY <1>0, <1>1 DEF Deliver, OnInput, OnCrc, OnReq, OnBegin, OnEnd,
                      OnPeerLeft, Arrives
  <2>2. Good(S, k2, ch2, r2)
    BY <1>0, <2>1, OnChunkGood
  <2>3. con' = [con EXCEPT ![1] = PutChunk(m, f)] /\ m.hold
    BY <1>0, <1>1, <2>1 DEF OnChunk, Comes
  <2>4. n = PutChunk(m, f)
    <3>. HIDE DEF m, f
    <3>. QED
      BY <1>0, <2>3
  <2>5. n.hold /\ ~n.dropped
    <3>. HIDE DEF n, m, f
    <3>. QED
      BY <1>0, <2>3, <2>4 DEF PutChunk, Console
  <2>6. ~k2[1].dropped /\ k2[1].hold
    BY <2>5
  <2>. HIDE DEF k2, ch2, r2, n
  <2>7. Good({}, k2, ch2, r2)
    BY <2>2, <2>6, HeldGood
  <2>. QED
    BY <2>7 DEF k2, ch2, r2
<1>2. CASE f.type = "END"
  <2>1. OnEnd(1)
    BY <1>0, <1>2 DEF Deliver, OnInput, OnCrc, OnReq, OnBegin, OnChunk,
                      OnPeerLeft, Arrives
  <2>. QED
    BY <1>0, <2>1, OnEndGood
<1>. QED
  BY <1>0, <1>1, <1>2

(* What the environment does.                                              *)
LEMMA GlitchStands ==
  ASSUME NEW S, TypeOK, NEW c \in Seat, Glitch(c),
         Stands(S, con[0], con[1], chan[1], room, glitches)
  PROVE  Stands(S, con'[0], con'[1], chan'[1], room', glitches')
<1>. DEFINE m == con[c]
            n == con'[c]
            g == glitches
            k2 == con'
<1>1. /\ con \in [Seat -> Console] /\ con[0] \in Console
      /\ con[1] \in Console /\ m \in Console /\ g \in Nat
  BY Seats DEF TypeOK
<1>2. /\ ~m.hold /\ glitches' = g + 1 /\ chan' = chan /\ room' = room
      /\ \E p \in Parts : con' = [con EXCEPT ![c].world[p] = g + 1]
  BY DEF Glitch
<1>3. PICK p \in Parts : con' = [con EXCEPT ![c].world[p] = g + 1]
  BY <1>2
<1>4. /\ n = [m EXCEPT !.world[p] = g + 1]
      /\ \A x \in Seat : x # c => con'[x] = con[x]
  BY <1>1, <1>3
<1>. HIDE DEF n, g
<1>5. Relabels(m, n, g)
  <2>. HIDE DEF m
  <2>1. n.world = [m.world EXCEPT ![p] = g + 1]
    BY <1>1, <1>4 DEF Console
  <2>2. /\ n.epoch = m.epoch /\ n.crc = m.crc /\ n.hold = m.hold
        /\ n.applied = m.applied /\ n.dropped = m.dropped
    BY <1>1, <1>4 DEF Console
  <2>. QED
    BY <2>1, <2>2 DEF Relabels, Changed
<1>6. k2[c] = n /\ \A x \in Seat : x # c => k2[x] = con[x]
  BY <1>4 DEF n
<1>7. Stands(S, con[0], con[1], chan[1], room, g)
  BY DEF g
<1>. HIDE DEF k2
<1>8. CASE c = 0
  <2>1. k2[1] = con[1] /\ k2[0] = n /\ m = con[0]
    BY <1>6, <1>8, Seats
  <2>. HIDE DEF m
  <2>2. Stands(S, n, con[1], chan[1], room, g + 1)
    BY <1>1, <1>5, <1>7, <2>1, HostRelabels
  <2>. QED
    BY <1>2, <2>1, <2>2 DEF k2
<1>9. CASE c = 1
  <2>1. k2[0] = con[0] /\ k2[1] = n /\ m = con[1]
    BY <1>6, <1>9, Seats
  <2>. HIDE DEF m
  <2>2. Stands(S, con[0], n, chan[1], room, g + 1)
    BY <1>1, <1>2, <1>5, <1>7, <2>1, GuestRelabels
  <2>. QED
    BY <1>2, <2>1, <2>2 DEF k2
<1>. QED
  BY <1>8, <1>9, Seats

LEMMA LoseRoomStands ==
  ASSUME NEW S, TypeOK, NEW c \in Seat, LoseRoom(c),
         Stands(S, con[0], con[1], chan[1], room, glitches)
  PROVE  Stands(S, con'[0], con'[1], chan'[1], room', glitches')
<1>. DEFINE s2 == chan'[1]
<1>1. room' = FALSE /\ con' = con /\ glitches' = glitches /\ room \in BOOLEAN
  BY DEF LoseRoom, TypeOK
<1>2. PICK y : Cut(chan[1], s2, y)
  BY LoseRoomCuts, Seats
<1>. HIDE DEF s2
<1>3. Stands(S, con[0], con[1], s2, FALSE, glitches)
  BY <1>1, <1>2, CutStands
<1>. QED
  BY <1>1, <1>3 DEF s2

-----------------------------------------------------------------------------
(* The invariant: a history fits that says what the reports on the line to *)
(* the host are, and there are images the game states came from.           *)
Sound ==
  \E S : /\ Stands(S, con[0], con[1], chan[1], room, glitches)
         /\ Good(S, con, chan, room)

LEMMA GoodMore ==
  ASSUME NEW S, NEW S2, S \subseteq S2, NEW k, NEW ch, NEW r, Good(S, k, ch, r)
  PROVE  Good(S2, k, ch, r)
<1>1. PICK h \in History :
        /\ Fits(k, ch, r, h) /\ Stamped(S, k, ch, h)
        /\ \A c \in Seat : ~k[c].dropped => Timed(k[c], h, c)
  BY DEF Good
<1>2. Stamped(S2, k, ch, h)
  BY <1>1, StampedMore
<1>. QED
  BY <1>1, <1>2 DEF Good

(* Of a frame delivered,                                                   *)
LEMMA DeliverSound ==
  ASSUME NEW S, TypeOK, Image, Over, Roomy, NEW c \in Seat, Deliver(c),
         Stands(S, con[0], con[1], chan[1], room, glitches),
         Good(S, con, chan, room)
  PROVE  \E S2 :
           /\ Stands(S2, con'[0], con'[1], chan'[1], room', glitches')
           /\ Good(S2, con', chan', room')
<1>. DEFINE A(S2) == Stands(S2, con'[0], con'[1], chan'[1], room', glitches')
            Z(S2) == Good(S2, con', chan', room')
<1>1. room' = room /\ glitches' = glitches
  BY DEF Deliver, OnInput, OnCrc, OnReq, OnBegin, OnChunk, OnEnd, OnPeerLeft
<1>2. Z(S)
  BY DeliverGood
<1>3. CASE c = 0
  <2>1. Deliver(0)
    BY <1>3
  <2>2. A(S)
    BY <1>1, <2>1, HostReads
  <2>. HIDE DEF A, Z
  <2>3. \E S2 : A(S2) /\ Z(S2)
    BY <1>2, <2>2
  <2>. QED
    BY <2>3 DEF A, Z
<1>4. CASE c = 1 /\ Head(chan[1]).type \notin {"CHUNK", "END"}
  <2>1. Deliver(1)
    BY <1>4
  <2>2. A(S)
    BY <1>1, <1>4, <2>1, GuestReads
  <2>. HIDE DEF A, Z
  <2>3. \E S2 : A(S2) /\ Z(S2)
    BY <1>2, <2>2
  <2>. QED
    BY <2>3 DEF A, Z
<1>5. CASE c = 1 /\ Head(chan[1]).type \in {"CHUNK", "END"}
  <2>1. Deliver(1)
    BY <1>5
  <2>2. A({})
    BY <1>1, <1>5, <2>1, GuestLoads
  <2>3. Z({})
    BY <1>5, <2>1, GuestLoadsGood
  <2>. HIDE DEF A, Z
  <2>4. \E S2 : A(S2) /\ Z(S2)
    BY <2>2, <2>3
  <2>. QED
    BY <2>4 DEF A, Z
<1>. QED
  BY <1>3, <1>4, <1>5, Seats

(* as of every step.                                                       *)
LEMMA SoundNext ==
  ASSUME TypeOK, Image, Gone, Over, Roomy, [Next]_vars, Sound
  PROVE  Sound'
<1>. DEFINE A(S2) == Stands(S2, con'[0], con'[1], chan'[1], room', glitches')
            Z(S2) == Good(S2, con', chan', room')
<1>1. PICK S0 : /\ Stands(S0, con[0], con[1], chan[1], room, glitches)
                /\ Good(S0, con, chan, room)
  BY DEF Sound
<1>. DEFINE S == S0 \cup {Cksum(con[1].world)}
<1>2. Stands(S, con[0], con[1], chan[1], room, glitches)
  BY <1>1, StandsMore
<1>3. S0 \subseteq S /\ Cksum(con[1].world) \in S
  OBVIOUS
<1>. HIDE DEF S
<1>4. Good(S, con, chan, room)
  BY <1>1, <1>3, GoodMore
<1>5. Z(S)
  BY <1>3, <1>4, NextGood
<1>6. ASSUME NEW c \in Seat, Step(c) PROVE \E S2 : A(S2) /\ Z(S2)
  <2>1. room' = room /\ glitches' = glitches
    BY <1>6 DEF Step, SampleInput, StallRound, HoldRound, Park, vars
  <2>2. A(S)
    BY <1>2, <1>6, <2>1, StepStands
  <2>. HIDE DEF A, Z
  <2>. QED
    BY <1>5, <2>2
<1>7. ASSUME NEW c \in Seat, Deliver(c) PROVE \E S2 : A(S2) /\ Z(S2)
  BY <1>2, <1>4, <1>7, DeliverSound
<1>8. ASSUME NEW c \in Seat, Glitch(c) PROVE \E S2 : A(S2) /\ Z(S2)
  <2>1. A(S)
    BY <1>2, <1>8, GlitchStands
  <2>. HIDE DEF A, Z
  <2>. QED
    BY <1>5, <2>1
<1>9. ASSUME NEW c \in Seat, LoseRoom(c) PROVE \E S2 : A(S2) /\ Z(S2)
  <2>1. A(S)
    BY <1>2, <1>9, LoseRoomStands
  <2>. HIDE DEF A, Z
  <2>. QED
    BY <1>5, <2>1
<1>10. \E S2 : A(S2) /\ Z(S2)
  <2>. HIDE DEF A, Z
  <2>1. CASE UNCHANGED vars
    <3>1. A(S)
      BY <1>2, <2>1 DEF vars, A
    <3>. QED
      BY <1>5, <3>1
  <2>. QED
    BY <1>6, <1>7, <1>8, <1>9, <2>1 DEF Next
<1>. QED
  BY <1>10 DEF A, Z, Sound

(* At the START both have the image of no part changed.                    *)
LEMMA SoundInit ==
  ASSUME Roomy, Init
  PROVE  Sound
<1>. DEFINE B == [e \in Nat |-> [p \in Parts |-> 0]]
            G == [i \in Nat |-> 0]
<1>1. /\ B \in Bases /\ \A e \in Nat : \A p \in Parts : B[e][p] = 0
      /\ G \in [Nat -> Nat] /\ \A i \in Nat : G[i] = 0
  BY DEF Bases
<1>. HIDE DEF B, G
<1>2. \A c \in Seat :
        /\ con[c].epoch = 0 /\ ~con[c].hold /\ con[c].crc = NoCrc
        /\ \A p \in Parts : con[c].world[p] = 0
  BY DEF Init
<1>3. Len(chan[1]) = 0 /\ glitches = 0 /\ 0 \in Seat /\ 1 \in Seat
  BY Seats DEF Init
<1>4. Numbered(chan[1], 0, 0, room, G)
  BY <1>1, <1>3 DEF Numbered
<1>5. \A i \in 1 .. Len(chan[1]) : Tells(chan[1][i], G[i], con[0], B)
  BY <1>3
<1>6. \A c \in Seat : Recorded(con[c], B[0])
  BY <1>2 DEF Recorded, NoCrc
<1>7. Apart(con[0].world, con[1].world, B[0])
  BY <1>1, <1>2, <1>3 DEF Apart
<1>8. \A p \in Parts : /\ con[0].world[p] <= glitches
                       /\ con[1].world[p] <= glitches
                       /\ \A e \in Nat : B[e][p] <= glitches
  BY <1>1, <1>2, <1>3
<1>9. Worlds({}, con[0], con[1], chan[1], room, glitches, B, G)
  BY <1>2, <1>3, <1>4, <1>5, <1>6, <1>7, <1>8 DEF Worlds
<1>10. Stands({}, con[0], con[1], chan[1], room, glitches)
  BY <1>1, <1>9 DEF Stands
<1>11. Good({}, con, chan, room)
  BY InitGood
<1>. QED
  BY <1>10, <1>11 DEF Sound

LEMMA SoundAlways == Roomy => (Spec => []Sound)
<1>. SUFFICES ASSUME Roomy PROVE Spec => []Sound
  OBVIOUS
<1>1. Init => Sound
  BY SoundInit
<1>2. TypeOK /\ Image /\ Gone /\ Over /\ Sound /\ [Next]_vars => Sound'
  BY SoundNext
<1>. QED
  BY <1>1, <1>2, TypeCorrect, ImageAlways, GoneAlways, OverAlways, PTL DEF Spec

-----------------------------------------------------------------------------
(* Two checksums of one epoch's image and what became of it differ only    *)
(* where the two game states do.                                           *)
LEMMA NoQuarrel ==
  ASSUME NEW w, NEW b, Apart(w, w, b),
         NEW sum \in [Summed -> Label], NEW own \in [Summed -> Label],
         Valid(w, b, sum), Valid(w, b, own)
  PROVE  sum = own
<1>1. Summed \subseteq Parts
  BY SizeAssumption DEF Parts
<1>2. \A p \in Summed : sum[p] = own[p]
  BY <1>1 DEF Apart, Valid
<1>. QED
  BY <1>2

(* A step of the pass raises no alarm,                                     *)
LEMMA StepPend ==
  ASSUME TypeOK, NEW c \in Seat, Step(c), ~con[c].pend
  PROVE  ~con'[c].pend
<1>1. con[c] \in Console /\ con \in [Seat -> Console]
  BY DEF TypeOK
<1>2. ASSUME NEW m \in Console, NEW ch, Gate(c, m, ch), ~m.pend
      PROVE  ~con'[c].pend
  <2>1. PICK n \in Console : Outcome(c, m, ch, n)
    BY <1>2, GateOutcome
  <2>2. con'[c] = n
    BY <1>1, <2>1 DEF Outcome
  <2>. QED
    BY <1>2, <2>1, <2>2 DEF Outcome, Same, Kept1, Pushed
<1>3. \A m \in Console : Drop(m, "lost").pend = m.pend
  BY DEF Drop, IdleRemote, Console
<1>4. CASE SampleInput(c)
  <2>. DEFINE t == Plus(con[c].tick, Delay)
  <2>1. PICK v \in Inputs :
          Gate(c, [con[c] EXCEPT !.ring[c][Slot(t)] = v],
               Sent(chan, c, <<[type |-> "INPUT", tick |-> t, in |-> v]>>))
    BY <1>4 DEF SampleInput
  <2>. DEFINE m == [con[c] EXCEPT !.ring[c][Slot(t)] = v]
              ch == Sent(chan, c, <<[type |-> "INPUT", tick |-> t, in |-> v]>>)
  <2>2. m \in Console /\ m.pend = con[c].pend
    BY <1>1 DEF Console
  <2>3. Gate(c, m, ch)
    BY <2>1
  <2>. HIDE DEF m, ch
  <2>. QED
    BY <1>2, <2>2, <2>3
<1>5. CASE StallRound(c)
  <2>. DEFINE m == [con[c] EXCEPT !.waitc = IF GateRounds = 0 THEN 0 ELSE @ + 1]
              n == IF GateRounds # 0 /\ m.waitc >= GateRounds
                   THEN Drop(m, "lost") ELSE m
  <2>1. m \in Console /\ m.pend = con[c].pend
    <3>1. con[c].waitc + 1 \in Nat
      BY <1>1 DEF Console
    <3>. QED
      BY <1>1, <3>1 DEF Console
  <2>2. Gate(c, n, chan)
    BY <1>5 DEF StallRound
  <2>. HIDE DEF m
  <2>3. n \in Console /\ n.pend = m.pend
    BY <1>3, <2>1, DropType
  <2>. HIDE DEF n
  <2>. QED
    BY <1>2, <2>1, <2>2, <2>3
<1>6. CASE HoldRound(c)
  <2>. DEFINE m == [con[c] EXCEPT !.rsto = IF HoldRounds = 0 THEN 0 ELSE @ + 1]
              d == [m EXCEPT !.hold = FALSE]
              n == IF HoldRounds # 0 /\ m.rsto >= HoldRounds
                   THEN Drop(d, "lost") ELSE m
  <2>1. m \in Console /\ m.pend = con[c].pend
    <3>1. con[c].rsto + 1 \in Nat
      BY <1>1 DEF Console
    <3>. QED
      BY <1>1, <3>1 DEF Console
  <2>2. d \in Console /\ d.pend = m.pend
    <3>. HIDE DEF m
    <3>. QED
      BY <2>1 DEF Console
  <2>3. con' = [con EXCEPT ![c] = Pass(n)]
    BY <1>6 DEF HoldRound
  <2>. HIDE DEF m, d
  <2>4. n \in Console /\ n.pend = m.pend
    BY <1>3, <2>1, <2>2, DropType
  <2>. HIDE DEF n
  <2>5. con'[c] = Pass(n) /\ Pass(n).pend = n.pend
    BY <1>1, <2>3, <2>4, PassLooks DEF Same
  <2>. QED
    BY <2>1, <2>4, <2>5
<1>7. CASE Park(c)
  BY <1>7 DEF Park, vars
<1>. QED
  BY <1>4, <1>5, <1>6, <1>7 DEF Step

(* a report acted on is compared with the record of its tick.              *)
LEMMA RaisedBy ==
  ASSUME TypeOK, Over, [Next]_vars, NEW c \in Seat, Raised(c, "CRC")
  PROVE  /\ Deliver(c) /\ ~con[c].dropped
         /\ Disagrees(con[c], Head(chan[c]))
<1>1. /\ con'[c].pend /\ ~con[c].pend
      /\ chan[c] # <<>> /\ Head(chan[c]).type = "CRC"
      /\ con \in [Seat -> Console] /\ con[c] \in Console
  BY DEF Raised, TypeOK
<1>2. ASSUME NEW x \in Seat, Step(x) PROVE FALSE
  <2>1. con'[Peer(x)] = con[Peer(x)] /\ (x = c \/ Peer(x) = c)
    BY <1>2, StepOver, Seats DEF vars
  <2>2. x = c
    BY <1>1, <2>1
  <2>. QED
    BY <1>1, <1>2, <2>2, StepPend
<1>3. ASSUME NEW x \in Seat, Deliver(x), x # c PROVE FALSE
  <2>1. con'[Peer(x)] = con[Peer(x)] /\ Peer(x) = c
    BY <1>3, DeliverOver, Seats
  <2>. QED
    BY <1>1, <2>1
<1>4. ASSUME NEW x \in Seat, Glitch(x) PROVE FALSE
  <2>1. \E p \in Parts : con' = [con EXCEPT ![x].world[p] = glitches + 1]
    BY <1>4 DEF Glitch
  <2>2. con'[c].pend = con[c].pend
    BY <1>1, <2>1 DEF Console
  <2>. QED
    BY <1>1, <2>2
<1>5. ASSUME NEW x \in Seat, LoseRoom(x) PROVE FALSE
  BY <1>1, <1>5 DEF LoseRoom
<1>6. Deliver(c)
  BY <1>1, <1>2, <1>3, <1>4, <1>5 DEF Next, vars
<1>7. ~con[c].dropped
  BY <1>6, DeliverOver
<1>8. OnCrc(c)
  BY <1>1, <1>6 DEF Deliver, OnInput, OnReq, OnBegin, OnChunk, OnEnd,
                    OnPeerLeft, Arrives
<1>9. Disagrees(con[c], Head(chan[c]))
  BY <1>1, <1>8 DEF OnCrc
<1>. QED
  BY <1>6, <1>7, <1>9

(* The host's alarm: report and record are of one epoch, which both are    *)
(* on.                                                                     *)
LEMMA HostAlarm ==
  ASSUME TypeOK, Roomy, Sound, ~con[0].dropped, chan[0] # <<>>,
         NEW f, f = chan[0][1], f.type = "CRC", f.tick \in Int,
         f.sum \in [Summed -> Label], Disagrees(con[0], f)
  PROVE  con[0].world # con[1].world
<1>. SUFFICES ASSUME con[0].world = con[1].world PROVE FALSE
  OBVIOUS
<1>. DEFINE x == CrcSlot(f.tick)
            m == con[0]
            n == con[1]
<1>1. PICK S : /\ Stands(S, m, n, chan[1], room, glitches)
               /\ Good(S, con, chan, room)
  BY DEF Sound
<1>2. PICK h \in History :
        /\ Fits(con, chan, room, h) /\ Stamped(S, con, chan, h)
        /\ \A c \in Seat : ~con[c].dropped => Timed(con[c], h, c)
  BY <1>1 DEF Good
<1>3. PICK B \in Bases, G \in [Nat -> Nat] :
        Worlds(S, m, n, chan[1], room, glitches, B, G)
  BY <1>1 DEF Stands
<1>4. /\ 0 \in Seat /\ 1 \in Seat /\ x \in CrcSlots /\ m \in Console
      /\ Len(chan[0]) \in Nat \ {0}
  BY Seats, CrcSlotType, ConsumedFrames DEF TypeOK
<1>5. m.crc[x].t = f.tick /\ m.crc[x].sum # f.sum
  BY DEF Disagrees
<1>6. h.tag[0][1].of = h.epoch[0] /\ h.epoch[0] = h.epoch[1]
  <2>1. con[0].crc[CrcSlot(f.tick)].t = f.tick
    BY <1>5
  <2>. QED
    BY <1>2, <1>4, <2>1, CrcNow
<1>7. 1 \in 1 .. Len(chan[0])
  BY <1>4
<1>8. f.tick # TickSpan - 1
  <2>1. CrcDue(f.tick)
    BY <1>2, <1>4, <1>7 DEF Fits, HostLine, Alarms
  <2>. QED
    BY <2>1, NoReport
<1>9. f.sum \in S
  BY <1>2, <1>6, <1>7 DEF Stamped, Vouched
<1>10. m.epoch = h.epoch[0] /\ n.epoch = h.epoch[1]
  BY <1>2, <1>4 DEF Fits, Clock, Stamped
<1>11. Valid(n.world, B[n.epoch], f.sum)
  BY <1>3, <1>9 DEF Worlds
<1>12. Valid(m.world, B[m.epoch], m.crc[x].sum)
  BY <1>3, <1>4, <1>5, <1>8 DEF Worlds, Recorded
<1>13. Apart(m.world, n.world, B[n.epoch])
  BY <1>3, <1>6, <1>10 DEF Worlds
<1>14. m.crc[x].sum \in [Summed -> Label]
  BY <1>4 DEF Console
<1>15. n.epoch = m.epoch /\ n.world = m.world
  BY <1>6, <1>10
<1>. HIDE DEF m, n, x
<1>. QED
  BY <1>5, <1>11, <1>12, <1>13, <1>14, <1>15, NoQuarrel

(* The guest's: the report is of the epoch it is on, if not the host's     *)
(* present one.                                                            *)
LEMMA GuestAlarm ==
  ASSUME TypeOK, Roomy, Sound, ~con[1].dropped, chan[1] # <<>>,
         NEW f, f = chan[1][1], f.type = "CRC", f.tick \in Int,
         f.sum \in [Summed -> Label], Disagrees(con[1], f)
  PROVE  con[0].world # con[1].world
<1>. SUFFICES ASSUME con[0].world = con[1].world PROVE FALSE
  OBVIOUS
<1>. DEFINE x == CrcSlot(f.tick)
            m == con[0]
            n == con[1]
<1>1. PICK S : Stands(S, m, n, chan[1], room, glitches)
  BY DEF Sound
<1>2. PICK B \in Bases, G \in [Nat -> Nat] :
        Worlds(S, m, n, chan[1], room, glitches, B, G)
  BY <1>1 DEF Stands
<1>3. /\ 1 \in Seat /\ x \in CrcSlots /\ n \in Console
      /\ Len(chan[1]) \in Nat \ {0}
  BY Seats, CrcSlotType, ConsumedFrames DEF TypeOK
<1>4. n.crc[x].t = f.tick /\ n.crc[x].sum # f.sum /\ ~n.hold
  BY DEF Disagrees
<1>5. 1 \in 1 .. Len(chan[1])
  BY <1>3
<1>6. Tells(f, n.epoch, m, B)
  <2>1. G[1] = n.epoch
    BY <1>2 DEF Worlds, Numbered
  <2>2. Tells(chan[1][1], G[1], m, B)
    BY <1>2, <1>5 DEF Worlds
  <2>. QED
    BY <2>1, <2>2
<1>7. CrcDue(f.tick) /\ Valid(m.world, B[n.epoch], f.sum)
  BY <1>6 DEF Tells
<1>8. f.tick # TickSpan - 1
  BY <1>7, NoReport
<1>9. Valid(n.world, B[n.epoch], n.crc[x].sum)
  BY <1>2, <1>3, <1>4, <1>8 DEF Worlds, Recorded
<1>10. Apart(m.world, n.world, B[n.epoch])
  BY <1>2, <1>4 DEF Worlds
<1>11. n.crc[x].sum \in [Summed -> Label]
  BY <1>3 DEF Console
<1>12. n.world = m.world
  OBVIOUS
<1>. HIDE DEF m, n, x
<1>. QED
  BY <1>4, <1>7, <1>9, <1>10, <1>11, <1>12, NoQuarrel

(* AlarmIsReal, for every size that is Roomy: neither a record left from   *)
(* an epoch before, nor a report that was under way when a push was        *)
(* written or read, makes RS_ON_CRC raise a resync between two consoles    *)
(* whose game states are the same.                                         *)
THEOREM AlarmHolds == Roomy => (Spec => AlarmIsReal)
<1>. SUFFICES ASSUME Roomy PROVE Spec => AlarmIsReal
  OBVIOUS
<1>. DEFINE Real == \A c \in Seat :
                      Raised(c, "CRC") => con[0].world # con[1].world
<1>1. TypeOK /\ Over /\ Sound /\ [Next]_vars => Real
  <2>. SUFFICES ASSUME TypeOK, Over, Sound, [Next]_vars,
                       NEW c \in Seat, Raised(c, "CRC")
                PROVE  con[0].world # con[1].world
    OBVIOUS
  <2>. DEFINE f == chan[c][1]
  <2>1. /\ Deliver(c) /\ ~con[c].dropped /\ Disagrees(con[c], Head(chan[c]))
    BY RaisedBy
  <2>2. chan[c] # <<>> /\ Head(chan[c]).type = "CRC"
    BY DEF Raised
  <2>3. Head(chan[c]) = f
    BY <2>2, ConsumedFrames
  <2>4. f.type = "CRC" /\ f.tick \in Int /\ f.sum \in [Summed -> Label]
    <3>1. f \in Frame /\ f.type = "CRC"
      BY <2>2, <2>3, ConsumedType
    <3>2. f \in [type : {"CRC"}, tick : Tick, sum : [Summed -> Label]]
      BY <3>1 DEF Frame
    <3>3. f.tick \in Tick /\ f.sum \in [Summed -> Label]
      BY <3>2
    <3>4. TickSpan \in Int
      BY SizeAssumption
    <3>. QED
      BY <3>1, <3>3, <3>4 DEF Tick
  <2>5. Disagrees(con[c], f)
    BY <2>1, <2>3
  <2>. HIDE DEF f
  <2>6. CASE c = 0
    <3>1. f = chan[0][1]
      BY <2>6 DEF f
    <3>. QED
      BY <2>1, <2>2, <2>4, <2>5, <2>6, <3>1, HostAlarm
  <2>7. CASE c = 1
    <3>1. f = chan[1][1]
      BY <2>7 DEF f
    <3>. QED
      BY <2>1, <2>2, <2>4, <2>5, <2>7, <3>1, GuestAlarm
  <2>. QED
    BY <2>6, <2>7, Seats
<1>. QED
  BY <1>1, TypeCorrect, OverAlways, SoundAlways, PTL DEF Spec, AlarmIsReal
==============================================================================
