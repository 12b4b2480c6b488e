------------------------------ MODULE Lockstep ------------------------------
(***************************************************************************)
(* A match between two consoles: the pass routine LS_PASS of               *)
(* src/src/netcode/lockstep.asm, the frame handlers SES_PUMP dispatches    *)
(* while a match runs (session.asm, resync.asm), and the relay between the *)
(* consoles reduced to one FIFO per direction.  Seat 0 is the host.        *)
(*                                                                         *)
(* A console's memory is one record.  A routine that several handlers call *)
(* (LS_IDLE_RMT, RS_REBASE, ...) is an operator from memory to memory; a   *)
(* handler is an action that puts the routines together in source order.   *)
(*                                                                         *)
(* Ticks are 16-bit cells, compared by signed difference (TickSpan), input *)
(* rings are one page per seat (PageSize, also the range of a byte cell).  *)
(***************************************************************************)
EXTENDS Integers, Sequences, FiniteSets

CONSTANTS
  Inputs,            \* what a controller can show, Idle among them
  Idle,              \* the value LS_RING_INIT fills the rings with
  Sampled(_, _, _),  \* what seat s may show in epoch e when its tick is t
  Delay,             \* NET_DELAY: START's delay byte
  TickSpan,          \* values of a tick cell pair, 65536 in the code
  PageSize,          \* slots of a ring page, 256 in the code
  CrcEvery,          \* ticks between CRC reports, 64 in the code
  ResumeAhead,       \* how far a push resumes ahead, 16 in the code
  PendMax,           \* RS_PEND_MAX
  GateRounds,        \* pump rounds of the gate before it gives up, 0: never
  HoldRounds,        \* pump rounds of a hold before it gives up, 0: never
  NParts,            \* chunks of the state image
  Summed,            \* the parts of the image LS_CKSUM covers
  MaxGlitch,         \* bound: divergences the environment may cause
  MayLoseRoom        \* may the relay dissolve the room?

ASSUME InputAssumption == Idle \in Inputs

ASSUME SizeAssumption ==
  /\ PageSize \in Nat \ {0} /\ Delay \in 0 .. PageSize - 1
  /\ CrcEvery \in Nat \ {0} /\ PageSize % CrcEvery = 0
  /\ TickSpan \in Nat \ {0} /\ TickSpan % PageSize = 0 /\ TickSpan % 4 = 0
  /\ ResumeAhead \in Nat /\ PendMax \in Nat
  /\ GateRounds \in Nat /\ HoldRounds \in Nat
  /\ NParts \in Nat \ {0} /\ Summed \subseteq 1 .. NParts
  /\ MaxGlitch \in Nat /\ MayLoseRoom \in BOOLEAN

VARIABLES
  con,       \* con[c]: the memory of the console in seat c
  chan,      \* chan[c]: frames the relay has queued for c, in order
  room,      \* does the relay still forward between the two?
  glitches   \* divergences caused so far

vars == <<con, chan, room, glitches>>

Seat == {0, 1}
Host == 0
Peer(c) == 1 - c
Tick == 0 .. TickSpan - 1
Slots == 0 .. PageSize - 1
Parts == 1 .. NParts
Label == 0 .. MaxGlitch

-----------------------------------------------------------------------------
(* Tick arithmetic: 16-bit addition, the wrap-safe signed difference, and  *)
(* the ring slot, which is the low byte.                                   *)
PlusUnwrapped(t, n) == t + n          \* mutant of Plus: a tick that never wraps
Plus(t, n) == (t + n) % TickSpan
Delta(a, b) == LET x == (a - b) % TickSpan
               IN  IF x < TickSpan \div 2 THEN x ELSE x - TickSpan
Slot(t) == t % PageSize

(* The checksum LS_CKSUM takes.  It covers part of what a push transfers;  *)
(* what it covers is taken to be told apart without collision.             *)
Cksum(w) == [p \in Summed |-> w[p]]

CrcSlot(t) == Slot(t) \div CrcEvery
CrcSlots == 0 .. PageSize \div CrcEvery - 1

(* RS_CLR_CRC fills the records with $FF: a tick no report is made for.    *)
ZeroCrc == [k \in CrcSlots |->         \* mutant of NoCrc: zeroed records
             [t |-> 0, sum |-> [p \in Summed |-> 0]]]
NoCrc == [k \in CrcSlots |->
            [t |-> TickSpan - 1, sum |-> [p \in Summed |-> 0]]]

IdleRings == [s \in Seat |-> [k \in Slots |-> Idle]]

-----------------------------------------------------------------------------
Console ==
  [pc      : {"pump", "stall", "hold", "parked"},
   tick    : Tick,
   wm      : Tick,                        \* SEAT_WM of the remote seat
   ring    : [Seat -> [Slots -> Inputs]],
   froze   : BOOLEAN,                     \* LS_FROZE
   phase   : BOOLEAN,                     \* $0102 is not 0: the ISR is live
   saved   : BOOLEAN,                     \* LS_SAVE102 is not 0
   waitc   : Nat,                         \* LS_WAITC
   hold    : BOOLEAN,                     \* RESYNC_HOLD
   rsto    : Nat,                         \* RS_TO
   resume  : Tick,                        \* RS_R
   pend    : BOOLEAN,                     \* RS_PEND
   ptmo    : Nat,                         \* RS_PTMO
   crc     : [CrcSlots -> [t : Tick, sum : [Summed -> Label]]],  \* OWN_CRC
   rej     : BOOLEAN,                     \* DIAG_REJ is not 0
   dropped : BOOLEAN,                     \* NET_DROPPED
   why     : {"none", "lost", "left"},    \* PEER_WHY
   world   : [Parts -> Label],            \* the game state, part by part
   begun   : BOOLEAN,                     \* a BEGIN was read in this pump
   applied : SUBSET Parts,                \* history: parts put since BEGIN
   epoch   : Nat]                         \* history: rebases done

Frame ==
  [type : {"INPUT"}, tick : Tick, in : Inputs]
    \cup [type : {"CRC"}, tick : Tick, sum : [Summed -> Label]]
    \cup [type : {"REQ"}, tick : Tick]
    \cup [type : {"BEGIN"}, tick : Tick]
    \cup [type : {"CHUNK"}, pos : Parts, data : Label]
    \cup [type : {"END", "LEFT"}]

(* One type invariant for the component: the cells of both consoles and    *)
(* the frames in flight have the widths the code gives them.               *)
TypeOK ==
  /\ con \in [Seat -> Console]
  /\ chan \in [Seat -> Seq(Frame)]
  /\ room \in BOOLEAN
  /\ glitches \in 0 .. MaxGlitch

(* SES_ONFRAME's START handler.  The watermark is d - 1 in the low byte    *)
(* and 0 in the high byte, so a delay of 0 gives PageSize - 1.             *)
Init ==
  /\ con = [c \in Seat |->
       [pc |-> "pump", tick |-> 0, wm |-> (Delay - 1) % PageSize,
        ring |-> IdleRings, froze |-> FALSE, phase |-> TRUE, saved |-> FALSE,
        waitc |-> 0, hold |-> FALSE, rsto |-> 0, resume |-> 0, pend |-> FALSE,
        ptmo |-> 0, crc |-> NoCrc, rej |-> FALSE, dropped |-> FALSE,
        why |-> "none", world |-> [p \in Parts |-> 0],
        begun |-> FALSE, applied |-> {}, epoch |-> 0]]
  /\ chan = [c \in Seat |-> <<>>]
  /\ room = TRUE
  /\ glitches = 0

-----------------------------------------------------------------------------
(* Routines on a console's memory m.                                       *)

(* Stop the ISR's phase counter, saving it once.                           *)
FreezeTwice(m) ==                      \* mutant of Freeze: no once-guard
  [m EXCEPT !.froze = TRUE, !.saved = m.phase, !.phase = FALSE]
Freeze(m) ==
  IF m.froze THEN m
  ELSE [m EXCEPT !.froze = TRUE, !.saved = m.phase, !.phase = FALSE]

Unfreeze(m) ==
  IF m.froze
  THEN [m EXCEPT !.froze = FALSE, !.phase = m.saved, !.waitc = 0]
  ELSE m

(* LS_IDLE_RMT: idle rings, the remote watermark pinned a quarter turn     *)
(* ahead.                                                                  *)
IdleRemote(m) ==
  [m EXCEPT !.ring = IdleRings, !.wm = Plus(m.tick, TickSpan \div 4)]

(* NET_DROPPED, with the reason the terminal screen gives.                 *)
Drop(m, reason) ==
  IdleRemote([m EXCEPT !.dropped = TRUE, !.why = reason])

EnterHold(m) ==
  [m EXCEPT !.hold = TRUE, !.rsto = 0, !.crc = NoCrc, !.applied = {}]

RebaseKeepingRings(m) ==               \* mutant of Rebase: rings not idled
  [m EXCEPT !.pend = FALSE, !.ptmo = 0, !.tick = m.resume,
            !.wm = Plus(m.resume, Delay - 1),
            !.crc = NoCrc, !.hold = FALSE, !.rsto = 0, !.waitc = 0,
            !.applied = {}, !.epoch = m.epoch + 1]

RebaseHeld(m) ==                       \* mutant of Rebase: RESYNC_HOLD stays
  [m EXCEPT !.pend = FALSE, !.ptmo = 0, !.tick = m.resume,
            !.ring = IdleRings, !.wm = Plus(m.resume, Delay - 1),
            !.crc = NoCrc, !.rsto = 0, !.waitc = 0,
            !.applied = {}, !.epoch = m.epoch + 1]

Rebase(m) ==
  [m EXCEPT !.pend = FALSE, !.ptmo = 0, !.tick = m.resume,
            !.ring = IdleRings, !.wm = Plus(m.resume, Delay - 1),
            !.crc = NoCrc, !.hold = FALSE, !.rsto = 0, !.waitc = 0,
            !.applied = {}, !.epoch = m.epoch + 1]

(* RS_RECORD_CRC, at the tick that was just run.                           *)
RecordCrcLate(m) ==     \* mutant of RecordCrc: the tick after the increment
  [m EXCEPT !.crc[CrcSlot(m.tick)] =
     [t |-> Plus(m.tick, 1), sum |-> Cksum(m.world)]]
RecordCrc(m) ==
  [m EXCEPT !.crc[CrcSlot(m.tick)] = [t |-> m.tick, sum |-> Cksum(m.world)]]

(* A resync is wanted: pushed later by the host, from RS_PENDING.          *)
Want(m) == [m EXCEPT !.pend = TRUE, !.ptmo = 0]

(* NET_WRITE of some frames by c: the relay forwards them to the other     *)
(* seat while the room stands.                                             *)
Sent(ch, c, frames) ==
  IF room THEN [ch EXCEPT ![Peer(c)] = @ \o frames] ELSE ch

-----------------------------------------------------------------------------
(* SES_ONFRAME: one frame, inside a SES_PUMP.  Every pump reads at most 64 *)
(* bytes and a chunk is 100 bytes long (the last is 5), so no chunk is     *)
(* complete in the pump that completes the BEGIN in front of it.           *)

Arrives(c, type) ==
  /\ con[c].pc \in {"pump", "stall", "hold"}
  /\ chan[c] # <<>>
  /\ Head(chan[c]).type = type

Consumed(c) == [chan EXCEPT ![c] = Tail(@)]

OnInput(c) ==
  /\ Arrives(c, "INPUT")
  /\ LET f == Head(chan[c])
     IN  con' = IF Delta(f.tick, con[c].wm) > 0
                THEN [con EXCEPT ![c].ring[Peer(c)][Slot(f.tick)] = f.in,
                                 ![c].wm = f.tick]
                ELSE con
  /\ chan' = Consumed(c)
  /\ UNCHANGED <<room, glitches>>

(* RS_ON_CRC's comparison: a report is acted on outside a hold, when none  *)
(* is pending, and only against a record of the same tick.                 *)
Disagrees(m, f) ==
  LET rec == m.crc[CrcSlot(f.tick)]
  IN  /\ ~m.hold
      /\ ~m.pend
      /\ rec.t = f.tick
      /\ rec.sum # f.sum

OnCrc(c) ==
  /\ Arrives(c, "CRC")
  /\ LET f == Head(chan[c])
     IN  IF Disagrees(con[c], f)
         THEN /\ con' = [con EXCEPT ![c] = Want(@)]
              /\ chan' = IF c = Host THEN Consumed(c)
                         ELSE Sent(Consumed(c), c,
                                   <<[type |-> "REQ", tick |-> f.tick]>>)
         ELSE /\ con' = con
              /\ chan' = Consumed(c)
  /\ UNCHANGED <<room, glitches>>

OnReq(c) ==
  /\ Arrives(c, "REQ")
  /\ con' = IF c = Host /\ ~con[c].hold /\ ~con[c].pend
            THEN [con EXCEPT ![c] = Want(@)]
            ELSE con
  /\ chan' = Consumed(c)
  /\ UNCHANGED <<room, glitches>>

OnBegin(c) ==
  /\ Arrives(c, "BEGIN")
  /\ con' = [con EXCEPT ![c] =
               [EnterHold(@) EXCEPT !.resume = Head(chan[c]).tick,
                                    !.begun = TRUE]]
  /\ chan' = Consumed(c)
  /\ UNCHANGED <<room, glitches>>

(* A chunk outside a hold is refused.                                      *)
PutChunk(m, f) ==
  IF m.hold
  THEN [m EXCEPT !.world[f.pos] = f.data, !.applied = @ \cup {f.pos}]
  ELSE [m EXCEPT !.rej = TRUE]

OnChunkAnyPump(c) ==                   \* mutant of OnChunk: no cap on a read
  /\ Arrives(c, "CHUNK")
  /\ con' = [con EXCEPT ![c] = PutChunk(@, Head(chan[c]))]
  /\ chan' = Consumed(c)
  /\ UNCHANGED <<room, glitches>>

OnChunk(c) ==
  /\ Arrives(c, "CHUNK")
  /\ ~con[c].begun
  /\ con' = [con EXCEPT ![c] = PutChunk(@, Head(chan[c]))]
  /\ chan' = Consumed(c)
  /\ UNCHANGED <<room, glitches>>

OnEnd(c) ==
  /\ Arrives(c, "END")
  /\ con' = IF con[c].hold THEN [con EXCEPT ![c] = Rebase(@)] ELSE con
  /\ chan' = Consumed(c)
  /\ UNCHANGED <<room, glitches>>

OnPeerLeft(c) ==
  /\ Arrives(c, "LEFT")
  /\ con' = [con EXCEPT ![c] = Drop(@, "left")]
  /\ chan' = Consumed(c)
  /\ UNCHANGED <<room, glitches>>

Deliver(c) ==
  \/ OnInput(c) \/ OnCrc(c) \/ OnReq(c)
  \/ OnBegin(c) \/ OnChunk(c) \/ OnEnd(c)
  \/ OnPeerLeft(c)

-----------------------------------------------------------------------------
(* LS_PASS.  A console only looks at the network inside a pump, so a step  *)
(* runs from the end of one pump to the start of the next.                 *)

(* The head of a pass: the terminal screen, a hold's pump, a tick's pump.  *)
Pass(m) ==
  IF m.dropped THEN [Freeze(m) EXCEPT !.pc = "parked"]
  ELSE IF m.hold THEN [Freeze(m) EXCEPT !.pc = "hold", !.begun = FALSE]
  ELSE [m EXCEPT !.pc = "pump", !.begun = FALSE]

(* RS_PUSH's frames: BEGIN with the resume tick, the image, END.           *)
PushFramesEndFirst(m) ==               \* mutant of PushFrames: END too early
  <<[type |-> "BEGIN", tick |-> m.resume], [type |-> "END"]>>
    \o [i \in Parts |-> [type |-> "CHUNK", pos |-> i, data |-> m.world[i]]]

PushFrames(m) ==
  <<[type |-> "BEGIN", tick |-> m.resume]>>
    \o [i \in Parts |-> [type |-> "CHUNK", pos |-> i, data |-> m.world[i]]]
    \o <<[type |-> "END"]>>

(* RS_PENDING at the end of the host's tick: wait for a dead ball, at most *)
(* PendMax ticks, then push and rebase.  ch is the network so far.         *)
Pending(c, m, ch) ==
  LET waited == [m EXCEPT !.ptmo = @ + 1]
      held == [EnterHold(waited) EXCEPT !.resume = Plus(m.tick, ResumeAhead)]
  IN  IF m.pend /\ c = Host /\ ~m.hold
      THEN \/ /\ waited.ptmo < PendMax    \* play is live, keep waiting
              /\ con' = [con EXCEPT ![c] = Pass(waited)]
              /\ chan' = ch
           \/ /\ con' = [con EXCEPT ![c] = Pass(Rebase(held))]
              /\ chan' = Sent(ch, c, PushFrames(held))
      ELSE /\ con' = [con EXCEPT ![c] = Pass(m)]
           /\ chan' = ch

CrcDue(t) == t % CrcEvery = 0

(* The tick: thaw, run the game on the ring inputs, report a checksum,     *)
(* count, and see to a pending push.                                       *)
RunTick(c, m, ch) ==
  LET ran == Unfreeze(m)
      reported == IF CrcDue(m.tick) THEN RecordCrc(ran) ELSE ran
      report == [type |-> "CRC", tick |-> m.tick, sum |-> Cksum(m.world)]
  IN  Pending(c, [reported EXCEPT !.tick = Plus(m.tick, 1)],
              IF CrcDue(m.tick) THEN Sent(ch, c, <<report>>) ELSE ch)

(* The gate: run when the remote input for tick T is there or the match is *)
(* over, otherwise stop the phases and pump.                               *)
OpenEarly(m) == m.dropped \/ Delta(m.wm, m.tick) >= -1 \* mutant of Open: off by one
Open(m) == m.dropped \/ Delta(m.wm, m.tick) >= 0

Gate(c, m, ch) ==
  \/ Open(m) /\ RunTick(c, m, ch)
  \/ /\ ~Open(m)
     /\ con' = [con EXCEPT ![c] =
                  [Freeze(m) EXCEPT !.pc = "stall", !.begun = FALSE]]
     /\ chan' = ch

(* After a tick's pump: sample the controller for tick T + d, keep it in   *)
(* the own ring, send it, and come to the gate.                            *)
SampleInput(c) ==
  /\ con[c].pc = "pump"
  /\ LET t == Plus(con[c].tick, Delay)
     IN  \E v \in Inputs \cap Sampled(c, con[c].epoch, con[c].tick) :
           Gate(c, [con[c] EXCEPT !.ring[c][Slot(t)] = v],
                Sent(chan, c, <<[type |-> "INPUT", tick |-> t, in |-> v]>>))
  /\ UNCHANGED <<room, glitches>>

(* After a pump inside the gate: give up after GateRounds of them, look at *)
(* the gate again.                                                         *)
StallRoundReset(c) ==      \* mutant of StallRound: the count restarts each round
  /\ con[c].pc = "stall"
  /\ LET m == [con[c] EXCEPT !.waitc = IF GateRounds = 0 THEN 0 ELSE 1]
     IN  Gate(c, IF GateRounds # 0 /\ m.waitc > GateRounds
                 THEN Drop(m, "lost") ELSE m,
              chan)
  /\ UNCHANGED <<room, glitches>>

StallRound(c) ==
  /\ con[c].pc = "stall"
  /\ LET m == [con[c] EXCEPT !.waitc = IF GateRounds = 0 THEN 0 ELSE @ + 1]
     IN  Gate(c, IF GateRounds # 0 /\ m.waitc >= GateRounds
                 THEN Drop(m, "lost") ELSE m,
              chan)
  /\ UNCHANGED <<room, glitches>>

(* After a hold's pump: give up after HoldRounds of them.                  *)
HoldRound(c) ==
  /\ con[c].pc = "hold"
  /\ LET m == [con[c] EXCEPT !.rsto = IF HoldRounds = 0 THEN 0 ELSE @ + 1]
     IN  con' = [con EXCEPT ![c] = Pass(
           IF HoldRounds # 0 /\ m.rsto >= HoldRounds
           THEN Drop([m EXCEPT !.hold = FALSE], "lost")
           ELSE m)]
  /\ UNCHANGED <<chan, room, glitches>>

(* The terminal screen: the console branches to itself until it is reset.  *)
Park(c) == con[c].pc = "parked" /\ UNCHANGED vars

-----------------------------------------------------------------------------
(* The environment.                                                        *)

(* The game code computes something else on this console than on the       *)
(* other: what the checksums are there to find.  It runs in ticks only; in *)
(* the tick that may follow a BEGIN the image overwrites what it computes. *)
Glitch(c) ==
  /\ glitches < MaxGlitch
  /\ con[c].pc \in {"pump", "stall"}
  /\ ~con[c].hold
  /\ glitches' = glitches + 1
  /\ \E p \in Parts : con' = [con EXCEPT ![c].world[p] = glitches + 1]
  /\ UNCHANGED <<chan, room>>

(* The relay loses console c: it dissolves the room and tells the other.   *)
(* What c had not read yet, and what the relay had not read from c yet, is *)
(* lost with the connection.                                               *)
LoseRoom(c) ==
  /\ MayLoseRoom
  /\ room
  /\ room' = FALSE
  /\ \E n \in 0 .. Len(chan[c]), k \in 0 .. Len(chan[Peer(c)]) :
       chan' = [chan EXCEPT ![c] = SubSeq(@, 1, n),
                            ![Peer(c)] = Append(SubSeq(@, 1, k),
                                                [type |-> "LEFT"])]
  /\ UNCHANGED <<con, glitches>>

Step(c) == SampleInput(c) \/ StallRound(c) \/ HoldRound(c) \/ Park(c)

Next ==
  \/ \E c \in Seat : Step(c)
  \/ \E c \in Seat : Deliver(c)
  \/ \E c \in Seat : Glitch(c)
  \/ \E c \in Seat : LoseRoom(c)

Spec == Init /\ [][Next]_vars

(* Scheduling the code justifies: a console that is not parked keeps       *)
(* stepping, and a SES_PUMP with bytes waiting reads some of them, so what *)
(* is in flight to a console that keeps pumping is delivered in the end.   *)
Fairness == \A c \in Seat : WF_vars(Step(c)) /\ SF_vars(Deliver(c))

FairSpec == Spec /\ Fairness

-----------------------------------------------------------------------------
(* Properties.                                                             *)

Playing(c) == ~con[c].dropped
Together == Playing(0) /\ Playing(1) /\ con[0].epoch = con[1].epoch

(* The last tick whose input from seat s console c will no longer change:  *)
(* its own seat as far as it has sampled, the other as far as it has heard.*)
Horizon(c, s) ==
  IF s # c THEN con[c].wm
  ELSE Plus(con[c].tick, IF con[c].pc = "stall" THEN Delay ELSE Delay - 1)

Behind == IF Delta(con[0].tick, con[1].tick) <= 0 THEN 0 ELSE 1

(* Lockstep: from the tick of the console that is behind to the last tick  *)
(* both know, the two consoles hold the same inputs for both seats, so     *)
(* every tick is run on the same inputs on both.                           *)
InputsAgree ==
  Together =>
    LET from == con[Behind].tick
    IN  \A s \in Seat : \A k \in Slots :
          (\A c \in Seat : k <= Delta(Horizon(c, s), from))
            => con[0].ring[s][Slot(from + k)] = con[1].ring[s][Slot(from + k)]

(* The gate keeps the consoles within d + 1 ticks of each other (one that  *)
(* waits at its gate has sent its input d ticks ahead), and what a console *)
(* has heard within 2d + 1 ticks of its own: no unread ring slot is        *)
(* overwritten and no 16-bit difference is read with the wrong sign.       *)
WithinDelay ==
  /\ Together => Delta(con[0].tick, con[1].tick) \in -(Delay + 1) .. Delay + 1
  /\ \A c \in Seat : Playing(c) =>
       Delta(con[c].wm, con[c].tick) \in -1 .. 2 * Delay + 1

(* The ISR's phase counter is stopped exactly while the sim is held, once: *)
(* the value kept for the thaw is the running one.                         *)
PhasesKept ==
  \A c \in Seat :
    /\ con[c].phase = ~con[c].froze
    /\ con[c].froze => con[c].saved
    /\ con[c].pc \in {"stall", "hold", "parked"} => con[c].froze

(* On a channel that loses nothing every chunk of a push arrives inside    *)
(* the hold its BEGIN opened: DIAG_REJ stays 0 while the match lasts.      *)
NoChunkRefused == \A c \in Seat : Playing(c) => ~con[c].rej

Rebased(c) == con'[c].epoch # con[c].epoch
Ticked(c) == ~Rebased(c) /\ con'[c].tick # con[c].tick

(* A state image is swapped in whole between two ticks: the guest rebases  *)
(* only with every part in place, and no tick runs on a part of one.       *)
ImageAtomic ==
  [][\A c \in Seat : Playing(c) /\ ~con'[c].dropped =>
       /\ Ticked(c) => con[c].applied = {}
       /\ Rebased(c) /\ c # Host => con[c].applied = Parts]_vars

Raised(c, type) ==
  /\ con'[c].pend /\ ~con[c].pend
  /\ chan[c] # <<>> /\ Head(chan[c]).type = type

(* No false alarm: a checksum report raises a resync only while the two    *)
(* game states really differ.  (A zeroed record once matched the report of *)
(* tick 0, see RS_CLR_CRC.)                                                *)
AlarmIsReal ==
  [][\A c \in Seat : Raised(c, "CRC") => con[0].world # con[1].world]_vars

(* Nobody waits for ever: while the room stands and answers arrive in time *)
(* each console keeps running ticks.                                       *)
Progress == \A c \in Seat : []<><<con'[c].tick # con[c].tick>>_con

Diverged == Cksum(con[0].world) # Cksum(con[1].world)

(* A divergence the checksum covers is found by one of the two and pushed  *)
(* away.                                                                   *)
Repaired == Diverged ~> ~Diverged

(* Once the room is gone both consoles end on the terminal screen.         *)
Settled == ~room ~> \A c \in Seat : con[c].pc = "parked"
=============================================================================
