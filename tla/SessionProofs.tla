--------------------------- MODULE SessionProofs ---------------------------
(***************************************************************************)
(* What consoles show and exchange, for any number of consoles and any     *)
(* number of rooms, whenever a console is reset and whichever sends fail.  *)
(*                                                                         *)
(* A console is behind the server by the frames it has not read.  The      *)
(* invariant is that these frames are a path: they lead, place by place,   *)
(* from where the console believes to be to where the server has it.       *)
(***************************************************************************)
EXTENDS Session, ServerProofs

-----------------------------------------------------------------------------
(* A frame takes a console of one name from a place to a place.            *)
Step(w, x, v, own) == \E c, f : Tell(w, x, v, own, c, f)

(* The netplay RAM shows a place, or the match is known to be over.        *)
Agree(s, p) ==
  \/ s.dropped
  \/ ~p.in /\ s.cnt = 0 /\ ~s.active
  \/ /\ p.in /\ s.names = p.names /\ (s.active <=> p.on)
     /\ s.active => s.seat = p.seat
     /\ s.active \/ (s.cnt = 2 /\ (s.host <=> p.seat = 0))

(* What reading a frame does to the RAM, by the frame's type.              *)
LEMMA FrameRead ==
  ASSUME NEW s \in ConsoleState, NEW x, NEW own
  PROVE  LET t == OnFrame(s, x, own)
         IN  /\ t.screen = s.screen /\ t.conn = s.conn
             /\ s.active => t.active
             /\ x[1] # "PEER_LEFT" => t.dropped = s.dropped
             /\ x[1] = "PEER_LEFT" => t.dropped
             /\ x[1] # "START" => t.active = s.active /\ t.seat = s.seat
             /\ x[1] \notin {"ROOM", "START"} =>
                  t.cnt = s.cnt /\ t.host = s.host /\ t.names = s.names
             /\ x[1] = "START" => t.active /\ t.seat = x[2] /\ t.names = x[5]
             /\ x[1] = "ROOM" /\ ~s.active =>
                  IF x[2] < 2 THEN t.cnt = 0
                  ELSE t.cnt = x[2] /\ t.names = x[3] /\ t.host = (x[3][1] = own)
<1> DEFINE t == OnFrame(s, x, own)
<1>0. s.dropped \in BOOLEAN /\ s.active \in BOOLEAN
  BY DEF ConsoleState
<1>1. CASE x[1] = "LOBBY"
  <2>1. t = OnLobby(s, x)
    BY <1>1 DEF OnFrame
  <2>2. t = s \/ \E l : t = [s EXCEPT !.list = l]
    BY <2>1 DEF OnLobby
  <2> HIDE DEF t
  <2>3. ASSUME NEW l, t = [s EXCEPT !.list = l]
        PROVE  /\ t.screen = s.screen /\ t.conn = s.conn /\ t.active = s.active
               /\ t.dropped = s.dropped /\ t.seat = s.seat /\ t.cnt = s.cnt
               /\ t.host = s.host /\ t.names = s.names
    BY <2>3 DEF ConsoleState
  <2>. QED
    BY <1>1, <2>2, <2>3 DEF t
<1>2. CASE x[1] = "ROOM"
  <2>1. t = OnRoom(s, x, own)
    BY <1>2 DEF OnFrame
  <2> HIDE DEF t
  <2>2. CASE s.active
    BY <1>2, <2>1, <2>2 DEF OnRoom, t
  <2>3. CASE ~s.active /\ x[2] < 2
    <3>1. t = [s EXCEPT !.cnt = 0, !.host = FALSE]
      BY <2>1, <2>3 DEF OnRoom
    <3>. QED
      BY <1>2, <2>3, <3>1 DEF ConsoleState, t
  <2>4. CASE ~s.active /\ ~(x[2] < 2)
    <3>1. t = [s EXCEPT !.cnt = x[2], !.names = x[3], !.host = (x[3][1] = own)]
      BY <2>1, <2>4 DEF OnRoom
    <3>2. /\ t.screen = s.screen /\ t.conn = s.conn /\ t.active = s.active
          /\ t.dropped = s.dropped /\ t.seat = s.seat /\ t.cnt = x[2]
          /\ t.names = x[3] /\ t.host = (x[3][1] = own)
      BY <3>1 DEF ConsoleState
    <3>. QED
      BY <1>2, <2>4, <3>2 DEF t
  <2>. QED
    BY <2>2, <2>3, <2>4
<1>3. CASE x[1] = "START"
  <2>1. t = [s EXCEPT !.seat = x[2], !.names = x[5], !.active = TRUE]
    BY <1>3 DEF OnFrame, OnStart
  <2> HIDE DEF t
  <2>2. /\ t.screen = s.screen /\ t.conn = s.conn /\ t.active
        /\ t.dropped = s.dropped /\ t.seat = x[2] /\ t.names = x[5]
    BY <2>1 DEF ConsoleState
  <2>. QED
    BY <1>3, <2>2 DEF t
<1>4. CASE x[1] = "PEER_LEFT"
  <2>1. t = [s EXCEPT !.dropped = TRUE]
    BY <1>4 DEF OnFrame, OnPeerLeft
  <2> HIDE DEF t
  <2>. QED
    BY <1>4, <2>1 DEF ConsoleState, t
<1>5. CASE x[1] \notin {"LOBBY", "ROOM", "START", "PEER_LEFT"}
  <2>1. t = s
    BY <1>5 DEF OnFrame
  <2>. QED
    BY <1>5, <2>1
<1>. QED
  BY <1>1, <1>2, <1>3, <1>4, <1>5

(* A console that reads a frame follows it.                                *)
LEMMA AgreeStep ==
  ASSUME NEW s \in ConsoleState, NEW p \in Whereabouts, NEW v \in Whereabouts,
         NEW x, NEW own, Agree(s, p), Step(p, x, v, own)
  PROVE  Agree(OnFrame(s, x, own), v)
<1> DEFINE t == OnFrame(s, x, own)
<1>1. /\ s.active => t.active
      /\ x[1] # "PEER_LEFT" => t.dropped = s.dropped
      /\ x[1] = "PEER_LEFT" => t.dropped
      /\ x[1] # "START" => t.active = s.active /\ t.seat = s.seat
      /\ x[1] \notin {"ROOM", "START"} =>
           t.cnt = s.cnt /\ t.host = s.host /\ t.names = s.names
      /\ x[1] = "START" => t.active /\ t.seat = x[2] /\ t.names = x[5]
      /\ x[1] = "ROOM" /\ ~s.active =>
           IF x[2] < 2 THEN t.cnt = 0
           ELSE t.cnt = x[2] /\ t.names = x[3] /\ t.host = (x[3][1] = own)
  BY FrameRead
<1> HIDE DEF t
<1>2. PICK c, f : Tell(p, x, v, own, c, f)
  BY DEF Step
<1>3. CASE s.dropped
  BY <1>1, <1>3 DEF Agree, t
<1>4. CASE x[1] = "PEER_LEFT"
  BY <1>1, <1>4 DEF Agree, t
<1>5. CASE ~s.dropped /\ x[1] # "PEER_LEFT"
  <2>1. CASE v = p /\ x[1] \in {"LOBBY", "INPUT"}
    <3>1. /\ t.active = s.active /\ t.seat = s.seat /\ t.cnt = s.cnt
          /\ t.host = s.host /\ t.names = s.names /\ t.dropped = s.dropped
      BY <1>1, <1>5, <2>1
    <3>. QED
      BY <2>1, <3>1 DEF Agree, t
  <2>2. CASE p = Nowhere /\ v.in /\ ~v.on /\ Fair(v, own) /\ x = <<"ROOM", 2, v.names>>
    <3>1. ~s.active
      BY <1>5, <2>2 DEF Agree, Nowhere
    <3>2. x[1] = "ROOM" /\ x[2] = 2 /\ x[3] = v.names
      BY <2>2
    <3>3. ~t.active /\ t.cnt = 2 /\ t.names = v.names /\ t.host = (v.names[1] = own)
      BY <1>1, <3>1, <3>2
    <3>4. (v.names[1] = own) <=> v.seat = 0
      <4>1. /\ v.seat \in {0, 1} /\ v.names[v.seat + 1] = own /\ v.names[1] # v.names[2]
        BY <2>2 DEF Fair
      <4>2. CASE v.seat = 0
        BY <4>1, <4>2
      <4>3. CASE v.seat = 1
        BY <4>1, <4>3
      <4>. QED
        BY <4>1, <4>2, <4>3
    <3>. QED
      BY <2>2, <3>3, <3>4 DEF Agree, t
  <2>3. CASE /\ p.in /\ ~p.on /\ v = [p EXCEPT !.on = TRUE]
             /\ x = <<"START", p.seat, 2, Delay, p.names>>
    <3>1. x[1] = "START" /\ x[2] = p.seat /\ x[5] = p.names
      BY <2>3
    <3>2. v.in /\ v.on /\ v.names = p.names /\ v.seat = p.seat
      BY <2>3 DEF Whereabouts
    <3>3. t.active /\ t.seat = v.seat /\ t.names = v.names
      BY <1>1, <3>1, <3>2
    <3>. QED
      BY <3>2, <3>3 DEF Agree, t
  <2>4. CASE v = Nowhere /\ News(p, x)
    <3>1. ~p.on /\ x = <<"ROOM", 0, <<>>>>
      BY <1>5, <2>4 DEF News
    <3>2. ~s.active
      BY <1>5, <3>1 DEF Agree
    <3>3. x[1] = "ROOM" /\ x[2] = 0
      BY <3>1
    <3>4. ~t.active /\ t.cnt = 0
      BY <1>1, <3>2, <3>3
    <3>. QED
      BY <2>4, <3>4 DEF Agree, Nowhere, t
  <2>. QED
    BY <1>2, <1>5, <2>1, <2>2, <2>3, <2>4 DEF Tell
<1>. QED
  BY <1>3, <1>4, <1>5

-----------------------------------------------------------------------------
(* The frames that are not read yet are a path.                            *)

(* A match has begun before frame i.                                       *)
Begins(q, i) == \E j \in 1 .. i - 1 : q[j][1] = "START"

(* No news of the end of a match from frame i on.                          *)
Quiet(q, i) == \A j \in i .. Len(q) : q[j][1] # "PEER_LEFT"

Path(P, s, q, own) ==
  /\ \A i \in 1 .. Len(q) + 1 : P[i] \in Whereabouts
  /\ Agree(s, P[1])
  /\ \A i \in 1 .. Len(q) : Step(P[i], q[i], P[i + 1], own)
  /\ \A i \in 1 .. Len(q) + 1 : P[i].on => s.active \/ Begins(q, i)
  /\ \A i \in 1 .. Len(q) + 1 : P[i].on /\ Quiet(q, i) => P[Len(q) + 1] = P[i]

(* The frames q lead from what the RAM s shows to the place w.             *)
Track(s, q, own, w) == \E P : Path(P, s, q, own) /\ P[Len(q) + 1] = w

(* Nothing to read: the RAM shows the place.                               *)
LEMMA TrackEmpty ==
  ASSUME NEW s, NEW own, NEW w \in Whereabouts, Agree(s, w), w.on => s.active
  PROVE  Track(s, <<>>, own, w)
<1> DEFINE P == [i \in {1} |-> w]
<1>1. Len(<<>>) = 0 /\ 1 .. 0 = {} /\ \A i \in 1 .. 0 + 1 : i = 1
  OBVIOUS
<1>2. P[1] = w
  OBVIOUS
<1> HIDE DEF P
<1>3. Path(P, s, <<>>, own) /\ P[Len(<<>>) + 1] = w
  BY <1>1, <1>2 DEF Path
<1>. QED
  BY <1>3 DEF Track

(* Who is in a match stays in it until there is news of its end.           *)
LEMMA StepOn ==
  ASSUME NEW w \in Whereabouts, NEW x, NEW v, NEW own, Step(w, x, v, own)
  PROVE  /\ x \in Frame
         /\ w.on /\ x[1] # "PEER_LEFT" => v = w
         /\ v.on => w.on \/ x[1] = "START"
         /\ x[1] = "START" => ~w.on /\ v.on /\ v.in /\ w.in /\ v.seat = x[2]
                              /\ v.seat = w.seat /\ v.mate = w.mate
         /\ x[1] = "INPUT" => w.on /\ v = w
         /\ ~w.on => v = w \/ w = Nowhere \/ x[1] = "START" \/ v = Nowhere
<1>1. PICK c, f : Tell(w, x, v, own, c, f)
  BY DEF Step
<1>2. x \in Frame
  BY <1>1 DEF Tell
<1>3. CASE v = w /\ x[1] = "LOBBY"
  BY <1>2, <1>3
<1>4. CASE v = w /\ w.on /\ w.mate = c /\ x = f /\ x[1] = "INPUT"
  BY <1>2, <1>4
<1>5. CASE w = Nowhere /\ v.in /\ ~v.on /\ Fair(v, own) /\ x = <<"ROOM", 2, v.names>>
  <2>1. x[1] = "ROOM" /\ ~w.on
    BY <1>5 DEF Nowhere
  <2>. QED
    BY <1>2, <1>5, <2>1
<1>6. CASE /\ w.in /\ ~w.on /\ Fair(w, own) /\ v = [w EXCEPT !.on = TRUE]
           /\ x = <<"START", w.seat, 2, Delay, w.names>>
  <2>1. x[1] = "START" /\ x[2] = w.seat
    BY <1>6
  <2>2. v.in /\ v.on /\ v.seat = w.seat /\ v.mate = w.mate
    BY <1>6 DEF Whereabouts
  <2>. QED
    BY <1>2, <1>6, <2>1, <2>2
<1>7. CASE v = Nowhere /\ News(w, x)
  <2>1. ~v.on
    BY <1>7 DEF Nowhere
  <2>2. CASE w.on
    BY <1>2, <1>7, <2>1, <2>2 DEF News
  <2>3. CASE ~w.on
    <3>1. x = <<"ROOM", 0, <<>>>>
      BY <1>7, <2>3 DEF News
    <3>2. x[1] = "ROOM"
      BY <3>1
    <3>. QED
      BY <1>2, <1>7, <2>1, <2>3, <3>2
  <2>. QED
    BY <2>2, <2>3
<1>8. CASE v = Nowhere /\ x[1] = "PEER_LEFT"
  BY <1>2, <1>8 DEF Nowhere
<1>. QED
  BY <1>1, <1>3, <1>4, <1>5, <1>6, <1>7, <1>8 DEF Tell

(* A match that has begun has begun later too.                             *)
LEMMA BeginsLater ==
  ASSUME NEW q, NEW i \in Int, NEW k \in Int, i <= k, Begins(q, i)
  PROVE  Begins(q, k)
<1>1. \A j \in 1 .. i - 1 : j \in 1 .. k - 1
  OBVIOUS
<1>. QED
  BY <1>1 DEF Begins

(* One more frame makes the path one place longer.                         *)
LEMMA TrackAppend ==
  ASSUME NEW s, NEW q \in Seq(Frame), NEW own, NEW w, NEW v \in Whereabouts, NEW x,
         Track(s, q, own, w), Step(w, x, v, own)
  PROVE  /\ Append(q, x) \in Seq(Frame) /\ w \in Whereabouts
         /\ Track(s, Append(q, x), own, v)
<1>1. PICK P : Path(P, s, q, own) /\ P[Len(q) + 1] = w
  BY DEF Track
<1> DEFINE n == Len(q)
           p == Append(q, x)
           R == [i \in 1 .. n + 2 |-> IF i = n + 2 THEN v ELSE P[i]]
<1>2. n \in Nat
  BY LenProperties
<1>3. /\ \A i \in 1 .. n + 1 : P[i] \in Whereabouts
      /\ Agree(s, P[1])
      /\ \A i \in 1 .. n : Step(P[i], q[i], P[i + 1], own)
      /\ \A i \in 1 .. n + 1 : P[i].on => s.active \/ Begins(q, i)
      /\ \A i \in 1 .. n + 1 : P[i].on /\ Quiet(q, i) => P[n + 1] = P[i]
      /\ P[n + 1] = w
  BY <1>1 DEF Path
<1>4. w \in Whereabouts
  BY <1>2, <1>3
<1>5. /\ x \in Frame
      /\ w.on /\ x[1] # "PEER_LEFT" => v = w
      /\ v.on => w.on \/ x[1] = "START"
  BY <1>4, StepOn
<1>6. p \in Seq(Frame) /\ Len(p) = n + 1 /\ p[n + 1] = x /\ \A i \in 1 .. n : p[i] = q[i]
  BY <1>5, AppendProperties
<1>7. R[n + 2] = v /\ \A i \in 1 .. n + 1 : R[i] = P[i]
  BY <1>2
<1> HIDE DEF n, p, R
<1>8. \A i \in 1 .. n + 2 : R[i] \in Whereabouts
  <2>1. \A i \in 1 .. n + 2 : i = n + 2 \/ i \in 1 .. n + 1
    BY <1>2
  <2>. QED
    BY <1>3, <1>7, <2>1
<1>9. Agree(s, R[1])
  <2>1. 1 \in 1 .. n + 1
    BY <1>2
  <2>. QED
    BY <1>3, <1>7, <2>1
<1>10. \A i \in 1 .. n + 1 : Step(R[i], p[i], R[i + 1], own)
  <2>1. \A i \in 1 .. n : i \in 1 .. n + 1 /\ i + 1 \in 1 .. n + 1
    BY <1>2
  <2>2. n + 1 \in 1 .. n + 1 /\ n + 1 + 1 = n + 2
    BY <1>2
  <2>3. \A i \in 1 .. n + 1 : i = n + 1 \/ i \in 1 .. n
    BY <1>2
  <2>4. \A i \in 1 .. n : Step(R[i], p[i], R[i + 1], own)
    BY <1>3, <1>6, <1>7, <2>1
  <2>5. Step(R[n + 1], p[n + 1], R[n + 1 + 1], own)
    BY <1>3, <1>6, <1>7, <2>2
  <2>. QED
    BY <2>3, <2>4, <2>5
<1>11. \A i \in 1 .. n + 1 : Begins(q, i) => Begins(p, i)
  <2>1. \A i \in 1 .. n + 1 : \A j \in 1 .. i - 1 : j \in 1 .. n
    BY <1>2
  <2>. QED
    BY <1>6, <2>1 DEF Begins
<1>12. ASSUME NEW i \in 1 .. n + 2, R[i].on
       PROVE  s.active \/ Begins(p, i)
  <2>1. CASE i \in 1 .. n + 1
    BY <1>3, <1>7, <1>11, <1>12, <2>1
  <2>2. CASE i = n + 2
    <3>1. v.on
      BY <1>7, <1>12, <2>2
    <3>2. CASE x[1] = "START"
      <4>1. n + 1 \in 1 .. i - 1
        BY <1>2, <2>2
      <4>. QED
        BY <1>6, <3>2, <4>1 DEF Begins
    <3>3. CASE w.on
      <4>1. n + 1 \in 1 .. n + 1
        BY <1>2
      <4>2. s.active \/ Begins(p, n + 1)
        BY <1>3, <1>11, <3>3, <4>1
      <4>3. n + 1 \in Int /\ i \in Int /\ n + 1 <= i
        BY <1>2, <2>2
      <4>. QED
        BY <4>2, <4>3, BeginsLater
    <3>. QED
      BY <1>5, <3>1, <3>2, <3>3
  <2>. QED
    BY <1>2, <2>1, <2>2
<1>13. ASSUME NEW i \in 1 .. n + 2, R[i].on, Quiet(p, i)
       PROVE  R[n + 2] = R[i]
  <2>1. CASE i = n + 2
    BY <2>1
  <2>2. CASE i \in 1 .. n + 1
    <3>1. n + 1 \in i .. Len(p) /\ \A j \in i .. n : j \in i .. Len(p) /\ j \in 1 .. n
      BY <1>2, <1>6, <2>2
    <3>2. x[1] # "PEER_LEFT"
      BY <1>6, <1>13, <3>1 DEF Quiet
    <3>3. \A j \in i .. n : q[j][1] # "PEER_LEFT"
      BY <1>6, <1>13, <3>1 DEF Quiet
    <3>4. Quiet(q, i)
      BY <3>3 DEF Quiet, n
    <3>5. w = P[i] /\ P[i].on
      BY <1>3, <1>7, <1>13, <2>2, <3>4
    <3>. QED
      BY <1>5, <1>7, <2>2, <3>2, <3>5
  <2>. QED
    BY <1>2, <2>1, <2>2
<1>14. n + 1 + 1 = n + 2
  BY <1>2
<1>15. Path(R, s, p, own)
  BY <1>6, <1>8, <1>9, <1>10, <1>12, <1>13, <1>14 DEF Path
<1>16. R[Len(p) + 1] = v
  BY <1>6, <1>7, <1>14
<1>. QED
  BY <1>4, <1>6, <1>15, <1>16 DEF Track, p

(* Reading a frame takes the first step.                                   *)
LEMMA TrackRead ==
  ASSUME NEW s \in ConsoleState, NEW q \in Seq(Frame), q # <<>>, NEW own, NEW w,
         Track(s, q, own, w)
  PROVE  Track(OnFrame(s, Head(q), own), Tail(q), own, w)
<1>1. PICK P : Path(P, s, q, own) /\ P[Len(q) + 1] = w
  BY DEF Track
<1> DEFINE n == Len(q)
           p == Tail(q)
           x == q[1]
           t == OnFrame(s, x, own)
           R == [i \in 1 .. n |-> P[i + 1]]
<1>2. n \in Nat /\ n # 0 /\ n - 1 + 1 = n
  BY EmptySeq
<1>3. /\ p \in Seq(Frame) /\ Len(p) = n - 1 /\ Head(q) = x
      /\ \A i \in 1 .. n - 1 : p[i] = q[i + 1]
  BY HeadTailProperties
<1>4. /\ \A i \in 1 .. n + 1 : P[i] \in Whereabouts
      /\ Agree(s, P[1])
      /\ \A i \in 1 .. n : Step(P[i], q[i], P[i + 1], own)
      /\ \A i \in 1 .. n + 1 : P[i].on => s.active \/ Begins(q, i)
      /\ \A i \in 1 .. n + 1 : P[i].on /\ Quiet(q, i) => P[n + 1] = P[i]
      /\ P[n + 1] = w
  BY <1>1 DEF Path
<1>5. \A i \in 1 .. n : R[i] = P[i + 1] /\ i + 1 \in 1 .. n + 1
  BY <1>2
<1>6. 1 \in 1 .. n /\ n \in 1 .. n /\ 1 + 1 = 2 /\ 1 \in 1 .. n + 1 /\ 2 \in 1 .. n + 1
  BY <1>2
<1>7. /\ s.active => t.active
      /\ x[1] = "START" => t.active
  BY FrameRead
<1>8. Step(P[1], x, P[2], own)
  BY <1>4, <1>6
<1>9. Agree(t, P[2])
  BY <1>4, <1>6, <1>8, AgreeStep
<1> HIDE DEF n, p, R, t
<1>10. \A i \in 1 .. n : R[i] \in Whereabouts
  BY <1>4, <1>5
<1>11. Agree(t, R[1])
  BY <1>5, <1>6, <1>9
<1>12. \A i \in 1 .. n - 1 : Step(R[i], p[i], R[i + 1], own)
  <2>1. \A i \in 1 .. n - 1 : i \in 1 .. n /\ i + 1 \in 1 .. n
    BY <1>2
  <2>. QED
    BY <1>3, <1>4, <1>5, <2>1
<1>13. ASSUME NEW i \in 1 .. n, R[i].on
       PROVE  t.active \/ Begins(p, i)
  <2>1. s.active \/ Begins(q, i + 1)
    BY <1>4, <1>5, <1>13
  <2>2. CASE Begins(q, i + 1)
    <3>1. PICK j \in 1 .. i + 1 - 1 : q[j][1] = "START"
      BY <2>2 DEF Begins
    <3>2. CASE j = 1
      BY <1>7, <3>1, <3>2
    <3>3. CASE j # 1
      <4>1. j - 1 \in 1 .. i - 1 /\ j - 1 \in 1 .. n - 1 /\ j - 1 + 1 = j
        BY <1>2, <3>3
      <4>2. p[j - 1][1] = "START"
        BY <1>3, <3>1, <4>1
      <4>. QED
        BY <4>1, <4>2 DEF Begins
    <3>. QED
      BY <3>2, <3>3
  <2>. QED
    BY <1>7, <2>1, <2>2
<1>14. ASSUME NEW i \in 1 .. n, R[i].on, Quiet(p, i)
       PROVE  R[n] = R[i]
  <2>1. ASSUME NEW j \in i + 1 .. n
        PROVE  q[j][1] # "PEER_LEFT"
    <3>1. j - 1 \in i .. Len(p) /\ j - 1 \in 1 .. n - 1 /\ j - 1 + 1 = j
      BY <1>2, <1>3
    <3>2. p[j - 1] = q[j]
      BY <1>3, <3>1
    <3>. QED
      BY <1>14, <3>1, <3>2 DEF Quiet
  <2>2. Quiet(q, i + 1)
    BY <2>1 DEF Quiet, n
  <2>. QED
    BY <1>4, <1>5, <1>6, <1>14, <2>2
<1>15. Path(R, t, p, own)
  BY <1>2, <1>3, <1>10, <1>11, <1>12, <1>13, <1>14 DEF Path
<1>16. R[Len(p) + 1] = w
  BY <1>2, <1>3, <1>4, <1>5, <1>6
<1>17. Track(t, p, own, w)
  BY <1>15, <1>16 DEF Track
<1>. QED
  BY <1>3, <1>17 DEF t, p

(* What a path says of its end and of the frames on it.                    *)
LEMMA TrackSays ==
  ASSUME NEW s, NEW q \in Seq(Frame), NEW own, NEW w, Track(s, q, own, w)
  PROVE  /\ w \in Whereabouts
         /\ q = <<>> => Agree(s, w)
         /\ Quiet(q, 1) /\ s.active /\ ~s.dropped => Agree(s, w)
         /\ \A i \in DOMAIN q : q[i][1] = "INPUT" => s.active \/ Begins(q, i)
         /\ Quiet(q, 1) => \A i \in DOMAIN q :
              /\ q[i][1] = "INPUT" => w.on
              /\ q[i][1] = "START" => w.on /\ w.seat = q[i][2]
         /\ q # <<>> /\ s.active /\ ~s.dropped => q[1][1] # "START"
<1>1. PICK P : Path(P, s, q, own) /\ P[Len(q) + 1] = w
  BY DEF Track
<1> DEFINE n == Len(q)
<1>2. n \in Nat /\ DOMAIN q = 1 .. n /\ 1 \in 1 .. n + 1 /\ n + 1 \in 1 .. n + 1
  BY LenProperties
<1>3. /\ \A i \in 1 .. n + 1 : P[i] \in Whereabouts
      /\ Agree(s, P[1])
      /\ \A i \in 1 .. n : Step(P[i], q[i], P[i + 1], own)
      /\ \A i \in 1 .. n + 1 : P[i].on => s.active \/ Begins(q, i)
      /\ \A i \in 1 .. n + 1 : P[i].on /\ Quiet(q, i) => P[n + 1] = P[i]
      /\ P[n + 1] = w
  BY <1>1 DEF Path
<1>4. w \in Whereabouts
  BY <1>2, <1>3
<1>5. q = <<>> => Agree(s, w)
  <2>1. q = <<>> => n + 1 = 1
    BY EmptySeq
  <2>. QED
    BY <1>3, <2>1
<1> HIDE DEF n
<1>6. ASSUME NEW i \in 1 .. n
      PROVE  /\ i \in 1 .. n + 1 /\ i + 1 \in 1 .. n + 1
             /\ P[i] \in Whereabouts /\ Step(P[i], q[i], P[i + 1], own)
  BY <1>2, <1>3
<1>7. ASSUME NEW i \in 1 .. n
      PROVE  /\ q[i][1] = "INPUT" => P[i].on /\ P[i + 1] = P[i]
             /\ q[i][1] = "START" => ~P[i].on /\ P[i + 1].on /\ P[i + 1].seat = q[i][2]
  BY <1>6, StepOn
<1>8. \A i \in 1 .. n : q[i][1] = "INPUT" => s.active \/ Begins(q, i)
  BY <1>3, <1>6, <1>7
<1>9. ASSUME Quiet(q, 1), NEW i \in 1 .. n + 1
      PROVE  Quiet(q, i)
  <2>1. \A j \in i .. Len(q) : j \in 1 .. Len(q)
    BY <1>2
  <2>. QED
    BY <1>9, <2>1 DEF Quiet
<1>10. ASSUME Quiet(q, 1), NEW i \in 1 .. n + 1, P[i].on
       PROVE  w = P[i]
  BY <1>3, <1>9, <1>10
<1>11. Quiet(q, 1) => \A i \in 1 .. n :
         /\ q[i][1] = "INPUT" => w.on
         /\ q[i][1] = "START" => w.on /\ w.seat = q[i][2]
  BY <1>6, <1>7, <1>10
<1>12. ASSUME s.active, ~s.dropped
       PROVE  P[1].on
  BY <1>3, <1>12 DEF Agree
<1>13. ASSUME Quiet(q, 1), s.active, ~s.dropped
       PROVE  Agree(s, w)
  BY <1>2, <1>3, <1>10, <1>12, <1>13
<1>14. ASSUME q # <<>>, s.active, ~s.dropped
       PROVE  q[1][1] # "START"
  <2>1. 1 \in 1 .. n
    BY <1>2, <1>14, EmptySeq DEF n
  <2>. QED
    BY <1>7, <1>12, <1>14, <2>1
<1>15. \A i \in DOMAIN q : q[i][1] = "INPUT" => s.active \/ Begins(q, i)
  BY <1>2, <1>8
<1>16. Quiet(q, 1) => \A i \in DOMAIN q :
         /\ q[i][1] = "INPUT" => w.on
         /\ q[i][1] = "START" => w.on /\ w.seat = q[i][2]
  BY <1>2, <1>11
<1>17. /\ Quiet(q, 1) /\ s.active /\ ~s.dropped => Agree(s, w)
       /\ q # <<>> /\ s.active /\ ~s.dropped => q[1][1] # "START"
  BY <1>13, <1>14
<1>. QED
  BY <1>4, <1>5, <1>15, <1>16, <1>17

-----------------------------------------------------------------------------
(* What a turn of the server sends a console.                              *)

(* Nobody who has not said his name is told of a place under it.           *)
LEMMA TellOwn ==
  ASSUME NEW w, NEW x, NEW v, NEW n, NEW own, NEW c, NEW f,
         n \in {None, own}, Tell(w, x, v, n, c, f)
  PROVE  Tell(w, x, v, own, c, f)
<1>1. ASSUME NEW u, Fair(u, n)
      PROVE  Fair(u, own)
  <2>1. /\ u.seat \in {0, 1} /\ u.names \in Seq(Name) /\ Len(u.names) = 2
        /\ u.names[u.seat + 1] = n
    BY <1>1 DEF Fair
  <2>2. u.seat + 1 \in 1 .. Len(u.names)
    BY <2>1
  <2>3. n \in Name
    BY <2>1, <2>2, ElementOfSeq
  <2>4. n = own
    BY <2>3, ServerAssumption
  <2>. QED
    BY <1>1, <2>4
<1>. QED
  BY <1>1 DEF Tell

(* A turn of the server sends a console no INPUT but the one it handles,   *)
(* from the mate, and takes it out of a match only with the news.          *)
LEMMA CameSays ==
  ASSUME NEW w \in Whereabouts, NEW v \in Whereabouts, NEW p, NEW own, NEW c, NEW f,
         Came(w, <<>>, v, p, own, c, f)
  PROVE  /\ p \in Seq(Frame)
         /\ (\A i \in DOMAIN p : p[i][1] # "PEER_LEFT") =>
              /\ w.on => v = w
              /\ \A i \in DOMAIN p : p[i][1] = "INPUT" => p[i] = f /\ v.mate = c
<1>1. ASSUME NEW a, NEW x, NEW b, Tell(a, x, b, own, c, f)
      PROVE  x[1] = "INPUT" => b.mate = c /\ x = f
  <2>1. CASE x[1] = "LOBBY" \/ x[1] = "PEER_LEFT"
    BY <2>1
  <2>2. CASE b = a /\ a.on /\ a.mate = c /\ x = f /\ x[1] = "INPUT"
    BY <2>2
  <2>3. CASE x = <<"ROOM", 2, b.names>>
    <3>1. x[1] = "ROOM"
      BY <2>3
    <3>. QED
      BY <3>1
  <2>4. CASE x = <<"START", a.seat, 2, Delay, a.names>>
    <3>1. x[1] = "START"
      BY <2>4
    <3>. QED
      BY <3>1
  <2>5. CASE News(a, x)
    <3>1. x[1] = "PEER_LEFT" \/ x = <<"ROOM", 0, <<>>>>
      BY <2>5 DEF News
    <3>2. x = <<"ROOM", 0, <<>>>> => x[1] = "ROOM"
      OBVIOUS
    <3>. QED
      BY <3>1, <3>2
  <2>. QED
    BY <1>1, <2>1, <2>2, <2>3, <2>4, <2>5 DEF Tell
<1>2. CASE v = w /\ p = <<>>
  <2>1. <<>> \in Seq(Frame) /\ DOMAIN <<>> = {}
    BY EmptySeq
  <2>. QED
    BY <1>2, <2>1
<1>3. ASSUME NEW x, Tell(w, x, v, own, c, f), p = Append(<<>>, x)
      PROVE  /\ p \in Seq(Frame)
             /\ (\A i \in DOMAIN p : p[i][1] # "PEER_LEFT") =>
                  /\ w.on => v = w
                  /\ \A i \in DOMAIN p : p[i][1] = "INPUT" => p[i] = f /\ v.mate = c
  <2>1. Step(w, x, v, own)
    BY <1>3 DEF Step
  <2>2. x \in Frame /\ (w.on /\ x[1] # "PEER_LEFT" => v = w)
    BY <2>1, StepOn
  <2>3. p = <<x>>
    BY <1>3
  <2>4. p \in Seq(Frame) /\ DOMAIN p = 1 .. 1 /\ p[1] = x
    BY <2>2, <2>3
  <2>5. \A i \in DOMAIN p : i = 1
    BY <2>4
  <2>. QED
    BY <1>1, <1>3, <2>2, <2>4, <2>5
<1>4. ASSUME NEW x, NEW y, NEW u \in Whereabouts, Tell(w, x, u, own, c, f),
             Tell(u, y, v, own, c, f), p = Append(Append(<<>>, x), y)
      PROVE  /\ p \in Seq(Frame)
             /\ (\A i \in DOMAIN p : p[i][1] # "PEER_LEFT") =>
                  /\ w.on => v = w
                  /\ \A i \in DOMAIN p : p[i][1] = "INPUT" => p[i] = f /\ v.mate = c
  <2>1. Step(w, x, u, own) /\ Step(u, y, v, own)
    BY <1>4 DEF Step
  <2>2. /\ x \in Frame /\ (w.on /\ x[1] # "PEER_LEFT" => u = w)
        /\ y \in Frame /\ (u.on /\ y[1] # "PEER_LEFT" => v = u)
        /\ x[1] = "INPUT" => w.on /\ u = w
    BY <2>1, StepOn
  <2>3. /\ <<x>> \in Seq(Frame) /\ Len(<<x>>) = 1 /\ <<x>>[1] = x
        /\ p = Append(<<x>>, y)
    BY <1>4, <2>2
  <2>4. p \in Seq(Frame) /\ DOMAIN p = 1 .. 2 /\ p[1] = x /\ p[2] = y
    <3> DEFINE z == <<x>>
    <3>1. z \in Seq(Frame) /\ Len(z) = 1 /\ z[1] = x /\ p = Append(z, y)
      BY <2>3
    <3> HIDE DEF z
    <3>2. /\ p \in Seq(Frame) /\ Len(p) = Len(z) + 1 /\ p[Len(z) + 1] = y
          /\ \A i \in 1 .. Len(z) : p[i] = z[i]
      <4>1. /\ Append(z, y) \in Seq(Frame) /\ Len(Append(z, y)) = Len(z) + 1
            /\ Append(z, y)[Len(z) + 1] = y
            /\ \A i \in 1 .. Len(z) : Append(z, y)[i] = z[i]
        <5>1. y \in Frame
          BY <2>2
        <5>2. z \in Seq(Frame)
          BY <3>1
        <5>. QED
          BY <5>1, <5>2, AppendProperties
      <4>2. p = Append(z, y)
        BY <3>1
      <4>. QED
        BY <4>1, <4>2
    <3>3. Len(p) = 2
      BY <3>1, <3>2
    <3>. QED
      BY <3>1, <3>2, <3>3
  <2>5. \A i \in DOMAIN p : i = 1 \/ i = 2
    BY <2>4
  <2>6. x[1] = "INPUT" => u.mate = c /\ x = f /\ u.on
    BY <1>1, <1>4, <2>2
  <2>7. y[1] = "INPUT" => v.mate = c /\ y = f
    BY <1>1, <1>4
  <2>8. ASSUME \A i \in DOMAIN p : p[i][1] # "PEER_LEFT"
        PROVE  /\ w.on => v = w
               /\ \A i \in DOMAIN p : p[i][1] = "INPUT" => p[i] = f /\ v.mate = c
    <3>1. x[1] # "PEER_LEFT" /\ y[1] # "PEER_LEFT"
      BY <2>4, <2>8
    <3>2. w.on => v = w
      BY <2>2, <3>1
    <3>3. x[1] = "INPUT" => x = f /\ v.mate = c
      BY <2>2, <2>6, <3>1
    <3>. QED
      BY <2>4, <2>5, <2>7, <3>2, <3>3
  <2>. QED
    BY <2>4, <2>8
<1>. QED
  BY <1>2, <1>3, <1>4 DEF Came

(* The frames of a turn lengthen the path to where the server now has the  *)
(* console.                                                                *)
LEMMA TrackCame ==
  ASSUME NEW s, NEW q \in Seq(Frame), NEW own, NEW n, n \in {None, own},
         NEW w, NEW v \in Whereabouts, NEW p, NEW c, NEW f,
         Track(s, q, own, w), Came(w, <<>>, v, p, n, c, f)
  PROVE  p \in Seq(Frame) /\ Track(s, q \o p, own, v)
<1>1. w \in Whereabouts
  BY TrackSays
<1>2. p \in Seq(Frame)
  BY <1>1, CameSays
<1>3. \A a, x, b : Tell(a, x, b, n, c, f) => Step(a, x, b, own)
  BY TellOwn DEF Step
<1>4. q \o <<>> = q
  BY ConcatEmptySeq
<1>5. CASE v = w /\ p = <<>>
  BY <1>2, <1>4, <1>5
<1>6. ASSUME NEW x, Tell(w, x, v, n, c, f), p = Append(<<>>, x)
      PROVE  Track(s, q \o p, own, v)
  <2>1. Track(s, Append(q, x), own, v)
    BY <1>3, <1>6, TrackAppend
  <2>2. x \in Frame /\ p = <<x>>
    BY <1>6 DEF Tell
  <2>3. q \o p = Append(q, x)
    BY <2>2, AppendIsConcat
  <2>. QED
    BY <2>1, <2>3
<1>7. ASSUME NEW x, NEW y, NEW u \in Whereabouts, Tell(w, x, u, n, c, f),
             Tell(u, y, v, n, c, f), p = Append(Append(<<>>, x), y)
      PROVE  Track(s, q \o p, own, v)
  <2>1. Append(q, x) \in Seq(Frame) /\ Track(s, Append(q, x), own, u)
    BY <1>3, <1>7, TrackAppend
  <2>2. Track(s, Append(Append(q, x), y), own, v)
    BY <1>3, <1>7, <2>1, TrackAppend
  <2>3. x \in Frame /\ y \in Frame /\ p = <<x>> \o <<y>> /\ <<x>> \in Seq(Frame)
        /\ <<y>> \in Seq(Frame)
    BY <1>7 DEF Tell
  <2>4. (q \o <<x>>) \o <<y>> = q \o (<<x>> \o <<y>>)
    BY <2>3, ConcatAssociative
  <2>5. q \o <<x>> = Append(q, x)
    BY <2>3, AppendIsConcat
  <2>6. Append(q, x) \o <<y>> = Append(Append(q, x), y)
    BY <2>1, <2>3, AppendIsConcat
  <2>. QED
    BY <2>2, <2>3, <2>4, <2>5, <2>6
<1>. QED
  BY <1>2, <1>5, <1>6, <1>7 DEF Came

(* No INPUT from a mate claims the seat of the one who reads it.           *)
Clean(q, w, e) == w.mate = e => \A i \in DOMAIN q : q[i][1] = "INPUT" => q[i][2] # w.seat

(* That stays so when the mate's INPUT has the mate's seat.                *)
LEMMA CleanCame ==
  ASSUME NEW s, NEW q \in Seq(Frame), NEW own, NEW n, NEW e, NEW w,
         NEW v \in Whereabouts, NEW p, NEW c, NEW f,
         Track(s, q, own, w), Came(w, <<>>, v, p, n, c, f), Quiet(q \o p, 1),
         Clean(q, w, e), f[1] = "INPUT" /\ c = e /\ v.mate = e => f[2] # v.seat
  PROVE  Clean(q \o p, v, e)
<1> DEFINE r == q \o p
           k == Len(q)
           m == Len(p)
<1>1. w \in Whereabouts
  BY TrackSays
<1>2. /\ p \in Seq(Frame)
      /\ (\A i \in DOMAIN p : p[i][1] # "PEER_LEFT") =>
           /\ w.on => v = w
           /\ \A i \in DOMAIN p : p[i][1] = "INPUT" => p[i] = f /\ v.mate = c
  BY <1>1, CameSays
<1>3. /\ Len(r) = k + m /\ k \in Nat /\ m \in Nat
      /\ \A i \in 1 .. k + m : r[i] = IF i <= k THEN q[i] ELSE p[i - k]
      /\ DOMAIN r = 1 .. k + m /\ DOMAIN q = 1 .. k /\ DOMAIN p = 1 .. m
  <2>1. /\ r \in Seq(Frame) /\ Len(r) = k + m
        /\ \A i \in 1 .. k + m : r[i] = IF i <= k THEN q[i] ELSE p[i - k]
    BY <1>2, ConcatProperties
  <2>. QED
    BY <1>2, <2>1, LenProperties
<1>4. \A j \in 1 .. k + m : r[j][1] # "PEER_LEFT"
  BY <1>3 DEF Quiet
<1> HIDE DEF r, k, m
<1>5. \A j \in 1 .. k : j \in 1 .. k + m /\ r[j] = q[j]
  BY <1>3
<1>6. \A j \in 1 .. m : j + k \in 1 .. k + m /\ r[j + k] = p[j]
  <2>1. \A j \in 1 .. m : j + k \in 1 .. k + m /\ ~(j + k <= k) /\ j + k - k = j
    BY <1>3
  <2>. QED
    BY <1>3, <2>1
<1>7. Quiet(q, 1)
  BY <1>4, <1>5 DEF Quiet, k
<1>8. \A j \in DOMAIN p : p[j][1] # "PEER_LEFT"
  BY <1>3, <1>4, <1>6
<1>9. ASSUME v.mate = e, NEW i \in 1 .. k + m, r[i][1] = "INPUT"
      PROVE  r[i][2] # v.seat
  <2>1. CASE i <= k
    <3>1. i \in DOMAIN q /\ r[i] = q[i]
      BY <1>3, <2>1
    <3>2. w.on
      BY <1>7, <1>9, <3>1, TrackSays
    <3>3. v = w
      BY <1>2, <1>8, <3>2
    <3>. QED
      BY <1>9, <3>1, <3>3 DEF Clean
  <2>2. CASE ~(i <= k)
    <3>1. i - k \in DOMAIN p /\ r[i] = p[i - k]
      BY <1>3, <2>2
    <3>2. r[i] = f /\ v.mate = c
      BY <1>2, <1>8, <1>9, <3>1
    <3>. QED
      BY <1>9, <3>2
  <2>. QED
    BY <2>1, <2>2
<1>. QED
  BY <1>3, <1>9 DEF Clean, r

-----------------------------------------------------------------------------
(* The invariant.                                                          *)
Reading(k) == con[k].screen \in {"lobby", "match"}
Way(k) == down[con[k].conn]                  \* frames it has not read
Sat(k) == Where(mem, con[k].conn)            \* where the server has it
Calm(k) == Reading(k) /\ ~con[k].dropped /\ Quiet(Way(k), 1)
Known == mem.live \cup pending

(* The server between two turns.                                           *)
MemoryInv ==
  /\ Good(mem) /\ mem.autoGo = 0 /\ mem.fuse = Sound
  /\ \A c \in Client : mem.sent[c] = <<>> /\ (c \notin mem.live => mem.name[c] = None)

BoxesInv ==
  /\ pending \subseteq Client \ mem.live
  /\ up \in [Client -> Seq(Asked)] /\ down \in [Client -> Seq(Frame)]
  /\ \A c \in Client : /\ Len(up[c]) <= MaxFlight
                       /\ c \notin Known => up[c] = <<>>
                       /\ ~Used(c) => down[c] = <<>>

ConsInv ==
  /\ con \in [Console -> ConsoleState]
  /\ \A k \in Console : /\ con[k].screen = "off" <=> con[k].conn = None
                        /\ con[k].screen = "match" => con[k].active
                        /\ con[k].screen = "parked" => con[k].dropped
  /\ \A j, k \in Console : con[j].conn = con[k].conn /\ con[k].conn # None => j = k

(* HELLO is the first frame of a connection.                               *)
HelloInv ==
  \A c \in Client : \A i \in DOMAIN up[c] : up[c][i][1] = "HELLO" =>
    /\ i = 1 /\ mem.name[c] = None
    /\ \A k \in Console : con[k].conn = c => up[c][i][3] = NameOf[k]

NameInv ==
  \A k \in Console : con[k].conn \in mem.live => mem.name[con[k].conn] \in {None, NameOf[k]}

(* Unread frames lead to where the server has the console.                 *)
TrackInv ==
  \A k \in Console : Reading(k) =>
    \E w : /\ Track(con[k], Way(k), NameOf[k], w)
           /\ con[k].conn \in Known => w = Sat(k)

(* Who has no news of an end sends the INPUT of the match he is in.        *)
InputInv ==
  \A k \in Console : Calm(k) => \A i \in DOMAIN up[con[k].conn] :
    up[con[k].conn][i][1] = "INPUT" => con[k].active /\ up[con[k].conn][i][2] = con[k].seat

(* Between two with no news of an end, INPUT comes from the other seat.    *)
PairInv ==
  \A j, k \in Console : Calm(j) /\ Calm(k) /\ con[k].conn \in mem.live
    => Clean(Way(k), Sat(k), con[j].conn)

Inv ==
  /\ MemoryInv /\ BoxesInv /\ ConsInv /\ HelloInv
  /\ NameInv /\ TrackInv /\ InputInv /\ PairInv

(* A server that has just begun to listen is in good order.                *)
LEMMA BootGood ==
  LET m == Boot(0)
  IN  /\ Good(m) /\ m.autoGo = 0 /\ m.fuse = Sound /\ m.live = {}
      /\ \A c \in Client : m.sent[c] = <<>> /\ m.name[c] = None /\ m.room[c] = None
<1> DEFINE m == Boot(0)
           S == [c \in Client |-> <<>>]
           N == [c \in Client |-> None]
<1>1. /\ m.live = {} /\ m.name = N /\ m.byName = <<>> /\ m.room = N
      /\ m.members = [r \in RoomId |-> <<>>] /\ m.started = {}
      /\ m.crc = [r \in RoomId |-> {}] /\ m.ok = [r \in RoomId |-> 0]
      /\ m.sent = S /\ m.log = <<>> /\ m.fuse = Sound /\ m.autoGo = 0
  BY DEF Boot
<1>2. /\ <<>> \in Seq(Frame \cup {EOF}) /\ <<>> \in Seq(Frame) /\ <<>> \in Seq(Client)
      /\ <<>> \in Seq([name : Name, client : Client]) /\ None \notin RoomId
  BY EmptySeq, ServerAssumption
<1>3. Typed(m)
  <2>1. S \in [Client -> Seq(Frame \cup {EOF})]
    BY <1>2
  <2>2. [r \in RoomId |-> <<>>] \in [RoomId -> Seq(Client)]
    BY <1>2
  <2>3. Sound \in [Client -> {-1, 0, 1}] /\ <<>> \in {m.log}
    BY <1>1 DEF Sound
  <2>. QED
    BY <1>2, <2>1, <2>2, <2>3 DEF Typed, Boot
<1>4. \A c \in Client : m.sent[c] = <<>> /\ m.name[c] = None /\ m.room[c] = None
  BY <1>1
<1>5. \A r \in RoomId : m.members[r] = <<>> /\ m.crc[r] = {}
  BY <1>1
<1> HIDE DEF m
<1>6. Sending(m)
  BY <1>1, <1>2, <1>4, FramesOfOpen DEF Sending, Out
<1>7. Rooms(m)
  BY <1>1, <1>2, <1>4, <1>5 DEF Rooms, In
<1>8. Dict(m)
  BY <1>1 DEF Dict
<1>9. Few(m) /\ Tables(m)
  <2>1. IsFiniteSet({}) /\ Cardinality({}) = 0
    BY FS_EmptySet
  <2>2. MaxPerIp \in Nat
    BY ServerAssumption
  <2>. QED
    BY <1>1, <1>5, <2>1, <2>2 DEF Few, Tables
<1>10. Good(m)
  BY <1>3, <1>6, <1>7, <1>8, <1>9 DEF Good
<1>. QED
  BY <1>1, <1>4, <1>10 DEF m

(* Who is in no room is nowhere.                                           *)
LEMMA OutIsNowhere ==
  ASSUME NEW m, Good(m), NEW c, c \in Client, c \notin m.live
  PROVE  Where(m, c) = Nowhere
<1>1. m.room[c] = None
  BY DEF Good, Rooms
<1>. QED
  BY <1>1 DEF Where

(* The RAM of a console that is off is well formed.                        *)
LEMMA OffTyped == Off \in ConsoleState
<1>1. <<>> \in Seq(Name)
  BY EmptySeq
<1>. QED
  BY <1>1 DEF Off, ConsoleState, Screen

(* The invariant holds when all consoles are off.                          *)
LEMMA SessionInit == Init => Inv
<1>1. SUFFICES ASSUME Init
               PROVE  Inv
  OBVIOUS
<1>2. /\ con = [k \in Console |-> Off] /\ mem = Boot(0)
      /\ up = [c \in Client |-> <<>>] /\ down = up /\ pending = {}
  BY <1>1 DEF Init
<1>3. \A k \in Console : con[k] = Off /\ con[k].screen = "off" /\ con[k].conn = None
  BY <1>2 DEF Off
<1>4. \A c \in Client : up[c] = <<>> /\ down[c] = <<>>
  BY <1>2
<1>5. \A k \in Console : ~Reading(k)
  BY <1>3 DEF Reading
<1>6. /\ Good(mem) /\ mem.autoGo = 0 /\ mem.fuse = Sound /\ mem.live = {}
      /\ \A c \in Client : mem.sent[c] = <<>> /\ mem.name[c] = None /\ mem.room[c] = None
  BY <1>2, BootGood
<1>7. MemoryInv
  BY <1>6 DEF MemoryInv
<1>8. BoxesInv
  <2>1. <<>> \in Seq(Asked) /\ <<>> \in Seq(Frame) /\ Len(<<>>) = 0
    BY EmptySeq
  <2>2. up \in [Client -> Seq(Asked)] /\ down \in [Client -> Seq(Frame)]
    BY <1>2, <2>1
  <2>3. 0 <= MaxFlight
    BY SessionAssumption
  <2>. QED
    BY <1>2, <1>4, <1>6, <2>1, <2>2, <2>3 DEF BoxesInv
<1>9. ConsInv
  <2>1. con \in [Console -> ConsoleState]
    BY <1>2, OffTyped
  <2>. QED
    BY <1>3, <2>1 DEF ConsInv
<1>10. HelloInv
  BY <1>4 DEF HelloInv
<1>11. NameInv
  BY <1>6 DEF NameInv
<1>12. TrackInv /\ InputInv /\ PairInv
  BY <1>5 DEF TrackInv, InputInv, PairInv, Calm
<1>. QED
  BY <1>7, <1>8, <1>9, <1>10, <1>11, <1>12 DEF Inv

-----------------------------------------------------------------------------
(* Steps of a console.                                                     *)

(* Any frame of a session leaves the RAM well formed.                      *)
LEMMA FrameTyped ==
  ASSUME NEW s \in ConsoleState, NEW x \in Frame, NEW own
  PROVE  OnFrame(s, x, own) \in ConsoleState
<1>1. ASSUME NEW l \in Seq(Name \X Nat), x = <<"LOBBY", l>>
      PROVE  OnFrame(s, x, own) \in ConsoleState
  <2> DEFINE L == {l[i][1] : i \in {j \in DOMAIN l : l[j][2] < 128}}
  <2>1. L \in SUBSET Name
    OBVIOUS
  <2>2. OnFrame(s, x, own) = IF s.active THEN s ELSE [s EXCEPT !.list = L]
    BY <1>1 DEF OnFrame, OnLobby
  <2> HIDE DEF L
  <2>3. [s EXCEPT !.list = L] \in ConsoleState
    BY <2>1 DEF ConsoleState
  <2>. QED
    BY <2>2, <2>3
<1>2. CASE x = <<"ROOM", 0, <<>>>>
  <2>1. x[1] = "ROOM" /\ x[2] < 2
    BY <1>2
  <2>2. OnFrame(s, x, own) = IF s.active THEN s ELSE [s EXCEPT !.cnt = 0, !.host = FALSE]
    BY <2>1 DEF OnFrame, OnRoom
  <2>3. [s EXCEPT !.cnt = 0, !.host = FALSE] \in ConsoleState
    BY DEF ConsoleState
  <2>. QED
    BY <2>2, <2>3
<1>3. ASSUME NEW a \in Name, NEW b \in Name, x = <<"ROOM", 2, <<a, b>>>>
      PROVE  OnFrame(s, x, own) \in ConsoleState
  <2> DEFINE p == <<a, b>>
             h == x[3][1] = own
  <2>1. x[1] = "ROOM" /\ x[2] = 2 /\ x[3] = p /\ p \in Seq(Name) /\ h \in BOOLEAN
    BY <1>3
  <2> HIDE DEF p, h
  <2>2. OnFrame(s, x, own) =
          IF s.active THEN s ELSE [s EXCEPT !.cnt = 2, !.names = p, !.host = h]
    BY <2>1 DEF OnFrame, OnRoom, h
  <2>3. [s EXCEPT !.cnt = 2, !.names = p, !.host = h] \in ConsoleState
    BY <2>1 DEF ConsoleState
  <2>. QED
    BY <2>2, <2>3
<1>4. ASSUME NEW i \in {0, 1}, NEW a \in Name, NEW b \in Name,
             x = <<"START", i, 2, Delay, <<a, b>>>>
      PROVE  OnFrame(s, x, own) \in ConsoleState
  <2> DEFINE p == <<a, b>>
  <2>1. x[1] = "START" /\ x[2] = i /\ x[5] = p /\ p \in Seq(Name)
    BY <1>4
  <2> HIDE DEF p
  <2>2. OnFrame(s, x, own) = [s EXCEPT !.seat = i, !.names = p, !.active = TRUE]
    BY <2>1 DEF OnFrame, OnStart
  <2>3. [s EXCEPT !.seat = i, !.names = p, !.active = TRUE] \in ConsoleState
    BY <2>1 DEF ConsoleState
  <2>. QED
    BY <2>2, <2>3
<1>5. CASE x[1] = "PEER_LEFT"
  <2>1. OnFrame(s, x, own) = [s EXCEPT !.dropped = TRUE]
    BY <1>5 DEF OnFrame, OnPeerLeft
  <2>. QED
    BY <2>1 DEF ConsoleState
<1>6. CASE x[1] = "INPUT"
  BY <1>6 DEF OnFrame
<1>7. \/ \E l \in Seq(Name \X Nat) : x = <<"LOBBY", l>>
      \/ x = <<"ROOM", 0, <<>>>>
      \/ \E a, b \in Name : x = <<"ROOM", 2, <<a, b>>>>
      \/ \E i \in {0, 1}, a, b \in Name : x = <<"START", i, 2, Delay, <<a, b>>>>
      \/ x[1] = "PEER_LEFT"
      \/ x[1] = "INPUT"
  BY DEF Frame
<1>. QED
  BY <1>1, <1>2, <1>3, <1>4, <1>5, <1>6, <1>7

(* What the invariant says of one console and its connection.              *)
LEMMA ConsoleIs ==
  ASSUME Inv, NEW k \in Console
  PROVE  /\ con[k] \in ConsoleState /\ mem.live \subseteq Client /\ Known \subseteq Client
         /\ con[k].screen # "off" =>
              /\ con[k].conn \in Client /\ Used(con[k].conn)
              /\ up[con[k].conn] \in Seq(Asked) /\ Way(k) \in Seq(Frame)
              /\ \A j \in Console : con[j].conn = con[k].conn => j = k
         /\ Reading(k) => con[k].screen # "off"
<1>1. con[k] \in ConsoleState /\ (con[k].screen = "off" <=> con[k].conn = None)
  BY DEF Inv, ConsInv
<1>2. con[k].conn \in Client \cup {None}
  BY <1>1 DEF ConsoleState
<1>3. mem.live \subseteq Client /\ Known \subseteq Client
  BY DEF Inv, MemoryInv, BoxesInv, Good, Typed, Known
<1>. QED
  BY <1>1, <1>2, <1>3 DEF Inv, ConsInv, BoxesInv, Way, Used, Reading

(* Nothing but what a console sends.                                       *)
LEMMA WriteInv ==
  ASSUME Inv, NEW k \in Console, con[k].screen # "off", NEW f \in Asked, Write(k, f),
         f[1] # "HELLO", f[1] = "INPUT" => con[k].active /\ f[2] = con[k].seat
  PROVE  Inv'
<1> DEFINE c == con[k].conn
           q == up[c]
           p == Append(q, f)
<1>1. UNCHANGED <<con, down, pending, mem>>
  BY DEF Write
<1>2. /\ c \in Client /\ q \in Seq(Asked) /\ down[c] \in Seq(Frame)
      /\ \A j \in Console : con[j].conn = c => j = k
  BY ConsoleIs DEF Way
<1>3. /\ p \in Seq(Asked) /\ Len(p) = Len(q) + 1 /\ p[Len(q) + 1] = f
      /\ \A i \in 1 .. Len(q) : p[i] = q[i]
  BY <1>2, AppendProperties
<1>4. /\ Len(q) \in Nat /\ Len(down[c]) \in Nat /\ MaxFlight \in Nat
      /\ DOMAIN q = 1 .. Len(q) /\ DOMAIN p = 1 .. Len(q) + 1
  BY <1>2, <1>3, LenProperties, SessionAssumption
<1>5. Len(p) <= MaxFlight
  <2> DEFINE x == Len(q)
             y == Len(down[c])
             z == Len(p)
  <2>1. x + y < MaxFlight
    BY DEF Write
  <2>2. x \in Nat /\ y \in Nat /\ z = x + 1 /\ MaxFlight \in Nat
    BY <1>3, <1>4
  <2> HIDE DEF x, y, z
  <2>3. z <= MaxFlight
    BY <2>1, <2>2
  <2>. QED
    BY <2>3 DEF z
<1>6. up' = up \/ (c \in Known /\ up' = [up EXCEPT ![c] = p])
  BY DEF Write, Known
<1>7. up \in [Client -> Seq(Asked)]
  BY DEF Inv, BoxesInv
<1> HIDE DEF c, q, p
<1>8. up' \in [Client -> Seq(Asked)]
  BY <1>3, <1>6, <1>7
<1>9. ASSUME NEW d \in Client
      PROVE  up'[d] = up[d] \/ (d = c /\ c \in Known /\ up'[d] = p)
  BY <1>6, <1>7, <1>9
<1>10. MemoryInv' /\ ConsInv' /\ NameInv' /\ TrackInv' /\ PairInv'
  BY <1>1 DEF Inv, MemoryInv, ConsInv, NameInv, TrackInv, PairInv, Reading, Calm,
              Known, Way, Sat
<1>11. BoxesInv'
  BY <1>1, <1>5, <1>8, <1>9 DEF Inv, BoxesInv, Known, Used
<1>12. ASSUME NEW d \in Client, NEW i \in DOMAIN up'[d]
       PROVE  \/ i \in DOMAIN up[d] /\ up'[d][i] = up[d][i]
              \/ d = c /\ up'[d][i] = f
  <2>1. CASE up'[d] = up[d]
    BY <1>12, <2>1
  <2>2. CASE d = c /\ up'[d] = p
    <3>1. i \in 1 .. Len(q) + 1
      BY <1>4, <1>12, <2>2
    <3>2. i = Len(q) + 1 \/ i \in 1 .. Len(q)
      BY <1>4, <3>1
    <3>. QED
      BY <1>3, <1>4, <2>2, <3>2 DEF q
  <2>. QED
    BY <1>9, <2>1, <2>2
<1>13. HelloInv'
  <2>1. ASSUME NEW d \in Client, NEW i \in DOMAIN up'[d], up'[d][i][1] = "HELLO"
        PROVE  /\ i = 1 /\ mem'.name[d] = None
               /\ \A j \in Console : con'[j].conn = d => up'[d][i][3] = NameOf[j]
    <3>1. i \in DOMAIN up[d] /\ up'[d][i] = up[d][i]
      BY <1>12, <2>1
    <3>. QED
      BY <1>1, <2>1, <3>1 DEF Inv, HelloInv
  <2>. QED
    BY <2>1 DEF HelloInv
<1>14. InputInv'
  <2>1. ASSUME NEW j \in Console, Calm(j)', NEW i \in DOMAIN up'[con'[j].conn],
               up'[con'[j].conn][i][1] = "INPUT"
        PROVE  con'[j].active /\ up'[con'[j].conn][i][2] = con'[j].seat
    <3> DEFINE d == con[j].conn
    <3>1. Calm(j) /\ con' = con /\ con[j].conn = d
      BY <1>1, <2>1 DEF Calm, Reading, Way
    <3>2. d \in Client /\ (d = c => j = k)
      BY <1>2, <3>1, ConsoleIs DEF Calm, c
    <3> HIDE DEF d
    <3>3. CASE i \in DOMAIN up[d] /\ up'[d][i] = up[d][i]
      BY <2>1, <3>1, <3>3 DEF Inv, InputInv
    <3>4. CASE d = c /\ up'[d][i] = f
      BY <2>1, <3>1, <3>2, <3>4
    <3>. QED
      BY <1>12, <2>1, <3>1, <3>2, <3>3, <3>4
  <2>. QED
    BY <2>1 DEF InputInv
<1>. QED
  BY <1>10, <1>11, <1>13, <1>14 DEF Inv

(* A console reads, begins or stops: what holds of the others holds on.    *)
LEMMA AloneInv ==
  ASSUME Inv, NEW k \in Console, con[k].screen # "off",
         NEW s \in ConsoleState, s.conn = con[k].conn, s.screen # "off",
         s.screen = "match" => s.active, s.screen = "parked" => s.dropped,
         NEW q \in Seq(Frame),
         con' = [con EXCEPT ![k] = s], down' = [down EXCEPT ![con[k].conn] = q],
         UNCHANGED <<up, pending, mem>>,
         s.screen \in {"lobby", "match"} =>
           /\ Reading(k)
           /\ \A w : Track(con[k], Way(k), NameOf[k], w) => Track(s, q, NameOf[k], w),
         s.screen \in {"lobby", "match"} /\ ~s.dropped /\ Quiet(q, 1) =>
           /\ Calm(k) /\ (con[k].active => s.active /\ s.seat = con[k].seat)
           /\ \A i \in DOMAIN q : \E j \in DOMAIN Way(k) : q[i] = Way(k)[j]
  PROVE  Inv'
<1> DEFINE c == con[k].conn
<1>1. /\ c \in Client /\ Used(c) /\ con \in [Console -> ConsoleState]
      /\ down \in [Client -> Seq(Frame)] /\ None \notin Client
      /\ \A j \in Console : con[j].conn = c => j = k
  BY ConsoleIs, ServerAssumption DEF Inv, ConsInv, BoxesInv
<1>2. /\ con' \in [Console -> ConsoleState] /\ con'[k] = s
      /\ \A j \in Console \ {k} : con'[j] = con[j]
      /\ \A j \in Console : con'[j].conn = con[j].conn
  BY <1>1
<1>3. /\ down' \in [Client -> Seq(Frame)] /\ down'[c] = q
      /\ \A d \in Client \ {c} : down'[d] = down[d]
  BY <1>1
<1>4. up' = up /\ pending' = pending /\ mem' = mem /\ c = con[k].conn
  OBVIOUS
<1> HIDE DEF c
<1>5. MemoryInv' /\ HelloInv' /\ NameInv'
  BY <1>2, <1>4 DEF Inv, MemoryInv, HelloInv, NameInv
<1>6. BoxesInv'
  BY <1>1, <1>2, <1>3, <1>4 DEF Inv, BoxesInv, Known, Used
<1>7. ConsInv'
  BY <1>1, <1>2, <1>4 DEF Inv, ConsInv
<1>8. ASSUME NEW j \in Console, j # k, Reading(j)'
      PROVE  /\ Reading(j) /\ con'[j] = con[j] /\ con[j].conn # c
             /\ con[j].conn \in Client /\ Way(j)' = Way(j) /\ Sat(j)' = Sat(j)
  <2>1. Reading(j) /\ con'[j] = con[j]
    BY <1>2, <1>8 DEF Reading
  <2>2. con[j].conn \in Client /\ con[j].conn # c
    BY <1>1, <1>8, <2>1, ConsoleIs
  <2>. QED
    BY <1>3, <1>4, <2>1, <2>2 DEF Way, Sat
<1>9. Way(k)' = q /\ Sat(k)' = Sat(k)
  BY <1>2, <1>3, <1>4 DEF Way, Sat
<1>10. Known' = Known
  BY <1>4 DEF Known
<1>11. TrackInv'
  <2>1. ASSUME NEW j \in Console, Reading(j)'
        PROVE  \E w : /\ Track(con'[j], Way(j)', NameOf[j], w)
                      /\ con'[j].conn \in Known' => w = Sat(j)'
    <3>1. CASE j # k
      BY <1>8, <1>10, <2>1, <3>1 DEF Inv, TrackInv
    <3>2. CASE j = k
      <4>1. Reading(k) /\ \A w : Track(con[k], Way(k), NameOf[k], w) => Track(s, q, NameOf[k], w)
        BY <1>2, <2>1, <3>2 DEF Reading
      <4>. QED
        BY <1>2, <1>9, <1>10, <3>2, <4>1 DEF Inv, TrackInv
    <3>. QED
      BY <3>1, <3>2
  <2>. QED
    BY <2>1 DEF TrackInv
<1>12. ASSUME NEW j \in Console, Calm(j)'
       PROVE  /\ Calm(j) /\ con'[j].conn = con[j].conn /\ Sat(j)' = Sat(j)
              /\ con[j].active => con'[j].active /\ con'[j].seat = con[j].seat
              /\ \A i \in DOMAIN Way(j)' : \E l \in DOMAIN Way(j) : Way(j)'[i] = Way(j)[l]
  <2>1. CASE j # k
    BY <1>8, <1>12, <2>1 DEF Calm
  <2>2. CASE j = k
    <3>1. s.screen \in {"lobby", "match"} /\ ~s.dropped /\ Quiet(q, 1)
      BY <1>2, <1>9, <1>12, <2>2 DEF Calm, Reading
    <3>2. /\ Calm(k) /\ (con[k].active => s.active /\ s.seat = con[k].seat)
          /\ \A i \in DOMAIN q : \E l \in DOMAIN Way(k) : q[i] = Way(k)[l]
      BY <3>1
    <3>. QED
      BY <1>2, <1>9, <2>2, <3>2
  <2>. QED
    BY <2>1, <2>2
<1>13. InputInv'
  BY <1>4, <1>12 DEF Inv, InputInv
<1>14. PairInv'
  <2>1. ASSUME NEW j \in Console, NEW l \in Console, Calm(j)', Calm(l)',
               con'[l].conn \in mem'.live
        PROVE  Clean(Way(l)', Sat(l)', con'[j].conn)
    <3>1. Clean(Way(l), Sat(l), con[j].conn)
      BY <1>4, <1>12, <2>1 DEF Inv, PairInv
    <3>. QED
      BY <1>12, <2>1, <3>1 DEF Clean
  <2>. QED
    BY <2>1 DEF PairInv
<1>. QED
  BY <1>5, <1>6, <1>7, <1>11, <1>13, <1>14 DEF Inv

(* A frame is read.                                                        *)
LEMMA ReceiveInv ==
  ASSUME Inv, NEW k \in Console, Receive(k)
  PROVE  Inv'
<1> DEFINE q == Way(k)
           x == Head(q)
           r == con[k]
           s == OnFrame(r, x, NameOf[k])
           p == Tail(q)
<1>1. /\ Reading(k) /\ q # <<>> /\ con' = [con EXCEPT ![k] = s]
      /\ down' = [down EXCEPT ![con[k].conn] = p] /\ UNCHANGED <<up, pending, mem>>
  <2>1. con \in [Console -> ConsoleState] /\ down \in [Client -> Seq(Frame)]
    BY DEF Inv, ConsInv, BoxesInv
  <2>. QED
    BY <2>1 DEF Receive, Reading, Way
<1>2. r \in ConsoleState /\ r.screen # "off" /\ q \in Seq(Frame)
  BY <1>1, ConsoleIs
<1>3. /\ x = q[1] /\ p \in Seq(Frame) /\ Len(p) = Len(q) - 1 /\ Len(q) \in Nat
      /\ \A i \in 1 .. Len(q) - 1 : p[i] = q[i + 1]
      /\ DOMAIN q = 1 .. Len(q) /\ DOMAIN p = 1 .. Len(q) - 1 /\ Len(q) # 0
  BY <1>1, <1>2, HeadTailProperties, LenProperties, EmptySeq
<1>4. PICK w : Track(r, q, NameOf[k], w)
  BY <1>1 DEF Inv, TrackInv
<1>5. \A v : Track(r, q, NameOf[k], v) => Track(s, p, NameOf[k], v)
  BY <1>1, <1>2, TrackRead
<1>6. x \in Frame
  BY <1>2, <1>3
<1>7. s \in ConsoleState
  BY <1>2, <1>6, FrameTyped
<1>8. /\ s.screen = r.screen /\ s.conn = r.conn /\ (r.active => s.active)
      /\ x[1] # "PEER_LEFT" => s.dropped = r.dropped
      /\ x[1] = "PEER_LEFT" => s.dropped
      /\ x[1] # "START" => s.active = r.active /\ s.seat = r.seat
  BY <1>2, FrameRead
<1>9. q # <<>> /\ r.active /\ ~r.dropped => x[1] # "START"
  BY <1>2, <1>3, <1>4, TrackSays
<1> HIDE DEF s, p, x
<1>10. s.screen = "match" => s.active
  BY <1>8 DEF Inv, ConsInv
<1>11. s.screen \in {"lobby", "match"}
  BY <1>1, <1>8 DEF Reading
<1>12. \A i \in DOMAIN p : \E j \in DOMAIN q : p[i] = q[j]
  <2>1. \A i \in 1 .. Len(q) - 1 : i + 1 \in 1 .. Len(q)
    BY <1>3
  <2>. QED
    BY <1>3, <2>1
<1>13. ASSUME ~s.dropped, Quiet(p, 1)
       PROVE  Calm(k) /\ (r.active => s.active /\ s.seat = r.seat)
  <2>1. ~r.dropped /\ x[1] # "PEER_LEFT"
    BY <1>8, <1>13
  <2>2. Quiet(q, 1)
    <3>1. ASSUME NEW i \in 1 .. Len(q)
          PROVE  q[i][1] # "PEER_LEFT"
      <4>1. CASE i = 1
        BY <1>3, <2>1, <4>1
      <4>2. CASE i # 1
        <5>1. i - 1 \in 1 .. Len(p) /\ i - 1 \in 1 .. Len(q) - 1 /\ i - 1 + 1 = i
          BY <1>3, <4>2
        <5>2. p[i - 1] = q[i]
          BY <1>3, <5>1
        <5>. QED
          BY <1>13, <5>1, <5>2 DEF Quiet
      <4>. QED
        BY <4>1, <4>2
    <3>. QED
      BY <3>1 DEF Quiet
  <2>. QED
    BY <1>1, <1>8, <1>9, <2>1, <2>2 DEF Calm
<1>14. s.screen = "parked" => s.dropped
  BY <1>11
<1>15. s.screen # "off"
  BY <1>11
<1>. QED
  BY <1>1, <1>2, <1>3, <1>5, <1>7, <1>8, <1>10, <1>12, <1>13, <1>14, <1>15, AloneInv

(* The lobby loop ends, or the match does.                                 *)
LEMMA ShowInv ==
  ASSUME Inv, NEW k \in Console, Begin(k) \/ Park(k) \/ GiveUp(k)
  PROVE  Inv'
<1>1. /\ con[k] \in ConsoleState /\ Reading(k) /\ con[k].screen # "off"
      /\ con[k].conn \in Client /\ Way(k) \in Seq(Frame)
      /\ con[k].screen = "match" => con[k].active
  <2>1. Reading(k)
    BY DEF Begin, Park, GiveUp, Reading
  <2>. QED
    BY <2>1, ConsoleIs DEF Inv, ConsInv
<1>2. down' = [down EXCEPT ![con[k].conn] = Way(k)] /\ UNCHANGED <<up, pending, mem>>
  <2>1. UNCHANGED <<up, down, pending, mem>>
    BY DEF Begin, Park, GiveUp, Show
  <2>2. down \in [Client -> Seq(Frame)]
    BY DEF Inv, BoxesInv
  <2>. QED
    BY <2>1, <2>2 DEF Way
<1>3. CASE Begin(k)
  <2> DEFINE r == con[k]
             s == [r EXCEPT !.screen = "match", !.list = {}, !.cnt = 0, !.host = FALSE]
  <2>1. r.active /\ con' = [con EXCEPT ![k] = s]
    BY <1>3 DEF Begin, Show
  <2>2. s = [r EXCEPT !.screen = "match", !.list = {}, !.cnt = 0, !.host = FALSE]
    OBVIOUS
  <2> HIDE DEF s
  <2>3. /\ s \in ConsoleState /\ s.screen = "match" /\ s.conn = r.conn
        /\ s.active = r.active /\ s.dropped = r.dropped /\ s.seat = r.seat
        /\ s.names = r.names
    BY <1>1, <2>2 DEF ConsoleState, Screen
  <2>4. \A p : Agree(r, p) => Agree(s, p)
    BY <2>1, <2>3 DEF Agree
  <2>5. \A w : Track(r, Way(k), NameOf[k], w) => Track(s, Way(k), NameOf[k], w)
    <3>1. \A P : Path(P, r, Way(k), NameOf[k]) => Path(P, s, Way(k), NameOf[k])
      BY <2>3, <2>4 DEF Path
    <3>. QED
      BY <3>1 DEF Track
  <2>6. ~s.dropped /\ Quiet(Way(k), 1) => Calm(k)
    BY <1>1, <2>3 DEF Calm
  <2>7. s.screen # "off" /\ s.screen # "parked"
    BY <2>3
  <2>. QED
    BY <1>1, <1>2, <2>1, <2>3, <2>5, <2>6, <2>7, AloneInv
<1>4. CASE Park(k) \/ GiveUp(k)
  <2> DEFINE r == con[k]
             s == Parked(r)
  <2>1. con' = [con EXCEPT ![k] = s]
    BY <1>4 DEF Park, GiveUp, Show
  <2>2. s = [Off EXCEPT !.screen = "parked", !.conn = r.conn, !.active = r.active,
                        !.dropped = TRUE]
    BY DEF Parked
  <2> HIDE DEF s
  <2>3. /\ s \in ConsoleState /\ s.screen = "parked" /\ s.conn = r.conn /\ s.dropped
    BY <1>1, <2>2, OffTyped DEF ConsoleState, Screen
  <2>4. s.screen # "off" /\ s.screen \notin {"lobby", "match"} /\ s.screen # "match"
    BY <2>3
  <2>. QED
    BY <1>1, <1>2, <2>1, <2>3, <2>4, AloneInv
<1>. QED
  BY <1>3, <1>4

(* A console is reset: the server does not know yet.                       *)
LEMMA ResetInv ==
  ASSUME Inv, NEW k \in Console, Reset(k)
  PROVE  Inv'
<1> DEFINE c == con[k].conn
<1>1. /\ con[k].screen # "off" /\ con' = [con EXCEPT ![k] = Off]
      /\ down' = [down EXCEPT ![c] = <<>>] /\ UNCHANGED <<up, pending, mem>>
  BY DEF Reset
<1>2. /\ c \in Client /\ Used(c) /\ con \in [Console -> ConsoleState]
      /\ down \in [Client -> Seq(Frame)] /\ None \notin Client
      /\ \A j \in Console : con[j].conn = c => j = k
  BY <1>1, ConsoleIs, ServerAssumption DEF Inv, ConsInv, BoxesInv
<1>3. /\ con' \in [Console -> ConsoleState] /\ con'[k] = Off
      /\ \A j \in Console \ {k} : con'[j] = con[j]
  BY <1>1, <1>2, OffTyped
<1>4. /\ down' \in [Client -> Seq(Frame)] /\ down'[c] = <<>>
      /\ \A d \in Client \ {c} : down'[d] = down[d]
  <2>1. <<>> \in Seq(Frame)
    BY EmptySeq
  <2>. QED
    BY <1>1, <1>2, <2>1
<1>5. Off.screen = "off" /\ Off.conn = None
  BY DEF Off
<1> HIDE DEF c
<1>6. MemoryInv' /\ HelloInv' /\ NameInv'
  <2>1. \A j \in Console : con'[j].conn \in Client => con'[j] = con[j]
    BY <1>2, <1>3, <1>5
  <2>2. mem.live \subseteq Client
    BY ConsoleIs
  <2>. QED
    BY <1>1, <2>1, <2>2 DEF Inv, MemoryInv, HelloInv, NameInv
<1>7. BoxesInv'
  <2>1. ASSUME NEW d \in Client, ~Used(d)'
        PROVE  down'[d] = <<>>
    <3>1. CASE d = c
      BY <1>4, <3>1
    <3>2. CASE d # c
      <4>1. ~Used(d)
        BY <1>2, <1>3, <2>1, <3>2 DEF Used, c
      <4>. QED
        BY <1>4, <3>2, <4>1 DEF Inv, BoxesInv
    <3>. QED
      BY <3>1, <3>2
  <2>. QED
    BY <1>1, <1>4, <2>1 DEF Inv, BoxesInv, Known
<1>8. ConsInv'
  <2>1. Off.screen # "match" /\ Off.screen # "parked"
    BY <1>5
  <2>2. \A j \in Console : /\ con'[j].screen = "off" <=> con'[j].conn = None
                           /\ con'[j].screen = "match" => con'[j].active
                           /\ con'[j].screen = "parked" => con'[j].dropped
    BY <1>3, <1>5, <2>1 DEF Inv, ConsInv
  <2>3. \A j, l \in Console : con'[j].conn = con'[l].conn /\ con'[l].conn # None => j = l
    BY <1>3, <1>5 DEF Inv, ConsInv
  <2>. QED
    BY <1>3, <2>2, <2>3 DEF ConsInv
<1>9. ASSUME NEW j \in Console, Reading(j)'
      PROVE  /\ Reading(j) /\ con'[j] = con[j] /\ con[j].conn \in Client
             /\ Way(j)' = Way(j) /\ Sat(j)' = Sat(j)
  <2>1. j # k /\ Reading(j) /\ con'[j] = con[j]
    BY <1>3, <1>5, <1>9 DEF Reading
  <2>2. con[j].conn \in Client /\ con[j].conn # c
    BY <1>2, <2>1, ConsoleIs
  <2>. QED
    BY <1>1, <1>4, <2>1, <2>2 DEF Way, Sat
<1>10. Known' = Known /\ mem' = mem /\ up' = up
  BY <1>1 DEF Known
<1>11. TrackInv'
  BY <1>9, <1>10 DEF Inv, TrackInv
<1>12. ASSUME NEW j \in Console, Calm(j)'
       PROVE  Calm(j) /\ con'[j] = con[j] /\ Way(j)' = Way(j) /\ Sat(j)' = Sat(j)
  BY <1>9, <1>12 DEF Calm
<1>13. InputInv' /\ PairInv'
  BY <1>10, <1>12 DEF Inv, InputInv, PairInv
<1>. QED
  BY <1>6, <1>7, <1>8, <1>11, <1>13 DEF Inv

(* A console connects, by a number nobody has, and says its name.          *)
LEMMA PowerOnInv ==
  ASSUME Inv, NEW k \in Console, PowerOn(k)
  PROVE  Inv'
<1> DEFINE c == CHOOSE x \in Unused : TRUE
           s == [Off EXCEPT !.screen = "lobby", !.conn = c]
           f == <<"HELLO", Version, NameOf[k]>>
           q == <<f>>
<1>1. /\ con[k].screen = "off" /\ Unused # {} /\ con' = [con EXCEPT ![k] = s]
      /\ up' = [up EXCEPT ![c] = q] /\ pending' = pending \cup {c}
      /\ UNCHANGED <<down, mem>>
  BY DEF PowerOn
<1>2. c \in Client /\ c \notin mem.live \cup pending /\ ~Used(c)
  BY <1>1 DEF Unused
<1>3. s = [Off EXCEPT !.screen = "lobby", !.conn = c]
  OBVIOUS
<1>4. f \in Asked /\ f[1] = "HELLO" /\ f[3] = NameOf[k]
  BY SessionAssumption DEF Asked
<1> HIDE DEF c, s, f
<1>5. /\ s \in ConsoleState /\ s.screen = "lobby" /\ s.conn = c /\ s.cnt = 0
      /\ ~s.active /\ ~s.dropped
  BY <1>2, <1>3, OffTyped DEF ConsoleState, Screen, Off
<1>6. q \in Seq(Asked) /\ Len(q) = 1 /\ q[1] = f /\ DOMAIN q = 1 .. 1
  BY <1>4
<1> HIDE DEF q
<1>7. /\ con \in [Console -> ConsoleState] /\ up \in [Client -> Seq(Asked)]
      /\ \A j \in Console : con[j].conn # c
  BY <1>2 DEF Inv, ConsInv, BoxesInv, Used
<1>8. /\ con' \in [Console -> ConsoleState] /\ con'[k] = s
      /\ \A j \in Console \ {k} : con'[j] = con[j]
  BY <1>1, <1>5, <1>7
<1>9. /\ up' \in [Client -> Seq(Asked)] /\ up'[c] = q
      /\ \A d \in Client \ {c} : up'[d] = up[d]
  BY <1>1, <1>2, <1>6, <1>7
<1>10. down' = down /\ mem' = mem /\ pending' = pending \cup {c}
  BY <1>1
<1>11. /\ Good(mem) /\ mem.name[c] = None /\ down[c] = <<>> /\ None \notin Client
       /\ Where(mem, c) = Nowhere /\ mem.room[c] = None /\ mem.live \subseteq Client
  <2>1. Good(mem) /\ mem.name[c] = None /\ down[c] = <<>> /\ mem.live \subseteq Client
    BY <1>2, ConsoleIs DEF Inv, MemoryInv, BoxesInv
  <2>. QED
    BY <1>2, <2>1, OutIsNowhere, ServerAssumption DEF Good, Rooms
<1>12. MemoryInv'
  BY <1>10 DEF Inv, MemoryInv
<1>13. BoxesInv'
  <2>1. pending' \subseteq Client \ mem'.live
    BY <1>2, <1>10 DEF Inv, BoxesInv
  <2>2. ASSUME NEW d \in Client
        PROVE  /\ Len(up'[d]) <= MaxFlight
               /\ d \notin Known' => up'[d] = <<>>
               /\ ~Used(d)' => down'[d] = <<>>
    <3>1. Len(up'[d]) <= MaxFlight
      <4>1. CASE d = c
        <5>1. 1 <= MaxFlight
          BY SessionAssumption
        <5>. QED
          BY <1>6, <1>9, <4>1, <5>1
      <4>2. CASE d # c
        BY <1>9, <4>2 DEF Inv, BoxesInv
      <4>. QED
        BY <4>1, <4>2
    <3>2. d \notin Known' => up'[d] = <<>>
      BY <1>9, <1>10 DEF Inv, BoxesInv, Known
    <3>3. ~Used(d)' => down'[d] = <<>>
      <4>1. None # d
        BY <1>11
      <4>2. con[k].conn = None
        BY <1>1 DEF Inv, ConsInv
      <4>3. Used(d) => Used(d)'
        BY <1>8, <4>1, <4>2 DEF Used
      <4>. QED
        BY <1>10, <4>3 DEF Inv, BoxesInv
    <3>. QED
      BY <3>1, <3>2, <3>3
  <2>. QED
    BY <1>9, <1>10, <2>1, <2>2 DEF Inv, BoxesInv
<1>14. ConsInv'
  <2>1. s.screen # "off" /\ s.screen # "match" /\ s.screen # "parked" /\ s.conn # None
    BY <1>2, <1>5, <1>11
  <2>2. \A j \in Console : /\ con'[j].screen = "off" <=> con'[j].conn = None
                           /\ con'[j].screen = "match" => con'[j].active
                           /\ con'[j].screen = "parked" => con'[j].dropped
    BY <1>8, <2>1 DEF Inv, ConsInv
  <2>3. \A j, l \in Console : con'[j].conn = con'[l].conn /\ con'[l].conn # None => j = l
    BY <1>5, <1>7, <1>8 DEF Inv, ConsInv
  <2>. QED
    BY <1>8, <2>2, <2>3 DEF ConsInv
<1>15. HelloInv'
  <2>1. ASSUME NEW d \in Client, NEW i \in DOMAIN up'[d], up'[d][i][1] = "HELLO"
        PROVE  /\ i = 1 /\ mem'.name[d] = None
               /\ \A j \in Console : con'[j].conn = d => up'[d][i][3] = NameOf[j]
    <3>1. CASE d = c
      <4>1. i = 1 /\ up'[d][i] = f
        BY <1>6, <1>9, <2>1, <3>1
      <4>. QED
        BY <1>4, <1>7, <1>8, <1>10, <1>11, <3>1, <4>1
    <3>2. CASE d # c
      <4>1. up'[d] = up[d]
        BY <1>9, <3>2
      <4>2. /\ i = 1 /\ mem.name[d] = None
            /\ \A j \in Console : con[j].conn = d => up[d][i][3] = NameOf[j]
        BY <2>1, <4>1 DEF Inv, HelloInv
      <4>3. \A j \in Console : con'[j].conn = d => con[j].conn = d
        BY <1>5, <1>8, <3>2
      <4>. QED
        BY <1>10, <4>1, <4>2, <4>3
    <3>. QED
      BY <3>1, <3>2
  <2>. QED
    BY <2>1 DEF HelloInv
<1>16. NameInv'
  BY <1>2, <1>5, <1>8, <1>10 DEF Inv, NameInv
<1>17. ASSUME NEW j \in Console, j # k, Reading(j)'
       PROVE  /\ Reading(j) /\ con'[j] = con[j] /\ con[j].conn \in Client
              /\ con[j].conn # c /\ Way(j)' = Way(j) /\ Sat(j)' = Sat(j)
  <2>1. Reading(j) /\ con'[j] = con[j]
    BY <1>8, <1>17 DEF Reading
  <2>. QED
    BY <1>7, <1>10, <2>1, ConsoleIs DEF Way, Sat
<1>18. Way(k)' = <<>> /\ Sat(k)' = Nowhere /\ con'[k].conn = c
  BY <1>5, <1>8, <1>10, <1>11 DEF Way, Sat
<1>19. TrackInv'
  <2>1. ASSUME NEW j \in Console, Reading(j)'
        PROVE  \E w : /\ Track(con'[j], Way(j)', NameOf[j], w)
                      /\ con'[j].conn \in Known' => w = Sat(j)'
    <3>1. CASE j # k
      BY <1>10, <1>17, <2>1, <3>1 DEF Inv, TrackInv, Known
    <3>2. CASE j = k
      <4>1. Nowhere \in Whereabouts /\ ~Nowhere.on /\ Agree(s, Nowhere)
        BY <1>5 DEF Nowhere, Whereabouts, Agree
      <4>2. Track(s, <<>>, NameOf[k], Nowhere)
        BY <4>1, TrackEmpty
      <4>. QED
        BY <1>8, <1>18, <3>2, <4>2
    <3>. QED
      BY <3>1, <3>2
  <2>. QED
    BY <2>1 DEF TrackInv
<1>20. ASSUME NEW j \in Console, j # k, Calm(j)'
       PROVE  /\ Calm(j) /\ con'[j] = con[j] /\ Way(j)' = Way(j) /\ Sat(j)' = Sat(j)
              /\ con[j].conn \in Client /\ con[j].conn # c
  BY <1>17, <1>20 DEF Calm
<1>21. InputInv'
  <2>1. ASSUME NEW j \in Console, Calm(j)', NEW i \in DOMAIN up'[con'[j].conn],
               up'[con'[j].conn][i][1] = "INPUT"
        PROVE  con'[j].active /\ up'[con'[j].conn][i][2] = con'[j].seat
    <3>1. CASE j = k
      BY <1>4, <1>6, <1>9, <1>18, <2>1, <3>1
    <3>2. CASE j # k
      <4>1. up'[con[j].conn] = up[con[j].conn]
        BY <1>9, <1>20, <2>1, <3>2
      <4>. QED
        BY <1>20, <2>1, <3>2, <4>1 DEF Inv, InputInv
    <3>. QED
      BY <3>1, <3>2
  <2>. QED
    BY <2>1 DEF InputInv
<1>22. PairInv'
  <2>1. ASSUME NEW j \in Console, NEW l \in Console, Calm(j)', Calm(l)',
               con'[l].conn \in mem'.live
        PROVE  Clean(Way(l)', Sat(l)', con'[j].conn)
    <3>1. l # k
      BY <1>2, <1>10, <1>18, <2>1
    <3>2. CASE j = k
      <4>1. Sat(l).mate # c
        BY <1>2, <1>11, <1>20, <2>1, <3>1, MateInRoom DEF Sat
      <4>. QED
        BY <1>18, <1>20, <2>1, <3>1, <3>2, <4>1 DEF Clean
    <3>3. CASE j # k
      BY <1>10, <1>20, <2>1, <3>1, <3>3 DEF Inv, PairInv
    <3>. QED
      BY <3>2, <3>3
  <2>. QED
    BY <2>1 DEF PairInv
<1>. QED
  BY <1>12, <1>13, <1>14, <1>15, <1>16, <1>19, <1>21, <1>22 DEF Inv

(* What the player and the lobby loop ask for, and the samples of a match. *)
LEMMA AskInv ==
  ASSUME Inv, NEW k \in Console, AskList(k) \/ EnterJoin(k) \/ EnterGo(k) \/ Play(k)
  PROVE  Inv'
<1>1. /\ con[k] \in ConsoleState /\ (con[k].screen = "match" => con[k].active)
      /\ con[k].list \subseteq Name /\ con[k].seat \in {0, 1}
  BY ConsoleIs DEF Inv, ConsInv, ConsoleState
<1>2. con[k].screen # "off"
  <2>1. con[k].screen = "lobby" \/ con[k].screen = "match"
    BY DEF AskList, EnterJoin, EnterGo, Play, Browsing
  <2>. QED
    BY <2>1
<1>3. CASE AskList(k) \/ EnterGo(k)
  <2>1. Write(k, <<"LIST">>) \/ Write(k, <<"GO">>)
    BY <1>3 DEF AskList, EnterGo
  <2>2. <<"LIST">> \in Asked /\ <<"GO">> \in Asked
    BY DEF Asked
  <2>3. <<"LIST">>[1] \notin {"HELLO", "INPUT"} /\ <<"GO">>[1] \notin {"HELLO", "INPUT"}
    OBVIOUS
  <2>. QED
    BY <1>2, <2>1, <2>2, <2>3, WriteInv
<1>4. CASE EnterJoin(k)
  <2>1. PICK n \in Name : Write(k, <<"JOIN", n>>)
    BY <1>1, <1>4 DEF EnterJoin
  <2>2. <<"JOIN", n>> \in Asked /\ <<"JOIN", n>>[1] = "JOIN"
    BY DEF Asked
  <2>. QED
    BY <1>2, <2>1, <2>2, WriteInv
<1>5. CASE Play(k)
  <2> DEFINE f == <<"INPUT", con[k].seat>>
  <2>1. Write(k, f) /\ con[k].active
    BY <1>1, <1>5 DEF Play
  <2>2. f \in Asked /\ f[1] = "INPUT" /\ f[2] = con[k].seat
    BY <1>1 DEF Asked
  <2> HIDE DEF f
  <2>. QED
    BY <1>2, <2>1, <2>2, WriteInv
<1>. QED
  BY <1>3, <1>4, <1>5

-----------------------------------------------------------------------------
(* A turn of the server: with the memory t, from a turn in which frame f   *)
(* of connection c was handled, or nobody's; U is what it leaves unread.   *)
Turned(t, c, f, U) ==
  /\ Good(t) /\ t.autoGo = 0 /\ t.live \subseteq Known /\ c \in Client
  /\ pending' \subseteq pending \ t.live
  /\ Becomes(t)
  /\ up' = [d \in Client |-> IF d \in t.live \cup pending' THEN U[d] ELSE <<>>]
  /\ \/ U = up /\ f[1] \notin {"HELLO", "INPUT"}
     \/ up[c] # <<>> /\ f = Head(up[c]) /\ U = [up EXCEPT ![c] = Tail(@)]
  /\ \A d \in t.live : t.name[d] = IF f[1] = "HELLO" /\ d = c THEN f[3] ELSE mem.name[d]
  /\ \A d \in Client : Used(d) =>
       IF d \in t.live
       THEN Came(Where(mem, d), <<>>, Where(t, d), Out(t, d), mem.name[d], c, f)
       ELSE Out(t, d) = <<>>

(* What the turn leaves in memory and on the way to the consoles.          *)
LEMMA TurnLeaves ==
  ASSUME Inv, NEW t, NEW c, NEW f, NEW U, Turned(t, c, f, U)
  PROVE  /\ MemoryInv' /\ Good(mem') /\ mem'.live = t.live /\ t.live \subseteq Client
         /\ con' = con /\ pending' \subseteq pending /\ Known' \subseteq Known
         /\ mem'.room = t.room
         /\ \A d \in Client : Where(mem', d) = Where(t, d)
         /\ \A d \in t.live : mem'.name[d] = t.name[d]
         /\ \A d \in Client : Out(t, d) \in Seq(Frame)
         /\ down' \in [Client -> Seq(Frame)]
         /\ \A d \in Client : IF Reads(d) THEN down'[d] = down[d] \o Out(t, d)
                              ELSE down'[d] = <<>>
<1>1. Good(t) /\ t.autoGo = 0 /\ t.live \subseteq Known /\ pending' \subseteq pending
  BY DEF Turned
<1>2. Afresh(t, Cleared(t))
  BY <1>1, ClearedAfresh
<1>3. mem' = Cleared(t) /\ con' = con
  BY DEF Turned, Becomes, Cleared
<1>4. t.live \subseteq Client
  BY <1>1 DEF Good, Typed
<1>5. /\ Good(mem') /\ mem'.live = t.live /\ mem'.room = t.room /\ mem'.autoGo = 0
      /\ mem'.fuse = Sound /\ mem'.sent = [d \in Client |-> <<>>]
      /\ \A d \in Client : Where(mem', d) = Where(t, d)
      /\ \A d \in Client : mem'.name[d] = IF d \in t.live THEN t.name[d] ELSE None
  BY <1>1, <1>2, <1>3 DEF Afresh
<1>6. MemoryInv'
  BY <1>5 DEF MemoryInv
<1>7. \A d \in Client : Out(t, d) \in Seq(Frame)
  BY <1>1 DEF Good, Sending
<1>8. down' = [d \in Client |-> IF Reads(d) THEN down[d] \o Out(t, d) ELSE <<>>]
  BY DEF Turned, Becomes, Out
<1>9. down \in [Client -> Seq(Frame)]
  BY DEF Inv, BoxesInv
<1>10. \A d \in Client : down[d] \o Out(t, d) \in Seq(Frame) /\ <<>> \in Seq(Frame)
  BY <1>7, <1>9, ConcatProperties, EmptySeq
<1>11. down' \in [Client -> Seq(Frame)]
  BY <1>8, <1>10
<1>12. Known' \subseteq Known
  BY <1>1, <1>5 DEF Known
<1>. QED
  BY <1>1, <1>3, <1>4, <1>5, <1>6, <1>7, <1>8, <1>11, <1>12

(* What is left unread of a connection was there before, behind the frame  *)
(* that was handled.                                                       *)
LEMMA TurnUnread ==
  ASSUME Inv, NEW t, NEW c, NEW f, NEW U, Turned(t, c, f, U), NEW d \in Client
  PROVE  /\ up'[d] \in Seq(Asked) /\ Len(up'[d]) <= MaxFlight
         /\ d \notin t.live \cup pending' => up'[d] = <<>>
         /\ \A i \in DOMAIN up'[d] :
              LET j == IF U = up \/ d # c THEN i ELSE i + 1
              IN  j \in DOMAIN up[d] /\ up'[d][i] = up[d][j] /\ i \in Nat /\ i >= 1
<1> DEFINE q == up[d]
<1>1. up \in [Client -> Seq(Asked)] /\ q \in Seq(Asked) /\ Len(q) <= MaxFlight
  BY DEF Inv, BoxesInv
<1>2. Len(q) \in Nat /\ DOMAIN q = 1 .. Len(q) /\ MaxFlight \in Nat
  BY <1>1, LenProperties, SessionAssumption
<1>3. up'[d] = IF d \in t.live \cup pending' THEN U[d] ELSE <<>>
  BY DEF Turned
<1>4. \/ U = up
      \/ up[c] # <<>> /\ U = [up EXCEPT ![c] = Tail(@)] /\ c \in Client
  BY DEF Turned
<1>5. CASE d \notin t.live \cup pending'
  <2>1. up'[d] = <<>>
    BY <1>3, <1>5
  <2>2. <<>> \in Seq(Asked) /\ Len(<<>>) = 0 /\ DOMAIN <<>> = {} /\ 0 <= MaxFlight
    BY <1>2, EmptySeq
  <2>. QED
    BY <2>1, <2>2
<1>6. CASE d \in t.live \cup pending' /\ (U = up \/ d # c)
  <2>1. up'[d] = q
    BY <1>1, <1>3, <1>4, <1>6
  <2>. QED
    BY <1>1, <1>2, <1>6, <2>1
<1>7. CASE d \in t.live \cup pending' /\ ~(U = up \/ d # c)
  <2>1. up'[d] = Tail(q) /\ q # <<>>
    BY <1>1, <1>3, <1>4, <1>7
  <2> DEFINE p == Tail(q)
  <2>2. /\ p \in Seq(Asked) /\ Len(p) = Len(q) - 1
        /\ \A i \in 1 .. Len(q) - 1 : p[i] = q[i + 1]
    BY <1>1, <2>1, HeadTailProperties
  <2>3. DOMAIN p = 1 .. Len(q) - 1
    BY <2>2, LenProperties
  <2>4. up'[d] = p
    BY <2>1
  <2> HIDE DEF p, q
  <2>5. Len(p) <= MaxFlight
    BY <1>1, <1>2, <2>2
  <2>6. \A i \in DOMAIN p : i + 1 \in 1 .. Len(q) /\ p[i] = q[i + 1] /\ i \in Nat /\ i >= 1
    BY <1>2, <2>2, <2>3
  <2>. QED
    BY <1>2, <1>7, <2>2, <2>4, <2>5, <2>6 DEF q
<1>. QED
  BY <1>5, <1>6, <1>7

(* Connections and what they have asked.                                   *)
LEMMA TurnBoxes ==
  ASSUME Inv, NEW t, NEW c, NEW f, NEW U, Turned(t, c, f, U)
  PROVE  BoxesInv' /\ ConsInv' /\ HelloInv' /\ NameInv'
<1>1. /\ mem'.live = t.live /\ t.live \subseteq Client /\ con' = con
      /\ down' \in [Client -> Seq(Frame)]
      /\ \A d \in Client : ~Reads(d) => down'[d] = <<>>
      /\ \A d \in t.live : mem'.name[d] = t.name[d]
      /\ MemoryInv'
  BY TurnLeaves
<1>2. /\ pending' \subseteq pending \ t.live /\ c \in Client
      /\ U = up => f[1] \notin {"HELLO", "INPUT"}
      /\ U # up => up[c] # <<>> /\ f = Head(up[c])
      /\ \A d \in t.live : t.name[d] = IF f[1] = "HELLO" /\ d = c THEN f[3] ELSE mem.name[d]
      /\ up' = [d \in Client |-> IF d \in t.live \cup pending' THEN U[d] ELSE <<>>]
  <2>1. U = [up EXCEPT ![c] = Tail(@)] /\ up[c] # <<>> /\ c \in Client => U # up
    <3>1. SUFFICES ASSUME U = [up EXCEPT ![c] = Tail(@)], up[c] # <<>>, c \in Client, U = up
                   PROVE  FALSE
      OBVIOUS
    <3>2. up \in [Client -> Seq(Asked)]
      BY DEF Inv, BoxesInv
    <3>3. Tail(up[c]) = up[c] /\ up[c] \in Seq(Asked)
      BY <3>1, <3>2
    <3>4. Len(Tail(up[c])) = Len(up[c]) - 1 /\ Len(up[c]) \in Nat
      BY <3>1, <3>3, HeadTailProperties, LenProperties
    <3> DEFINE n == Len(up[c])
               l == Len(Tail(up[c]))
    <3>5. l = n /\ l = n - 1 /\ n \in Nat
      BY <3>3, <3>4
    <3> HIDE DEF n, l
    <3>. QED
      BY <3>5
  <2>. QED
    BY <2>1 DEF Turned
<1>3. BoxesInv'
  <2>1. up' \in [Client -> Seq(Asked)]
    BY <1>2, TurnUnread
  <2>2. pending' \subseteq Client \ mem'.live
    BY <1>1, <1>2 DEF Inv, BoxesInv
  <2>3. \A d \in Client : ~Used(d)' => ~Reads(d)
    BY <1>1 DEF Used, Reads
  <2>4. \A d \in Client : /\ Len(up'[d]) <= MaxFlight
                          /\ d \notin Known' => up'[d] = <<>>
                          /\ ~Used(d)' => down'[d] = <<>>
    BY <1>1, <2>3, TurnUnread DEF Known
  <2>. QED
    BY <1>1, <2>1, <2>2, <2>4 DEF BoxesInv
<1>4. ConsInv'
  BY <1>1 DEF Inv, ConsInv
<1>5. HelloInv'
  <2>1. ASSUME NEW d \in Client, NEW i \in DOMAIN up'[d], up'[d][i][1] = "HELLO"
        PROVE  /\ i = 1 /\ mem'.name[d] = None
               /\ \A k \in Console : con'[k].conn = d => up'[d][i][3] = NameOf[k]
    <3> DEFINE j == IF U = up \/ d # c THEN i ELSE i + 1
    <3>1. j \in DOMAIN up[d] /\ up'[d][i] = up[d][j] /\ i \in Nat /\ i >= 1
      BY TurnUnread
    <3> HIDE DEF j
    <3>2. /\ j = 1 /\ mem.name[d] = None
          /\ \A k \in Console : con[k].conn = d => up[d][j][3] = NameOf[k]
      BY <2>1, <3>1 DEF Inv, HelloInv
    <3>3. U = up \/ d # c
      BY <3>1, <3>2 DEF j
    <3>4. i = 1
      BY <3>2, <3>3 DEF j
    <3>5. mem'.name[d] = None
      <4>1. CASE d \in t.live
        <5>1. ~(f[1] = "HELLO" /\ d = c)
          BY <1>2, <3>3
        <5>. QED
          BY <1>1, <1>2, <3>2, <4>1, <5>1
      <4>2. CASE d \notin t.live
        BY <1>1, <4>2 DEF MemoryInv
      <4>. QED
        BY <4>1, <4>2
    <3>. QED
      BY <1>1, <3>1, <3>2, <3>4, <3>5
  <2>. QED
    BY <2>1 DEF HelloInv
<1>6. NameInv'
  <2>1. ASSUME NEW k \in Console, con[k].conn \in t.live
        PROVE  mem'.name[con[k].conn] \in {None, NameOf[k]}
    <3> DEFINE d == con[k].conn
    <3>1. d \in Client /\ d \in t.live /\ mem'.name[d] = t.name[d]
      BY <1>1, <2>1
    <3>2. mem.name[d] \in {None, NameOf[k]}
      BY <3>1 DEF Inv, NameInv, MemoryInv
    <3>3. CASE f[1] = "HELLO" /\ d = c
      <4>1. up[c] # <<>> /\ f = Head(up[c]) /\ up[c] \in Seq(Asked)
        BY <1>2, <3>3 DEF Inv, BoxesInv
      <4>2. f = up[c][1] /\ 1 \in DOMAIN up[c]
        BY <4>1, EmptySeq, LenProperties
      <4>3. f[3] = NameOf[k]
        BY <1>2, <3>3, <4>2 DEF Inv, HelloInv
      <4>. QED
        BY <1>2, <3>1, <3>3, <4>3
    <3>4. CASE ~(f[1] = "HELLO" /\ d = c)
      BY <1>2, <3>1, <3>2, <3>4
    <3>. QED
      BY <3>3, <3>4
  <2>. QED
    BY <1>1, <2>1 DEF NameInv
<1>. QED
  BY <1>3, <1>4, <1>5, <1>6

(* The way of a console that reads on is longer by what the turn sent it.  *)
LEMMA TurnWay ==
  ASSUME Inv, NEW t, NEW c, NEW f, NEW U, Turned(t, c, f, U), NEW k \in Console,
         Reading(k)
  PROVE  LET d == con[k].conn
         IN  /\ Reading(k)' /\ d \in Client /\ Out(t, d) \in Seq(Frame)
             /\ Way(k) \in Seq(Frame) /\ Way(k)' = Way(k) \o Out(t, d)
             /\ Sat(k) = Where(mem, d) /\ Sat(k)' = Where(t, d)
             /\ Where(t, d) \in Whereabouts /\ mem.name[d] \in {None, NameOf[k]}
             /\ d \notin mem.live => Where(mem, d) = Nowhere
             /\ d \notin t.live => Where(t, d) = Nowhere
             /\ IF d \in t.live
                THEN Came(Where(mem, d), <<>>, Where(t, d), Out(t, d), mem.name[d], c, f)
                ELSE Out(t, d) = <<>>
<1> DEFINE d == con[k].conn
<1>1. d \in Client /\ Used(d) /\ Way(k) \in Seq(Frame) /\ Reads(d)
  BY ConsoleIs DEF Reads, Reading
<1>2. /\ con' = con /\ Where(mem', d) = Where(t, d) /\ Out(t, d) \in Seq(Frame)
      /\ down'[d] = down[d] \o Out(t, d)
  BY <1>1, TurnLeaves
<1>3. Good(t) /\ Good(mem)
  BY DEF Turned, Inv, MemoryInv
<1>4. Where(t, d) \in Whereabouts
  BY <1>1, <1>3, WhereIs
<1>5. mem.name[d] \in {None, NameOf[k]}
  BY <1>1 DEF Inv, NameInv, MemoryInv
<1>6. /\ d \notin mem.live => Where(mem, d) = Nowhere
      /\ d \notin t.live => Where(t, d) = Nowhere
  BY <1>1, <1>3, OutIsNowhere
<1>7. IF d \in t.live
      THEN Came(Where(mem, d), <<>>, Where(t, d), Out(t, d), mem.name[d], c, f)
      ELSE Out(t, d) = <<>>
  BY <1>1 DEF Turned
<1>8. Reading(k)' /\ Way(k)' = Way(k) \o Out(t, d)
  BY <1>2 DEF Reading, Way
<1>9. Sat(k) = Where(mem, d) /\ Sat(k)' = Where(t, d)
  BY <1>2 DEF Sat
<1>. QED
  BY <1>1, <1>2, <1>4, <1>5, <1>6, <1>7, <1>8, <1>9

(* The unread frames still lead to where the server has the console.       *)
LEMMA TurnTrack ==
  ASSUME Inv, NEW t, NEW c, NEW f, NEW U, Turned(t, c, f, U)
  PROVE  TrackInv'
<1>1. ASSUME NEW k \in Console, Reading(k)
      PROVE  \E w : /\ Track(con[k], Way(k)', NameOf[k], w)
                    /\ con[k].conn \in Known' => w = Sat(k)'
  <2> DEFINE d == con[k].conn
             q == Way(k)
             p == Out(t, d)
  <2>1. /\ p \in Seq(Frame) /\ q \in Seq(Frame) /\ Way(k)' = q \o p
        /\ Sat(k) = Where(mem, d) /\ Sat(k)' = Where(t, d)
        /\ Where(t, d) \in Whereabouts /\ mem.name[d] \in {None, NameOf[k]}
        /\ d \notin mem.live => Where(mem, d) = Nowhere
        /\ d \notin t.live => Where(t, d) = Nowhere
        /\ IF d \in t.live
           THEN Came(Where(mem, d), <<>>, Where(t, d), p, mem.name[d], c, f)
           ELSE p = <<>>
    BY <1>1, TurnWay
  <2>2. PICK w : Track(con[k], q, NameOf[k], w) /\ (d \in Known => w = Sat(k))
    BY <1>1 DEF Inv, TrackInv
  <2>3. Known' \subseteq Known /\ mem'.live = t.live /\ t.live \subseteq Known
        /\ pending' \subseteq pending /\ pending \cap mem.live = {}
    BY TurnLeaves DEF Turned, Inv, BoxesInv
  <2> HIDE DEF d, p, q
  <2>4. CASE d \in t.live
    <3>1. Track(con[k], q \o p, NameOf[k], Where(t, d))
      <4>1. w = Where(mem, d)
        BY <2>1, <2>2, <2>3, <2>4
      <4>2. Came(w, <<>>, Where(t, d), p, mem.name[d], c, f)
        BY <2>1, <2>4, <4>1
      <4>. QED
        BY <2>1, <2>2, <4>2, TrackCame
    <3>. QED
      BY <2>1, <3>1
  <2>5. CASE d \notin t.live
    <3>1. q \o p = q
      BY <2>1, <2>5, ConcatEmptySeq
    <3>2. d \in Known' => w = Nowhere
      BY <2>1, <2>2, <2>3, <2>5 DEF Known
    <3>. QED
      BY <2>1, <2>2, <2>5, <3>1, <3>2 DEF d
  <2>. QED
    BY <2>4, <2>5
<1>2. con' = con
  BY TurnLeaves
<1>. QED
  BY <1>1, <1>2 DEF TrackInv, Reading

(* Who has no news of an end after the turn had none before.               *)
LEMMA TurnCalm ==
  ASSUME Inv, NEW t, NEW c, NEW f, NEW U, Turned(t, c, f, U), NEW k \in Console, Calm(k)'
  PROVE  Calm(k)
<1> DEFINE q == Way(k)
           p == Out(t, con[k].conn)
<1>1. con' = con
  BY TurnLeaves
<1>2. Reading(k) /\ ~con[k].dropped
  BY <1>1 DEF Calm, Reading
<1>3. q \in Seq(Frame) /\ p \in Seq(Frame) /\ Way(k)' = q \o p
  BY <1>2, TurnWay
<1>4. Quiet(q \o p, 1)
  BY <1>3 DEF Calm
<1> HIDE DEF q, p
<1>5. /\ Len(q \o p) = Len(q) + Len(p) /\ Len(q) \in Nat /\ Len(p) \in Nat
      /\ \A i \in 1 .. Len(q) + Len(p) :
           (q \o p)[i] = IF i <= Len(q) THEN q[i] ELSE p[i - Len(q)]
  BY <1>3, ConcatProperties, LenProperties
<1>6. ASSUME NEW i \in 1 .. Len(q)
      PROVE  q[i][1] # "PEER_LEFT"
  <2>1. i \in 1 .. Len(q) + Len(p) /\ i <= Len(q)
    BY <1>5
  <2>2. (q \o p)[i] = q[i] /\ i \in 1 .. Len(q \o p)
    BY <1>5, <2>1
  <2>. QED
    BY <1>4, <2>2 DEF Quiet
<1>7. Quiet(q, 1)
  BY <1>6 DEF Quiet
<1>. QED
  BY <1>2, <1>7 DEF Calm, q

(* INPUT stays on its own side: the one handled is from the other seat.    *)
LEMMA TurnPairs ==
  ASSUME Inv, NEW t, NEW c, NEW f, NEW U, Turned(t, c, f, U)
  PROVE  InputInv' /\ PairInv'
<1>1. /\ con' = con /\ mem'.live = t.live /\ t.live \subseteq Client
      /\ t.live \subseteq Known /\ Good(t) /\ Good(mem) /\ None \notin Client
  BY TurnLeaves, ServerAssumption DEF Turned, Inv, MemoryInv
<1>2. InputInv'
  <2>1. ASSUME NEW k \in Console, Calm(k)', NEW i \in DOMAIN up'[con[k].conn],
               up'[con[k].conn][i][1] = "INPUT"
        PROVE  con[k].active /\ up'[con[k].conn][i][2] = con[k].seat
    <3> DEFINE d == con[k].conn
    <3>1. Calm(k) /\ d \in Client
      BY <2>1, TurnCalm, ConsoleIs DEF Calm
    <3>2. \E j \in DOMAIN up[d] : up'[d][i] = up[d][j]
      BY <2>1, <3>1, TurnUnread
    <3>. QED
      BY <2>1, <3>1, <3>2 DEF Inv, InputInv
  <2>. QED
    BY <1>1, <2>1 DEF InputInv
<1>3. ASSUME NEW j \in Console, NEW k \in Console, Calm(j)', Calm(k)',
             con[k].conn \in t.live
      PROVE  Clean(Way(k)', Sat(k)', con[j].conn)
  <2> DEFINE e == con[j].conn
             d == con[k].conn
             q == Way(k)
             p == Out(t, d)
             v == Where(t, d)
  <2>1. Calm(j) /\ Calm(k) /\ Reading(j) /\ Reading(k)
    BY <1>3, TurnCalm DEF Calm
  <2>2. /\ d \in Client /\ q \in Seq(Frame) /\ Way(k)' = q \o p
        /\ Sat(k) = Where(mem, d) /\ Sat(k)' = v /\ v \in Whereabouts
        /\ mem.name[d] \in {None, NameOf[k]}
        /\ d \notin mem.live => Where(mem, d) = Nowhere
        /\ Came(Where(mem, d), <<>>, v, p, mem.name[d], c, f)
    BY <1>3, <2>1, TurnWay
  <2>3. e \in Client /\ Way(j)' \in Seq(Frame) /\ Sat(j)' = Where(t, e)
    <3>1. /\ e \in Client /\ Out(t, e) \in Seq(Frame) /\ Way(j) \in Seq(Frame)
          /\ Way(j)' = Way(j) \o Out(t, e) /\ Sat(j)' = Where(t, e)
      BY <2>1, TurnWay
    <3>. QED
      BY <3>1, ConcatProperties
  <2>4. Clean(q, Where(mem, d), e)
    <3>1. CASE d \in mem.live
      BY <2>1, <2>2, <3>1 DEF Inv, PairInv
    <3>2. CASE d \notin mem.live
      BY <1>1, <2>2, <2>3, <3>2 DEF Clean, Nowhere
    <3>. QED
      BY <3>1, <3>2
  <2>5. Track(con[k], q, NameOf[k], Where(mem, d))
    <3>1. d \in Known
      BY <1>1, <1>3
    <3>. QED
      BY <2>1, <2>2, <3>1 DEF Inv, TrackInv
  <2>6. Quiet(q \o p, 1)
    BY <1>3, <2>2 DEF Calm
  <2>7. ASSUME f[1] = "INPUT", c = e, v.mate = e
        PROVE  f[2] # v.seat
    <3>1. t.room[d] # None
      BY <1>1, <2>3, <2>7 DEF Where, Nowhere
    <3>2. Sits(t, d)
      BY <1>1, <2>2, <3>1, SitsIn DEF Good
    <3>3. e # d /\ t.room[e] = t.room[d] /\ e \in t.live
      BY <2>7, <3>2 DEF Sits
    <3>4. Where(t, e).seat # v.seat
      <4>1. Good(t) /\ e \in Client /\ d \in Client
        BY <1>1, <2>2, <2>3
      <4>2. e # d /\ t.room[d] # None /\ t.room[e] = t.room[d]
        BY <3>1, <3>3
      <4> HIDE DEF d, e
      <4>. QED
        BY <4>1, <4>2, Opposite
    <3>5. up[e] # <<>> /\ f = Head(up[e]) /\ up[e] \in Seq(Asked)
      BY <2>3, <2>7 DEF Turned, Inv, BoxesInv
    <3>6. f = up[e][1] /\ 1 \in DOMAIN up[e]
      BY <3>5, EmptySeq, LenProperties
    <3>7. con[j].active /\ f[2] = con[j].seat
      BY <2>1, <2>7, <3>6 DEF Inv, InputInv
    <3>8. Track(con[j], Way(j)', NameOf[j], Where(t, e))
      <4>1. e \in Known' /\ Reading(j)'
        BY <1>1, <1>3, <3>3 DEF Known, Calm
      <4>. QED
        BY <1>1, <2>3, <4>1, TurnTrack DEF TrackInv
    <3>9. ~con[j].dropped /\ Quiet(Way(j)', 1)
      BY <1>1, <1>3 DEF Calm
    <3>10. Agree(con[j], Where(t, e))
      BY <2>3, <3>7, <3>8, <3>9, TrackSays
    <3>11. con[j].seat = Where(t, e).seat
      BY <3>7, <3>9, <3>10 DEF Agree
    <3>. QED
      BY <3>4, <3>7, <3>11
  <2> HIDE DEF e, d, q, p, v
  <2>8. Clean(q \o p, v, e)
    BY <2>2, <2>4, <2>5, <2>6, <2>7, CleanCame
  <2>. QED
    BY <2>2, <2>8 DEF e
<1>4. PairInv'
  BY <1>1, <1>3 DEF PairInv
<1>. QED
  BY <1>2, <1>4

(* So a turn of the server keeps the invariant.                            *)
LEMMA TurnInv ==
  ASSUME Inv, NEW t, NEW c, NEW f, NEW U, Turned(t, c, f, U)
  PROVE  Inv'
BY TurnLeaves, TurnBoxes, TurnTrack, TurnPairs DEF Inv

-----------------------------------------------------------------------------
(* The turns there are.                                                    *)

(* The memory a turn begins with: no send to a console that is there       *)
(* fails.                                                                  *)
Ready(m) ==
  /\ Good(m) /\ m.live = mem.live /\ m.name = mem.name /\ m.autoGo = 0
  /\ \A d \in Client : Where(m, d) = Where(mem, d) /\ Out(m, d) = <<>>
  /\ \A d \in mem.live : Used(d) => m.fuse[d] = -1

(* The server begins its turn so, whichever connections are broken.        *)
LEMMA ArmedReady ==
  ASSUME Inv
  PROVE  Ready(mem) /\ \A broken \in Faults : Ready(Armed(broken))
<1>1. /\ Good(mem) /\ mem.autoGo = 0 /\ mem.fuse = Sound
      /\ \A d \in Client : mem.sent[d] = <<>>
  BY DEF Inv, MemoryInv
<1>2. Typed(mem) /\ Sending(mem) /\ mem.live \subseteq Client
  BY <1>1 DEF Good, Typed
<1>3. <<>> \in Seq(Frame)
  BY EmptySeq
<1>4. \A d \in Client : Out(mem, d) = <<>>
  BY <1>1, <1>3, FramesOfOpen DEF Out
<1>5. Ready(mem)
  BY <1>1, <1>2, <1>4 DEF Ready, Sound
<1>6. ASSUME NEW broken \in Faults
      PROVE  Ready(Armed(broken))
  <2> DEFINE g == [d \in Client |-> IF d \in DOMAIN broken THEN broken[d] ELSE -1]
             m == Armed(broken)
  <2>1. /\ DOMAIN broken = {d \in mem.live : Gone(d)}
        /\ \A d \in DOMAIN broken : broken[d] \in {-1, 0, 1}
    BY DEF Faults
  <2>2. g \in [Client -> {-1, 0, 1}]
    BY <2>1
  <2>3. \A d \in mem.live : Used(d) => g[d] = -1
    BY <1>2, <2>1 DEF Gone
  <2>4. m = [mem EXCEPT !.fuse = g]
    BY DEF Armed
  <2> HIDE DEF m, g
  <2>5. /\ Typed(m) /\ m.live = mem.live /\ m.name = mem.name /\ m.byName = mem.byName
        /\ m.room = mem.room /\ m.members = mem.members /\ m.started = mem.started
        /\ m.crc = mem.crc /\ m.ok = mem.ok /\ m.sent = mem.sent
        /\ m.autoGo = mem.autoGo /\ m.fuse = g
    BY <1>2, <2>2, <2>4 DEF Typed
  <2>6. Sending(m) /\ Silent(mem, m, Client)
    BY <1>2, <2>5, SameSending
  <2>7. Good(m)
    BY <1>1, <2>5, <2>6 DEF Good, Rooms, In, Dict, Few, Tables
  <2>8. \A d \in Client : Where(m, d) = Where(mem, d)
    BY <2>5, SamePlace
  <2>9. \A d \in Client : Out(m, d) = <<>>
    BY <1>4, <2>6 DEF Silent
  <2>10. Ready(m)
    BY <1>1, <2>3, <2>5, <2>7, <2>8, <2>9 DEF Ready
  <2>. QED
    BY <2>10 DEF m
<1>. QED
  BY <1>5, <1>6

(* Whoever has been told all that happened is as Turned has him.           *)
LEMMA FaresTurned ==
  ASSUME Inv, NEW m, Ready(m), NEW t, NEW c \in mem.live, NEW f, Fares(m, t, c, f),
         NEW U, UNCHANGED pending, Becomes(t), up' = Still(U),
         \/ U = up /\ f[1] \notin {"HELLO", "INPUT"}
         \/ up[c] # <<>> /\ f = Head(up[c]) /\ U = [up EXCEPT ![c] = Tail(@)],
         \A d \in t.live : t.name[d] = IF f[1] = "HELLO" /\ d = c THEN f[3] ELSE m.name[d]
  PROVE  Inv'
<1>1. /\ Good(t) /\ t.live \subseteq mem.live /\ t.autoGo = 0 /\ m.name = mem.name
      /\ mem.live \subseteq Client
  BY DEF Ready, Fares, Inv, MemoryInv, Good, Typed
<1>2. pending' \subseteq pending \ t.live /\ t.live \subseteq Known
  BY <1>1 DEF Inv, BoxesInv, Known
<1>3. up' = [d \in Client |-> IF d \in t.live \cup pending' THEN U[d] ELSE <<>>]
  <2>1. mem'.live = t.live
    BY <1>1, ClearedAfresh DEF Becomes, Cleared, Afresh
  <2>. QED
    BY <2>1 DEF Still
<1>4. ASSUME NEW d \in Client, Used(d)
      PROVE  IF d \in t.live
             THEN Came(Where(mem, d), <<>>, Where(t, d), Out(t, d), mem.name[d], c, f)
             ELSE Out(t, d) = <<>>
  <2>1. Where(m, d) = Where(mem, d) /\ Out(m, d) = <<>>
    BY DEF Ready
  <2>2. CASE d \in mem.live
    <3>1. m.fuse[d] = -1 /\ d \in m.live
      BY <1>4, <2>2 DEF Ready
    <3>2. FaresOne(m, t, d, c, f)
      BY <3>1 DEF Fares
    <3>. QED
      BY <1>1, <2>1, <3>2 DEF FaresOne
  <2>3. CASE d \notin mem.live
    <3>1. Out(t, d) = Out(m, d)
      BY <2>3 DEF Ready, Fares, Silent
    <3>. QED
      BY <1>1, <2>1, <2>3, <3>1
  <2>. QED
    BY <2>2, <2>3
<1>5. Turned(t, c, f, U)
  BY <1>1, <1>2, <1>3, <1>4 DEF Turned
<1>. QED
  BY <1>5, TurnInv

(* A frame is handled.                                                     *)
LEMMA ServeInv ==
  ASSUME Inv, NEW c \in Client, Serve(c)
  PROVE  Inv'
<1> DEFINE f == Head(up[c])
           U == [up EXCEPT ![c] = Tail(@)]
<1>1. PICK broken \in Faults : Becomes(Handle(Armed(broken), c, f))
  BY DEF Serve
<1>2. c \in mem.live /\ up[c] # <<>> /\ up' = Still(U) /\ UNCHANGED pending
  BY DEF Serve
<1> DEFINE m == Armed(broken)
           t == Handle(m, c, f)
<1>3. Ready(m)
  BY ArmedReady
<1>4. up[c] \in Seq(Asked)
  BY DEF Inv, BoxesInv
<1>5. f = up[c][1] /\ 1 \in DOMAIN up[c] /\ f \in Asked
  BY <1>2, <1>4, EmptySeq, LenProperties
<1>6. f[1] = "HELLO" => mem.name[c] = None
  BY <1>5 DEF Inv, HelloInv
<1>7. Becomes(t)
  BY <1>1
<1> HIDE DEF f, m
<1>8. Good(m) /\ m.autoGo = 0 /\ c \in m.live /\ (f[1] = "HELLO" => m.name[c] = None)
  BY <1>2, <1>3, <1>6 DEF Ready
<1>9. /\ Fares(m, t, c, f)
      /\ t.name = IF f[1] = "HELLO" THEN [m.name EXCEPT ![c] = f[3]] ELSE m.name
  BY <1>5, <1>8, HandleFares
<1> HIDE DEF t
<1>10. m.name \in [Client -> Name \cup {None}] /\ t.live \subseteq Client
  BY <1>8, <1>9 DEF Good, Typed, Fares
<1>11. \A d \in t.live : t.name[d] = IF f[1] = "HELLO" /\ d = c THEN f[3] ELSE m.name[d]
  BY <1>9, <1>10
<1>12. f = Head(up[c]) /\ U = [up EXCEPT ![c] = Tail(@)]
  BY DEF f
<1> HIDE DEF U
<1>13. \/ U = up /\ f[1] \notin {"HELLO", "INPUT"}
       \/ up[c] # <<>> /\ f = Head(up[c]) /\ U = [up EXCEPT ![c] = Tail(@)]
  BY <1>2, <1>12
<1>14. Fares(m, t, c, f)
  BY <1>9
<1>. QED
  BY <1>2, <1>3, <1>7, <1>11, <1>13, <1>14, FaresTurned

(* A connection is dropped: its console is gone, or never said its name.   *)
LEMMA HangupInv ==
  ASSUME Inv, NEW c \in Client, Hangup(c) \/ Sweeping(c)
  PROVE  Inv'
<1> DEFINE f == <<"LIST">>
<1>1. c \in mem.live /\ up' = Still(up) /\ UNCHANGED pending
  BY DEF Hangup, Sweeping, Gone
<1>2. f[1] \notin {"HELLO", "INPUT"} /\ f[1] # "HELLO"
  OBVIOUS
<1> HIDE DEF f
<1>3. ASSUME NEW m, Ready(m), NEW why, Becomes(Drop(m, c, why))
      PROVE  Inv'
  <2> DEFINE t == Drop(m, c, why)
  <2>1. Good(m) /\ c \in m.live
    BY <1>1, <1>3 DEF Ready
  <2>2. Fares(m, t, c, f) /\ t.name = m.name
    BY <2>1, DropFares
  <2>3. Becomes(t)
    BY <1>3
  <2> HIDE DEF t
  <2>4. \A d \in t.live : t.name[d] = IF f[1] = "HELLO" /\ d = c THEN f[3] ELSE m.name[d]
    BY <1>2, <2>2
  <2>. QED
    BY <1>1, <1>2, <1>3, <2>2, <2>3, <2>4, FaresTurned
<1>4. CASE Hangup(c)
  <2>1. PICK broken \in Faults : Becomes(Drop(Armed(broken), c, "closed"))
    BY <1>4 DEF Hangup
  <2>2. Ready(Armed(broken))
    BY ArmedReady
  <2>. QED
    BY <1>3, <2>1, <2>2
<1>5. CASE Sweeping(c)
  <2>1. Becomes(Drop(mem, c, "no hello"))
    BY <1>5 DEF Sweeping, Sweep
  <2>2. Ready(mem)
    BY ArmedReady
  <2>. QED
    BY <1>3, <2>1, <2>2
<1>. QED
  BY <1>4, <1>5

(* A connection is accepted, or refused.                                   *)
LEMMA AcceptInv ==
  ASSUME Inv, NEW c \in Client, OnAccept(c)
  PROVE  Inv'
<1> DEFINE t == Accept(mem, c)
           f == <<"LIST">>
<1>1. /\ c \in pending /\ pending' = pending \ {c} /\ Becomes(t)
      /\ up' = IF c \in mem'.live THEN up ELSE [up EXCEPT ![c] = <<>>]
  BY DEF OnAccept
<1>2. /\ Good(mem) /\ mem.autoGo = 0 /\ c \notin mem.live /\ mem.name[c] = None
      /\ mem.sent[c] = <<>> /\ mem.live \subseteq Client /\ up \in [Client -> Seq(Asked)]
      /\ pending \subseteq Client \ mem.live /\ \A d \in Client \ Known : up[d] = <<>>
  <2>1. mem.live \subseteq Client /\ Good(mem)
    BY DEF Inv, MemoryInv, Good, Typed
  <2>2. c \in Client /\ c \notin mem.live
    BY <1>1 DEF Inv, BoxesInv
  <2>. QED
    BY <2>1, <2>2 DEF Inv, MemoryInv, BoxesInv
<1>3. Accepted(mem, t, c)
  BY <1>2, AcceptDoes
<1>4. f[1] \notin {"HELLO", "INPUT"} /\ f[1] # "HELLO"
  OBVIOUS
<1> HIDE DEF t, f
<1>5. /\ Good(t) /\ t.autoGo = 0 /\ t.name = mem.name
      /\ t.live = mem.live \/ t.live = mem.live \cup {c}
      /\ \A d \in Client : Where(t, d) = Where(mem, d) /\ Out(t, d) = Out(mem, d)
  BY <1>2, <1>3 DEF Accepted, Silent
<1>6. mem'.live = t.live
  BY <1>1, <1>5, ClearedAfresh DEF Becomes, Cleared, Afresh
<1>7. t.live \subseteq Known /\ pending' \subseteq pending \ t.live
  BY <1>1, <1>2, <1>5 DEF Known
<1>8. up' = [d \in Client |-> IF d \in t.live \cup pending' THEN up[d] ELSE <<>>]
  <2>1. up' \in [Client -> Seq(Asked)]
    <3>1. <<>> \in Seq(Asked)
      BY EmptySeq
    <3>. QED
      BY <1>1, <1>2, <3>1
  <2>2. ASSUME NEW d \in Client
        PROVE  up'[d] = IF d \in t.live \cup pending' THEN up[d] ELSE <<>>
    BY <1>1, <1>2, <1>5, <1>6 DEF Known
  <2>. QED
    BY <2>1, <2>2
<1>9. ASSUME NEW d \in Client
      PROVE  IF d \in t.live
             THEN Came(Where(mem, d), <<>>, Where(t, d), Out(t, d), mem.name[d], c, f)
             ELSE Out(t, d) = <<>>
  <2>1. Out(mem, d) = <<>>
    BY ArmedReady DEF Ready
  <2>. QED
    BY <1>5, <2>1 DEF Came
<1>10. Turned(t, c, f, up)
  BY <1>1, <1>4, <1>5, <1>7, <1>8, <1>9 DEF Turned
<1>. QED
  BY <1>10, TurnInv

(* Every step keeps the invariant.                                         *)
LEMMA SessionStep == Inv /\ [Next]_vars => Inv'
<1>1. SUFFICES ASSUME Inv, [Next]_vars
               PROVE  Inv'
  OBVIOUS
<1>2. ASSUME NEW k \in Console, Player(k) \/ Machine(k)
      PROVE  Inv'
  <2>1. \/ PowerOn(k) \/ Reset(k) \/ Receive(k)
        \/ AskList(k) \/ EnterJoin(k) \/ EnterGo(k) \/ Play(k)
        \/ Begin(k) \/ Park(k) \/ GiveUp(k)
    BY <1>2 DEF Player, Machine
  <2>2. CASE PowerOn(k)
    BY <1>1, <2>2, PowerOnInv
  <2>3. CASE Reset(k)
    BY <1>1, <2>3, ResetInv
  <2>4. CASE Receive(k)
    BY <1>1, <2>4, ReceiveInv
  <2>5. CASE AskList(k) \/ EnterJoin(k) \/ EnterGo(k) \/ Play(k)
    BY <1>1, <2>5, AskInv
  <2>6. CASE Begin(k) \/ Park(k) \/ GiveUp(k)
    BY <1>1, <2>6, ShowInv
  <2>. QED
    BY <2>1, <2>2, <2>3, <2>4, <2>5, <2>6
<1>3. ASSUME NEW c \in Client, ServerTurn(c)
      PROVE  Inv'
  <2>1. OnAccept(c) \/ Serve(c) \/ (Hangup(c) \/ Sweeping(c))
    BY <1>3 DEF ServerTurn
  <2>. QED
    BY <1>1, <2>1, AcceptInv, ServeInv, HangupInv
<1>4. CASE UNCHANGED vars
  BY <1>1, <1>4 DEF vars, Inv, MemoryInv, BoxesInv, ConsInv, HelloInv, NameInv,
     TrackInv, InputInv, PairInv, Reading, Calm, Known, Way, Sat, Used
<1>. QED
  BY <1>1, <1>2, <1>3, <1>4 DEF Next

-----------------------------------------------------------------------------
(* In every behaviour, for any number of consoles, connections and rooms,  *)
(* the frames a console has not read lead from what it shows to where the  *)
(* server has it, and the server's memory is in good order.                *)
THEOREM SessionSafe == Spec => []Inv
<1>1. Init => Inv
  BY SessionInit
<1>2. Inv /\ [Next]_vars => Inv'
  BY SessionStep
<1>. QED
  BY <1>1, <1>2, PTL DEF Spec

(* Consoles and server stay well formed: the dict of the server lists only *)
(* who is connected, and nobody twice.                                     *)
THEOREM SessionTyped == Spec => []TypeOK
<1>1. Inv => TypeOK
  <2>1. SUFFICES ASSUME Inv
                 PROVE  TypeOK
    OBVIOUS
  <2>2. Typed(mem) /\ Dict(mem) /\ Tables(mem)
    BY <2>1 DEF Inv, MemoryInv, Good
  <2>3. ASSUME NEW r \in RoomId
        PROVE  IsFiniteSet(mem.crc[r]) /\ mem.crc[r] \subseteq Report
    BY <2>2 DEF Typed, Tables
  <2>4. ASSUME NEW i \in DOMAIN mem.byName
        PROVE  mem.byName[i].client \in mem.live /\ mem.byName[i].name \in Name
    <3>1. mem.byName[i].client \in mem.live
      BY <2>2 DEF Dict
    <3>2. mem.byName \in Seq([name : Name, client : Client])
      BY <2>2 DEF Typed
    <3>3. mem.byName[i] \in [name : Name, client : Client]
      <4> DEFINE q == mem.byName
                 S == [name : Name, client : Client]
      <4>1. q \in Seq(S) /\ i \in DOMAIN q
        BY <3>2
      <4> HIDE DEF q, S
      <4>2. q[i] \in S
        BY <4>1, ElementOfSeq, LenProperties
      <4>. QED
        BY <4>2 DEF q, S
    <3>. QED
      BY <3>1, <3>3
  <2>5. ASSUME NEW i \in DOMAIN mem.byName, NEW j \in DOMAIN mem.byName,
               mem.byName[i].client = mem.byName[j].client
        PROVE  i = j
    <3>1. mem.byName[i].name = mem.byName[j].name
      BY <2>2, <2>5 DEF Dict
    <3>. QED
      BY <2>2, <3>1 DEF Dict
  <2>6. /\ mem.live \subseteq Client /\ mem.autoGo \in {0, 2}
        /\ mem.name \in [Client -> Name \cup {None}]
        /\ mem.room \in [Client -> RoomId \cup {None}]
        /\ mem.members \in [RoomId -> Seq(Client)] /\ mem.started \subseteq RoomId
        /\ mem.ok \in [RoomId -> Nat]
    BY <2>2 DEF Typed
  <2>7. ServerOK(mem)
    BY <2>3, <2>4, <2>5, <2>6 DEF ServerOK
  <2>8. ASSUME NEW c \in Client
        PROVE  Len(up[c]) \in 0 .. MaxFlight
    <3>1. up[c] \in Seq(Asked) /\ Len(up[c]) <= MaxFlight
      BY <2>1 DEF Inv, BoxesInv
    <3>2. Len(up[c]) \in Nat
      BY <3>1, LenProperties
    <3>. QED
      BY <3>1, <3>2, SessionAssumption
  <2>. QED
    BY <2>1, <2>7, <2>8 DEF TypeOK, Inv, ConsInv, BoxesInv
<1>. QED
  BY <1>1, SessionSafe, PTL

(* A console that has read everything shows where the server has it.       *)
LEMMA ReadShows ==
  ASSUME Inv, NEW k \in Console, Reading(k), con[k].conn \in Known
  PROVE  /\ Track(con[k], Way(k), NameOf[k], Sat(k)) /\ Way(k) \in Seq(Frame)
         /\ con[k].conn \in Client
         /\ Way(k) = <<>> => Agree(con[k], Sat(k))
<1>1. /\ Track(con[k], Way(k), NameOf[k], Sat(k)) /\ Way(k) \in Seq(Frame)
      /\ con[k].conn \in Client
  BY ConsoleIs DEF Inv, TrackInv
<1>. QED
  BY <1>1, TrackSays

(* What a console that has read everything shows, lobby or waiting room or *)
(* match, names and host, is what the server has.                          *)
THEOREM SessionScreens == Spec => []ScreenRight
<1>1. Inv => ScreenRight
  <2>1. SUFFICES ASSUME Inv, NEW k \in Console, con[k].screen \in {"lobby", "match"},
                        UpToDate(k)
                 PROVE  IF RoomOf(k) = None THEN con[k].cnt = 0 /\ ~con[k].active
                        ELSE /\ con[k].names = Roster(mem, RoomOf(k))
                             /\ RoomOf(k) \in mem.started <=> con[k].active
                             /\ con[k].active \/ (con[k].cnt = 2 /\
                                  con[k].host = (Seat(mem, con[k].conn) = 0))
    BY DEF ScreenRight
  <2> DEFINE c == con[k].conn
  <2>2. /\ c \in mem.live /\ Way(k) = <<>> /\ ~con[k].dropped
        /\ Reading(k) /\ c \in Known
    BY <2>1 DEF UpToDate, Connected, Way, Reading, Known
  <2>3. Agree(con[k], Where(mem, c))
    BY <2>1, <2>2, ReadShows DEF Sat
  <2>4. CASE RoomOf(k) = None
    <3>1. Where(mem, c) = Nowhere
      BY <2>4 DEF Where, RoomOf
    <3>. QED
      BY <2>2, <2>3, <2>4, <3>1 DEF Agree, Nowhere
  <2>5. CASE RoomOf(k) # None
    <3> DEFINE w == Where(mem, c)
    <3>1. /\ w.in /\ w.names = Roster(mem, RoomOf(k)) /\ w.seat = Seat(mem, c)
          /\ w.on <=> RoomOf(k) \in mem.started
      BY <2>5 DEF Where, RoomOf
    <3> HIDE DEF w
    <3>2. Agree(con[k], w)
      BY <2>3 DEF w
    <3>3. con[k].host \in BOOLEAN /\ con[k].active \in BOOLEAN
      BY <2>1, ConsoleIs DEF ConsoleState
    <3>4. /\ con[k].names = w.names /\ (con[k].active <=> w.on)
          /\ con[k].active \/ (con[k].cnt = 2 /\ (con[k].host <=> w.seat = 0))
      BY <2>2, <3>1, <3>2 DEF Agree
    <3>. QED
      BY <2>5, <3>1, <3>3, <3>4
  <2>. QED
    BY <2>4, <2>5
<1>. QED
  BY <1>1, SessionSafe, PTL

(* Two consoles in one match that have no news of its end to read have one *)
(* roster and different seats, and each its own name at its seat.          *)
THEOREM SessionMatches == Spec => []MatchAgreed
<1>1. ASSUME Inv, NEW k \in Console, UpToDate(k), con[k].screen = "match"
      PROVE  LET w == Where(mem, con[k].conn)
             IN  /\ con[k].conn \in mem.live /\ con[k].conn \in Client
                 /\ RoomOf(k) # None /\ con[k].names = w.names /\ con[k].seat = w.seat
                 /\ con[k].names[con[k].seat + 1] = NameOf[k]
  <2> DEFINE c == con[k].conn
             w == Where(mem, c)
  <2>1. /\ c \in mem.live /\ Way(k) = <<>> /\ ~con[k].dropped
        /\ Reading(k) /\ c \in Known /\ con[k].active
    BY <1>1 DEF UpToDate, Connected, Way, Reading, Known, Inv, ConsInv
  <2>2. Agree(con[k], w) /\ c \in Client
    BY <1>1, <2>1, ReadShows DEF Sat
  <2>3. con[k].names = w.names /\ con[k].seat = w.seat /\ w.in
    BY <2>1, <2>2 DEF Agree
  <2>4. mem.room[c] # None
    BY <2>3 DEF Where, Nowhere
  <2>5. Good(mem) /\ mem.name[c] = NameOf[k]
    <3>1. Good(mem) /\ mem.name[c] \in {None, NameOf[k]}
      BY <1>1, <2>1 DEF Inv, MemoryInv, NameInv
    <3>2. mem.name[c] # None
      BY <2>2, <2>4, <3>1 DEF Good, Rooms
    <3>. QED
      BY <3>1, <3>2
  <2>6. w.names[w.seat + 1] = NameOf[k]
    BY <2>2, <2>4, <2>5, PlaceFair DEF Fair
  <2>. QED
    BY <2>1, <2>2, <2>3, <2>4, <2>6 DEF RoomOf
<1>2. Inv => MatchAgreed
  <2>1. SUFFICES ASSUME Inv, NEW j \in Console, NEW k \in Console, j # k,
                        UpToDate(j), UpToDate(k), RoomOf(j) = RoomOf(k),
                        con[j].screen = "match", con[k].screen = "match"
                 PROVE  /\ con[j].names = con[k].names /\ con[j].seat # con[k].seat
                        /\ con[k].names[con[k].seat + 1] = NameOf[k]
    BY DEF MatchAgreed
  <2> DEFINE c == con[j].conn
             d == con[k].conn
  <2>2. /\ c \in Client /\ con[j].names = Where(mem, c).names
        /\ con[j].seat = Where(mem, c).seat
    BY <1>1, <2>1
  <2>3. /\ d \in Client /\ con[k].names = Where(mem, d).names
        /\ con[k].seat = Where(mem, d).seat /\ RoomOf(k) # None
        /\ con[k].names[con[k].seat + 1] = NameOf[k]
    BY <1>1, <2>1
  <2>4. c # d /\ Good(mem) /\ mem.room[d] # None /\ mem.room[c] = mem.room[d]
    <3>1. None \notin Client
      BY ServerAssumption
    <3>. QED
      BY <2>1, <2>2, <2>3, <3>1 DEF Inv, ConsInv, MemoryInv, RoomOf
  <2> HIDE DEF c, d
  <2>5. Where(mem, c).names = Where(mem, d).names /\ Where(mem, c).seat # Where(mem, d).seat
    BY <2>2, <2>3, <2>4, Opposite
  <2>. QED
    BY <2>2, <2>3, <2>5
<1>. QED
  BY <1>2, SessionSafe, PTL

(* INPUT is read in a match only, and, as long as neither of the two has   *)
(* news of its end, from the other seat.                                   *)
THEOREM SessionInputs == Spec => []NoStrayInput
<1>1. ASSUME Inv, NEW k \in Console, Settled(k), con[k].screen # "off"
      PROVE  Calm(k) /\ con[k].conn \in mem.live /\ con[k].conn \in Client
  <2>1. con[k].conn \in mem.live /\ ~con[k].dropped /\ con[k].conn \in Client
    BY <1>1, ConsoleIs DEF Settled, Connected
  <2>2. con[k].screen \in Screen /\ con[k].screen # "parked"
    BY <1>1, <2>1, ConsoleIs DEF Inv, ConsInv, ConsoleState
  <2>3. Way(k) \in Seq(Frame)
    BY <1>1, ConsoleIs
  <2>4. Quiet(Way(k), 1)
    <3>1. DOMAIN Way(k) = 1 .. Len(Way(k))
      BY <2>3, LenProperties
    <3>. QED
      BY <1>1, <3>1 DEF Settled, Quiet, Way
  <2>. QED
    BY <1>1, <2>1, <2>2, <2>4 DEF Calm, Reading, Screen
<1>2. ASSUME Inv, NEW k \in Console, Reading(k), NEW i \in DOMAIN Way(k),
             Way(k)[i][1] = "INPUT"
      PROVE  con[k].active \/ Begins(Way(k), i)
  <2>1. Way(k) \in Seq(Frame)
    BY <1>2, ConsoleIs
  <2>2. PICK w : Track(con[k], Way(k), NameOf[k], w)
    BY <1>2 DEF Inv, TrackInv
  <2>. QED
    BY <1>2, <2>1, <2>2, TrackSays
<1>3. ASSUME Inv, NEW k \in Console, Reading(k), NEW i \in DOMAIN Way(k),
             Way(k)[i][1] = "INPUT", NEW j \in Console, Mates(j, k)
      PROVE  /\ con[k].active => con[k].seat # Way(k)[i][2]
             /\ \A l \in DOMAIN Way(k) : Way(k)[l][1] = "START" => Way(k)[l][2] # Way(k)[i][2]
  <2> DEFINE e == con[j].conn
             d == con[k].conn
             q == Way(k)
  <2>1. j # k /\ Settled(j) /\ Settled(k) /\ mem.room[e] = mem.room[d] /\ mem.room[d] # None
    BY <1>3 DEF Mates, RoomOf
  <2>2. con[j].screen # "off" /\ con[k].screen # "off"
    <3>1. e \in mem.live /\ mem.live \subseteq Client /\ None \notin Client
      BY <1>3, <2>1, ConsoleIs, ServerAssumption DEF Settled, Connected
    <3>. QED
      BY <1>3, <3>1, ConsoleIs DEF Inv, ConsInv
  <2>3. /\ Calm(j) /\ Calm(k) /\ d \in mem.live /\ d \in Client /\ e \in Client
    BY <1>1, <1>3, <2>1, <2>2
  <2>4. Track(con[k], q, NameOf[k], Where(mem, d)) /\ q \in Seq(Frame)
    BY <1>3, <2>3, ReadShows DEF Known, Sat
  <2>5. Clean(q, Where(mem, d), e)
    BY <1>3, <2>3 DEF Inv, PairInv, Sat
  <2>6. Where(mem, d).mate = e
    <3>1. Good(mem) /\ e # d
      BY <1>3, <2>1, <2>2, ConsoleIs DEF Inv, MemoryInv
    <3> HIDE DEF e, d
    <3>. QED
      BY <2>1, <2>3, <3>1, Opposite
  <2>7. q[i][2] # Where(mem, d).seat
    BY <1>3, <2>5, <2>6 DEF Clean
  <2>8. Quiet(q, 1) /\ ~con[k].dropped
    BY <2>3 DEF Calm
  <2>9. con[k].active => con[k].seat = Where(mem, d).seat
    <3>1. con[k].active => Agree(con[k], Where(mem, d))
      BY <2>4, <2>8, TrackSays
    <3>. QED
      BY <2>8, <3>1 DEF Agree
  <2>10. \A l \in DOMAIN q : q[l][1] = "START" => Where(mem, d).seat = q[l][2]
    BY <2>4, <2>8, TrackSays
  <2>. QED
    BY <2>7, <2>9, <2>10
<1>4. Inv => NoStrayInput
  BY <1>2, <1>3 DEF NoStrayInput, Reading, Way, Begins
<1>. QED
  BY <1>4, SessionSafe, PTL
=============================================================================
