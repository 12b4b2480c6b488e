-------------------------------- MODULE Rig --------------------------------
(***************************************************************************)
(* The Python server under the scripts of the test rig: one harness        *)
(* process (Scripts), its TCP connections, and the server's event loop     *)
(* (Server), which accepts, receives and handles in whatever order the     *)
(* selector reports, while the harness is writing already.                 *)
(*                                                                         *)
(* A stream loses and reorders nothing, but recv may return any part of    *)
(* what was written.  What the harness waits for by the clock (QUIET, a    *)
(* sleep, 0.3 s of silence) is taken to be long enough: the server has     *)
(* handled everything.  Where it waits for a frame it really waits.        *)
(***************************************************************************)
EXTENDS Server, Scripts

CONSTANT Scenes      \* the scenarios to run

ASSUME SceneAssumption == Scenes \subseteq Scenario /\ Labels \subseteq Client

VARIABLES
  scene, pc,   \* the script and the next operation of it
  seen,        \* frames of mem.sent[c] the harness has read
  shut,        \* connections the harness has closed
  verdict,     \* have the harness's assertions held?
  backlog,     \* connections not accepted yet
  wire,        \* bytes written and not received
  mem,         \* the server's memory
  rx,          \* client.rx
  busy         \* whose received frames are being handled

harness == <<scene, pc, seen, shut, verdict>>
server == <<mem, rx, busy>>
vars == <<harness, backlog, wire, server>>

(* The server's memory is well formed, and the rig keeps within its script *)
(* and what it was sent.                                                   *)
TypeOK ==
  /\ ServerOK(mem) /\ scene \in Scenes /\ pc \in 1 .. Len(Script[scene]) + 1
  /\ verdict \in {"ok", "failed"} /\ busy \in mem.live \cup {None}
  /\ shut \subseteq Client /\ backlog \in Seq(Client)
  /\ \A c \in Client : seen[c] \in 0 .. Len(mem.sent[c])
  /\ \A c \in Client : Len(rx[c]) > 2 => busy = c

Init ==
  /\ scene \in Scenes /\ pc = 1
  /\ seen = [c \in Client |-> 0] /\ shut = {} /\ verdict = "ok"
  /\ backlog = <<>> /\ wire = [c \in Client |-> <<>>]
  /\ mem = Boot(AutoGoOf(scene)) /\ rx = [c \in Client |-> <<>>] /\ busy = None

-----------------------------------------------------------------------------
(* The server's event loop.                                                *)

OnAccept ==
  /\ busy = None /\ backlog # <<>>
  /\ mem' = Accept(mem, Head(backlog)) /\ backlog' = Tail(backlog)
  /\ UNCHANGED <<harness, wire, rx, busy>>

(* service: recv returns some of what is there.                            *)
Recv(c) ==
  /\ busy = None /\ c \in mem.live /\ wire[c] # <<>>
  /\ \E n \in 1 .. Len(wire[c]) :
       /\ rx' = [rx EXCEPT ![c] = @ \o SubSeq(wire[c], 1, n)]
       /\ wire' = [wire EXCEPT ![c] = SubSeq(@, n + 1, Len(@))]
  /\ busy' = c
  /\ UNCHANGED <<harness, backlog, mem>>

(* recv returns nothing.  A connection closed with frames unread is reset, *)
(* which recv may report as an error instead.                              *)
Hangup(c) ==
  /\ busy = None /\ c \in mem.live \cap shut /\ wire[c] = <<>>
  /\ \E why \in {"closed"} \cup (IF seen[c] < Len(mem.sent[c]) THEN {"recv error"} ELSE {}) :
       mem' = Drop(mem, c, why)
  /\ UNCHANGED <<harness, backlog, wire, rx, busy>>

WholeUnguarded(bytes) == TRUE  \* mutant

(* The partial-frame guard.                                                *)
Whole(bytes) == Len(bytes) >= Size(bytes[1].frame)

(* A byte out of its place would be taken for a length.                    *)
BadLength(b) == b.at # 1 \/ b.frame = <<"bad length">>

(* What the bytes at hand hold of the frame that begins with them.         *)
Cut(bytes) ==
  LET f == bytes[1].frame
  IN  IF Len(bytes) >= Size(f) THEN f ELSE IF Len(bytes) = 1 THEN <<"">> ELSE <<f[1]>>

(* One turn of the reassembler's loop.                                     *)
Serve ==
  LET c == busy
      need == Size(rx[c][1].frame)
      over == rx[c] = <<>> \/ (~BadLength(rx[c][1]) /\ ~Whole(rx[c]))
  IN  /\ busy # None
      /\ IF over THEN busy' = None /\ UNCHANGED <<mem, rx>>
         ELSE IF BadLength(rx[c][1])
         THEN mem' = Drop(mem, c, "bad frame length") /\ busy' = None /\ UNCHANGED rx
         ELSE /\ mem' = Handle(mem, c, Cut(rx[c]))
              /\ rx' = [rx EXCEPT ![c] = SubSeq(@, need + 1, Len(@))]
              /\ busy' = IF c \in mem'.live THEN c ELSE None
      /\ UNCHANGED <<harness, backlog, wire>>

-----------------------------------------------------------------------------
(* The harness.                                                            *)
Op == Script[scene][pc]
At(kind) == pc <= Len(Script[scene]) /\ Op[1] = kind

(* The server has nothing left to do.                                      *)
Quiet ==
  /\ busy = None /\ backlog = <<>>
  /\ \A c \in mem.live : wire[c] = <<>> /\ c \notin shut

Connecting ==
  /\ At("connect") /\ pc' = pc + 1
  /\ backlog' = Append(backlog, Op[2])
  /\ UNCHANGED <<scene, seen, shut, verdict, wire, server>>

Sending ==
  /\ At("send") /\ pc' = pc + 1
  /\ wire' = IF Op[2] \in shut THEN wire ELSE [wire EXCEPT ![Op[2]] = @ \o Op[3]]
  /\ UNCHANGED <<scene, seen, shut, verdict, backlog, server>>

Closing ==
  /\ At("close") /\ pc' = pc + 1
  /\ shut' = shut \cup {Op[2]}
  /\ UNCHANGED <<scene, seen, verdict, backlog, wire, server>>

Sleeping ==
  /\ At("sleep") /\ Quiet /\ pc' = pc + 1
  /\ UNCHANGED <<scene, seen, shut, verdict, backlog, wire, server>>

Unread(c) == SubSeq(mem.sent[c], seen[c] + 1, Len(mem.sent[c]))
Next1(c) == Head(Unread(c))
Ended(c) == Unread(c) # <<>> /\ Last(Unread(c)) = <<"EOF">>

(* What arrived is recorded, and a connection at its end closed.           *)
Syncing ==
  /\ At("sync") /\ Quiet /\ pc' = pc + 1
  /\ seen' = [c \in Client |-> IF c \in shut THEN seen[c] ELSE Len(mem.sent[c])]
  /\ shut' = shut \cup {c \in Client \ shut : Ended(c)}
  /\ UNCHANGED <<scene, verdict, backlog, wire, server>>

Judge(good) == verdict' = IF good THEN verdict ELSE "failed"

Expecting ==
  LET c == Op[2] IN
  /\ At("expect") /\ Unread(c) # <<>> /\ pc' = pc + 1
  /\ seen' = [seen EXCEPT ![c] = @ + 1]
  /\ Judge(Matches(Next1(c), Op[3]))
  /\ UNCHANGED <<scene, shut, backlog, wire, server>>

(* recv_frame in a loop, up to the first frame of the type.                *)
Skipping ==
  LET c == Op[2]
      found == Next1(c)[1] = "START"
  IN  /\ At("until") /\ Unread(c) # <<>>
      /\ seen' = [seen EXCEPT ![c] = @ + 1]
      /\ IF found THEN pc' = pc + 1 /\ Judge(Matches(Next1(c), Op[3]))
         ELSE UNCHANGED pc /\ Judge(Next1(c) # <<"EOF">>)
      /\ UNCHANGED <<scene, shut, backlog, wire, server>>

(* expect_silence: nothing at all.                                         *)
Silence ==
  /\ At("silent") /\ Quiet /\ pc' = pc + 1
  /\ Judge(Unread(Op[2]) = <<>>)
  /\ UNCHANGED <<scene, seen, shut, backlog, wire, server>>

(* A v1 HELLO is refused: the end of the connection, or silence.           *)
Refused ==
  LET c == Op[2] IN
  /\ At("refused") /\ (Unread(c) # <<>> \/ Quiet) /\ pc' = pc + 1
  /\ Judge(Unread(c) = <<>> \/ Next1(c) = <<"EOF">>)
  /\ UNCHANGED <<scene, seen, shut, backlog, wire, server>>

Begins(line, want) == Len(line) >= Len(want) /\ SubSeq(line, 1, Len(want)) = want

(* The gate's last assertions, on the server's log.                        *)
CheckingLog ==
  /\ At("log") /\ pc' = pc + 1
  /\ Judge(\A want \in Op[2] : \E i \in DOMAIN mem.log : Begins(mem.log[i], want))
  /\ UNCHANGED <<scene, seen, shut, backlog, wire, server>>

-----------------------------------------------------------------------------
ServerStep == OnAccept \/ Serve \/ \E c \in Client : Recv(c) \/ Hangup(c)
HarnessStep ==
  \/ Connecting \/ Sending \/ Closing \/ Sleeping \/ Syncing
  \/ Expecting \/ Skipping \/ Silence \/ Refused \/ CheckingLog
Next == ServerStep \/ HarnessStep

Spec == Init /\ [][Next]_vars

(* The selector reports every connection that is ready, and the harness is *)
(* a running program.                                                      *)
Fairness ==
  /\ WF_vars(OnAccept) /\ WF_vars(Serve) /\ WF_vars(HarnessStep)
  /\ \A c \in Client : WF_vars(Recv(c)) /\ WF_vars(Hangup(c))
FairSpec == Spec /\ Fairness

-----------------------------------------------------------------------------
(* The same script with a server that handles every write before the next. *)
RECURSIVE Served(_, _)
Served(c, st) ==
  LET bytes == st.rx[c]
      rest == SubSeq(bytes, Size(bytes[1].frame) + 1, Len(bytes))
  IN  IF bytes = <<>> \/ c \notin st.mem.live THEN st
      ELSE IF BadLength(bytes[1]) THEN [st EXCEPT !.mem = Drop(@, c, "bad frame length")]
      ELSE IF Len(bytes) < Size(bytes[1].frame) THEN st
      ELSE Served(c, [st EXCEPT !.mem = Handle(@, c, bytes[1].frame), !.rx[c] = rest])

Serially(st, op) ==
  CASE op[1] = "connect" -> [st EXCEPT !.mem = Accept(@, op[2])]
    [] op[1] = "send"    -> Served(op[2], [st EXCEPT !.rx[op[2]] = @ \o op[3]])
    [] op[1] = "close"   -> [st EXCEPT !.mem = Drop(@, op[2], "closed")]
    [] OTHER             -> st

SerialRun(s) ==
  FoldLeft(LAMBDA run, op : Append(run, Serially(Last(run), op)),
           <<[mem |-> Boot(AutoGoOf(s)), rx |-> [c \in Client |-> <<>>]]>>, Script[s])

Reference == FoldSet(LAMBDA s, acc : s :> SerialRun(s) @@ acc, <<>>, Scenes \cap Differential)

AtSync == scene \in Differential /\ At("sync") /\ Quiet

-----------------------------------------------------------------------------
(* The server as Relay sees it: a client has been told what all the frames *)
(* sent to it say.                                                         *)
ToldBy(frames) ==
  LET begun == SelectInSeq(frames, LAMBDA f : f[1] = "START")
      forming == IF begun = 0 THEN frames ELSE SubSeq(frames, 1, begun - 1)
      rooms == SelectSeq(forming, LAMBDA f : f[1] = "ROOM")
  IN  [cnt |-> IF rooms = <<>> THEN 0 ELSE Last(rooms)[2], active |-> begun # 0,
       dropped |-> SelectInSeq(frames, LAMBDA f : f[1] = "PEER_LEFT") # 0]

AsRelay ==
  [live |-> mem.live, name |-> mem.name, room |-> mem.room, members |-> mem.members,
   started |-> mem.started, count |-> Len(mem.byName),
   entry |-> [n \in Name |-> IF Named(mem, n) = {} THEN None
                             ELSE CHOOSE c \in Named(mem, n) : TRUE],
   told |-> [c \in Client |-> ToldBy(mem.sent[c])],
   fuse |-> [c \in Client |-> -1]]

Plain == INSTANCE Relay WITH srv <- AsRelay, Impl <- "py", AutoGo <- FALSE, Fuse <- {}
Automatic == INSTANCE Relay WITH srv <- AsRelay, Impl <- "py", AutoGo <- TRUE, Fuse <- {}

-----------------------------------------------------------------------------
(* Properties.                                                             *)

(* Handling bytes, frame after frame, the server does what Relay promises: *)
(* every step is one of Relay's handlers as a whole, or changes nothing    *)
(* that Relay speaks of.                                                   *)
ImplementsRelay ==
  /\ Plain!Init
  /\ [][\/ UNCHANGED mem \/ AsRelay' = AsRelay
        \/ mem.autoGo = 0 /\ Plain!Next
        \/ mem.autoGo = 2 /\ Automatic!Next]_AsRelay

(* server_diff.py compares transcripts byte for byte because its steps are *)
(* synchronous.  Whatever the order in which the selector serves the       *)
(* connections, and however TCP cuts the writes, each sync records the     *)
(* frames of the serial run, in the same order.                            *)
TranscriptFixed ==
  AtSync => \A c \in Client \ shut : mem.sent[c] = Reference[scene][pc].mem.sent[c]

(* And at each sync the server has logged the same lines in the same order.*)
LogFixed == AtSync => mem.log = Reference[scene][pc].mem.log

(* The protocol gate is not flaky: none of its assertions can fail because *)
(* of the order in which connections are served.                           *)
GateHolds == verdict = "ok"

(* Every script comes to its end: no frame it waits for fails to come.     *)
ScriptEnds == <>(pc > Len(Script[scene]))

(* The soak measures a running match (soak.py: one live match pumping      *)
(* INPUT and CRC), whose checksum rounds all agree.                        *)
SoakIsLive ==
  scene = "soak" /\ pc > Len(Script[scene]) => \E r \in mem.started : mem.ok[r] = SoakTicks
=============================================================================
