------------------------------ MODULE Session ------------------------------
(***************************************************************************)
(* Consoles before, in and after a match, and the relay they share: the    *)
(* lobby loop of netcode/session.asm (SES_MAIN and the handlers of LOBBY,  *)
(* ROOM, START and PEER_LEFT), composed with the handlers of the Python    *)
(* server (Server) through one stream of whole frames per direction of a   *)
(* connection.  A console may be reset at any moment; it comes back with a *)
(* new connection, and the server learns of the old one's end when it gets *)
(* round to it, or from a send that fails.  What a match exchanges is the  *)
(* subject of Lockstep; one kind of relayed frame stands for it here.      *)
(***************************************************************************)
EXTENDS Server

CONSTANTS
  Console,
  NameOf,      \* NAME_BUF: the lobby username of each console
  MaxFlight,   \* bound: frames of one connection under way
  MaxResets    \* bound: resets of all consoles together

ASSUME SessionAssumption ==
  /\ NameOf \in [Console -> Name] /\ MaxFlight \in Nat \ {0} /\ MaxResets \in Nat

VARIABLES
  con,      \* the netplay RAM of each console, and its screen
  up,       \* frames to the server, per connection
  down,     \* frames from the server
  pending,  \* connections not accepted yet
  mem,      \* the server
  resets    \* how many there have been

vars == <<con, up, down, pending, mem, resets>>

Screen == {"off", "lobby", "match", "parked"}

ConsoleState ==
  [screen : Screen, conn : Client \cup {None},
   list : SUBSET Name,                     \* joinable entries of LOBBY_CACHE
   cnt : {0, 2}, host : BOOLEAN,           \* ROOM_CNT, ROOM_HOST
   active : BOOLEAN, dropped : BOOLEAN,    \* NET_ACTIVE, NET_DROPPED
   seat : {0, 1}, names : Seq(Name)]       \* NET_SEAT, NAME_TBL

Off ==
  [screen |-> "off", conn |-> None, list |-> {}, cnt |-> 0, host |-> FALSE,
   active |-> FALSE, dropped |-> FALSE, seat |-> 0, names |-> <<>>]

(* Consoles and server are well formed.                                    *)
TypeOK ==
  /\ con \in [Console -> ConsoleState] /\ ServerOK(mem) /\ pending \subseteq Client
  /\ \A c \in Client : Len(up[c]) \in 0 .. MaxFlight

Init ==
  /\ con = [k \in Console |-> Off] /\ mem = Boot(0)
  /\ up = [c \in Client |-> <<>>] /\ down = up /\ pending = {} /\ resets = 0

-----------------------------------------------------------------------------
Used(c) == \E k \in Console : con[k].conn = c

(* A connection whose console is gone.                                     *)
Gone(c) == c \in mem.live /\ ~Used(c)

(* A connection for a console, by a number nobody has.                     *)
Unused == {c \in Client \ (mem.live \cup pending) : ~Used(c)}

(* NET_WRITE: a console does not notice that its connection is closed.     *)
Write(k, f) ==
  LET c == con[k].conn
  IN  /\ Len(up[c]) + Len(down[c]) < MaxFlight
      /\ up' = IF c \in mem.live \cup pending THEN [up EXCEPT ![c] = Append(@, f)] ELSE up
      /\ UNCHANGED <<con, down, pending, mem, resets>>

(* Power on or reset: connect and say HELLO, in the lobby.                 *)
PowerOn(k) ==
  LET c == CHOOSE x \in Unused : TRUE
  IN  /\ con[k].screen = "off" /\ Unused # {}
      /\ con' = [con EXCEPT ![k] = [Off EXCEPT !.screen = "lobby", !.conn = c]]
      /\ up' = [up EXCEPT ![c] = <<<<"HELLO", Version, NameOf[k]>>>>]
      /\ pending' = pending \cup {c}
      /\ UNCHANGED <<down, mem, resets>>

Reset(k) ==
  /\ con[k].screen # "off" /\ resets < MaxResets /\ resets' = resets + 1
  /\ con' = [con EXCEPT ![k] = Off]
  /\ down' = [down EXCEPT ![con[k].conn] = <<>>]
  /\ UNCHANGED <<up, pending, mem>>

Nothing(k) == up[con[k].conn] = <<>> /\ down[con[k].conn] = <<>>

Browsing(k) == con[k].screen = "lobby" /\ ~con[k].active

(* Once per 256 turns of the lobby loop.                                   *)
AskList(k) == Browsing(k) /\ Nothing(k) /\ Write(k, <<"LIST">>)

(* ENTER on an entry that is not marked unjoinable.                        *)
EnterJoin(k) ==
  /\ Browsing(k) /\ con[k].cnt < 2
  /\ \E n \in con[k].list : Write(k, <<"JOIN", n>>)

(* ENTER in the waiting room: only the host starts.                        *)
EnterGo(k) == Browsing(k) /\ con[k].cnt = 2 /\ con[k].host /\ Write(k, <<"GO">>)

-----------------------------------------------------------------------------
(* SES_ONFRAME.                                                            *)
OnLobby(s, f) ==
  IF s.active THEN s
  ELSE [s EXCEPT !.list = {f[2][i][1] : i \in {j \in DOMAIN f[2] : f[2][j][2] < 128}}]

OnRoomZeroIgnored(s, f, own) ==  \* mutant
  IF s.active \/ f[2] < 2 THEN s
  ELSE [s EXCEPT !.cnt = f[2], !.names = f[3], !.host = f[3][1] = own]

OnRoom(s, f, own) ==
  IF s.active THEN s
  ELSE IF f[2] < 2 THEN [s EXCEPT !.cnt = 0, !.host = FALSE]
  ELSE [s EXCEPT !.cnt = f[2], !.names = f[3], !.host = f[3][1] = own]

OnStart(s, f) == [s EXCEPT !.seat = f[2], !.names = f[5], !.active = TRUE]

OnPeerLeft(s) == [s EXCEPT !.dropped = TRUE]

OnFrame(s, f, own) ==
  CASE f[1] = "LOBBY"     -> OnLobby(s, f)
    [] f[1] = "ROOM"      -> OnRoom(s, f, own)
    [] f[1] = "START"     -> OnStart(s, f)
    [] f[1] = "PEER_LEFT" -> OnPeerLeft(s)
    [] OTHER              -> s

(* A pump, in the lobby loop or in the lockstep pass.                      *)
Receive(k) ==
  LET c == con[k].conn
  IN  /\ con[k].screen \in {"lobby", "match"} /\ down[c] # <<>>
      /\ con' = [con EXCEPT ![k] = OnFrame(@, Head(down[c]), NameOf[k])]
      /\ down' = [down EXCEPT ![c] = Tail(@)]
      /\ UNCHANGED <<up, pending, mem, resets>>

(* What only the screen that is left looks at is forgotten.                *)
Show(k, s) == con' = [con EXCEPT ![k] = s] /\ UNCHANGED <<up, down, pending, mem, resets>>

(* The lobby loop ends: SES_MAIN returns with NET_ACTIVE set.              *)
Begin(k) ==
  /\ con[k].screen = "lobby" /\ con[k].active
  /\ Show(k, [con[k] EXCEPT !.screen = "match", !.list = {}, !.cnt = 0, !.host = FALSE])

(* LS_PASS sends its sample; stops for good if the peer is gone; or waits  *)
(* at the gate for too long.                                               *)
Play(k) ==
  /\ con[k].screen = "match" /\ ~con[k].dropped /\ up[con[k].conn] = <<>>
  /\ \A c \in Client : Len(down[c]) < MaxFlight
  /\ Write(k, <<"INPUT", con[k].seat>>)

Parked(s) ==
  [Off EXCEPT !.screen = "parked", !.conn = s.conn, !.active = s.active, !.dropped = TRUE]
Park(k) == con[k].screen = "match" /\ con[k].dropped /\ Show(k, Parked(con[k]))
GiveUp(k) == con[k].screen = "match" /\ ~con[k].dropped /\ Show(k, Parked(con[k]))

-----------------------------------------------------------------------------
(* The server's turn.  A send to a console that is gone may fail.          *)
Faults == [{c \in mem.live : Gone(c)} -> {-1, 0, 1}]
Armed(broken) ==
  [mem EXCEPT !.fuse = [c \in Client |-> IF c \in DOMAIN broken THEN broken[c] ELSE -1]]

Reads(c) == \E k \in Console : con[k].conn = c /\ con[k].screen # "parked"

(* What the server has sent goes on its way, to nobody's eyes if nobody    *)
(* reads any more; a closed client is forgotten.                           *)
Becomes(m) ==
  /\ mem' = [m EXCEPT !.fuse = Sound, !.log = <<>>, !.sent = [c \in Client |-> <<>>],
                       !.name = [c \in Client |-> IF c \in m.live THEN @[c] ELSE None]]
  /\ down' = [c \in Client |->
       IF Reads(c) THEN down[c] \o Frames(m.sent[c]) ELSE <<>>]
  /\ UNCHANGED <<con, resets>>

OnAccept(c) ==
  /\ c \in pending /\ pending' = pending \ {c}
  /\ Becomes(Accept(mem, c))
  /\ up' = IF c \in mem'.live THEN up ELSE [up EXCEPT ![c] = <<>>]

Still(q) == [c \in Client |-> IF c \in mem'.live \cup pending THEN q[c] ELSE <<>>]

Serve(c) ==
  /\ c \in mem.live /\ up[c] # <<>>
  /\ \E broken \in Faults : Becomes(Handle(Armed(broken), c, Head(up[c])))
  /\ up' = Still([up EXCEPT ![c] = Tail(@)])
  /\ UNCHANGED pending

(* The end of a connection is read, or reported as an error that leaves    *)
(* unread what came before it.                                             *)
Hangup(c) ==
  /\ Gone(c)
  /\ \E broken \in Faults : Becomes(Drop(Armed(broken), c, "closed"))
  /\ up' = Still(up)
  /\ UNCHANGED pending

(* HELLO_TIMEOUT.                                                          *)
Sweeping(c) ==
  /\ c \in mem.live /\ mem.name[c] = None
  /\ Becomes(Sweep(mem, c))
  /\ up' = Still(up)
  /\ UNCHANGED pending

-----------------------------------------------------------------------------
Player(k) == PowerOn(k) \/ Reset(k) \/ EnterJoin(k) \/ EnterGo(k)
Machine(k) == AskList(k) \/ Receive(k) \/ Begin(k) \/ Play(k) \/ Park(k) \/ GiveUp(k)
ServerTurn(c) == OnAccept(c) \/ Serve(c) \/ Hangup(c) \/ Sweeping(c)

Next == (\E k \in Console : Player(k) \/ Machine(k)) \/ \E c \in Client : ServerTurn(c)

Spec == Init /\ [][Next]_vars

-----------------------------------------------------------------------------
(* Properties.                                                             *)

Connected(k) == con[k].conn \in mem.live
RoomOf(k) == mem.room[con[k].conn]
UpToDate(k) == Connected(k) /\ down[con[k].conn] = <<>> /\ ~con[k].dropped

(* A console that has read everything shows the room the server has it in: *)
(* lobby or waiting room, with the right pair of names and the right host. *)
ScreenRight ==
  \A k \in Console : con[k].screen \in {"lobby", "match"} /\ UpToDate(k) =>
    IF RoomOf(k) = None THEN con[k].cnt = 0 /\ ~con[k].active
    ELSE /\ con[k].names = Roster(mem, RoomOf(k))
         /\ RoomOf(k) \in mem.started <=> con[k].active
         /\ con[k].active \/ (con[k].cnt = 2 /\ con[k].host = (Seat(mem, con[k].conn) = 0))

(* Two consoles in one match, neither with news of its end to read, have   *)
(* one roster, different seats, and each its own name at its seat.         *)
MatchAgreed ==
  \A j, k \in Console :
    /\ j # k /\ UpToDate(j) /\ UpToDate(k) /\ RoomOf(j) = RoomOf(k)
    /\ con[j].screen = "match" /\ con[k].screen = "match"
    => /\ con[j].names = con[k].names /\ con[j].seat # con[k].seat
       /\ con[k].names[con[k].seat + 1] = NameOf[k]

(* No news of the end of a match, read or on its way.                      *)
Settled(k) ==
  LET q == down[con[k].conn]
  IN  Connected(k) /\ ~con[k].dropped /\ \A i \in DOMAIN q : q[i][1] # "PEER_LEFT"

Mates(j, k) == j # k /\ Settled(j) /\ Settled(k) /\ RoomOf(j) = RoomOf(k) /\ RoomOf(k) # None

(* A match's frames reach nobody else: an INPUT is read after a START, and *)
(* comes from the other seat than the START gave, as long as neither       *)
(* player has news of an end.  One that has may still send the INPUT of    *)
(* the match that is over, into the next one.                              *)
NoStrayInput ==
  \A k \in Console : con[k].screen \in {"lobby", "match"} =>
    LET q == down[con[k].conn]
    IN  \A i \in DOMAIN q : q[i][1] = "INPUT" =>
          /\ con[k].active \/ \E j \in 1 .. i - 1 : q[j][1] = "START"
          /\ (\E j \in Console : Mates(j, k)) =>
               /\ con[k].active => con[k].seat # q[i][2]
               /\ \A j \in DOMAIN q : q[j][1] = "START" => q[j][2] # q[i][2]

(* session.asm: PEER_LEFT says "who left; the match is over for all".  The *)
(* goodbye of a match reaches only consoles that have begun it.            *)
GoodbyeInMatch == \A k \in Console : con[k].dropped => con[k].active

(* Python: "all survivors back to the lobby".  Whoever the lobby offers to *)
(* a player can answer.                                                    *)
ListedAnswers ==
  \A i \in DOMAIN mem.byName, k \in Console :
    con[k].conn = mem.byName[i].client /\ Status(mem, con[k].conn) < 128
      => con[k].screen # "parked"
=============================================================================
