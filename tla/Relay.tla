-------------------------------- MODULE Relay --------------------------------
(***************************************************************************)
(* The relay and matchmaker of src/server: its names, its rooms of two,    *)
(* and what it tells each console.  The program exists twice, in Python    *)
(* (intv_relay_server.py) and in C (c/src/intv-relay.c); Impl says which   *)
(* one is meant where they differ.                                         *)
(*                                                                         *)
(* Rooms hold two (MAX_SEATS; the C program's --max-seats 2).              *)
(*                                                                         *)
(* A server's memory is one record.  A send may fail, and a failed send    *)
(* drops its client inside the handler that sent, which sends more: Send   *)
(* and Drop are operators from memory to memory, and an action is the      *)
(* handler of one frame or one connection event with everything it calls.  *)
(* A client may send any frame at any time.                                *)
(***************************************************************************)
EXTENDS Integers, Sequences, FiniteSets

CONSTANTS
  Client,     \* connections (client slots in C)
  Name,       \* player names
  RoomId,     \* rooms (room slots in C)
  None,       \* no client, no name, no room
  Impl,       \* "c" or "py"
  AutoGo,     \* does the server start a full room by itself (--auto-go)?
  Fuse        \* bound: sends a client may still take before one fails

ASSUME RelayAssumption ==
  /\ Impl \in {"c", "py"} /\ AutoGo \in BOOLEAN
  /\ None \notin Client \cup Name \cup RoomId
  /\ Fuse \subseteq Nat
  /\ IsFiniteSet(Name)

VARIABLE srv

(* What a console has been told once it has read everything sent to it:    *)
(* ROOM_CNT, NET_ACTIVE and NET_DROPPED after SES_ONFRAME.                 *)
View == [cnt : {0, 2}, active : BOOLEAN, dropped : BOOLEAN]

Server ==
  [live    : SUBSET Client,
   name    : [Client -> Name \cup {None}],
   entry   : [Name -> Client \cup {None}],      \* by_name
   room    : [Client -> RoomId \cup {None}],
   members : [RoomId -> Seq(Client)],           \* in seat order, host first
   started : SUBSET RoomId,
   count   : Nat,                               \* last lobby_update
   told    : [Client -> View],
   fuse    : [Client -> Int]]                  \* -1: no send fails

NewView == [cnt |-> 0, active |-> FALSE, dropped |-> FALSE]
Sound == [c \in Client |-> -1]

(* The server's memory is well formed.                                     *)
TypeOK == srv \in Server

Empty ==
  [live |-> {}, name |-> [c \in Client |-> None],
   entry |-> [n \in Name |-> None], room |-> [c \in Client |-> None],
   members |-> [r \in RoomId |-> <<>>], started |-> {}, count |-> 0,
   told |-> [c \in Client |-> NewView], fuse |-> Sound]

Init == srv = Empty

-----------------------------------------------------------------------------
(* The console's reading of a frame.                                       *)
Read(v, f) ==
  CASE f = "ROOM2" /\ ~v.active -> [v EXCEPT !.cnt = 2]
    [] f = "ROOM0" /\ ~v.active -> [v EXCEPT !.cnt = 0]
    [] f = "START"              -> [v EXCEPT !.active = TRUE]
    [] f = "LEFT"               -> [v EXCEPT !.dropped = TRUE]
    [] OTHER                    -> v

Listed(s) == {n \in Name : s.entry[n] # None}

PublishOthers(s) == [s EXCEPT !.count = Cardinality(Listed(s)) - 1]  \* mutant

(* lobby_update                                                            *)
Publish(s) == [s EXCEPT !.count = Cardinality(Listed(s))]

UnlistQuiet(s, c) ==  \* mutant
  [s EXCEPT !.live = @ \ {c},
            !.entry = [n \in Name |-> IF @[n] = c THEN None ELSE @[n]]]

(* The first half of a drop: dead, closed, every alias removed.            *)
Unlist(s, c) ==
  LET t == [s EXCEPT !.live = @ \ {c},
                     !.entry = [n \in Name |-> IF @[n] = c THEN None ELSE @[n]]]
  IN  IF t.entry = s.entry THEN t ELSE Publish(t)

(* A frame for c goes out, or its connection turns out to be broken and    *)
(* the server goes on with the memory broken.                              *)
Push(s, c, f, broken) ==
  IF c \notin s.live THEN s
  ELSE IF s.fuse[c] = 0 THEN broken
  ELSE [s EXCEPT !.told[c] = Read(@, f), !.fuse[c] = IF @ > 0 THEN @ - 1 ELSE @]

(* To a client that is in no room: its drop sends nothing.                 *)
SendSolo(s, c, f) == Push(s, c, f, Unlist(s, c))

(* The other member of c's room: a room in use has two.                    *)
Partner(s, c) ==
  LET m == s.members[s.room[c]] IN IF m[1] = c THEN m[2] ELSE m[1]

VacateLeak(s, r) ==  \* mutant
  [s EXCEPT !.room = [c \in Client |-> IF @[c] = r THEN None ELSE @[c]],
            !.started = @ \ {r}]

Vacate(s, r) ==
  [s EXCEPT !.room = [c \in Client |-> IF @[c] = r THEN None ELSE @[c]],
            !.members[r] = <<>>, !.started = @ \ {r}]

DropNoGoodbye(s, c) ==  \* mutant
  LET r == s.room[c]
      vacated == Vacate(Unlist(s, c), r)
  IN  IF c \notin s.live THEN s
      ELSE IF r = None THEN Unlist(s, c)
      ELSE Publish(SendSolo(vacated, Partner(s, c),
                            IF r \in vacated.started THEN "LEFT" ELSE "ROOM0"))

(* drop: a room of two is dissolved by it in every case, and the one who   *)
(* is left hears PEER_LEFT or ROOM 0.                                      *)
Drop(s, c) ==
  LET r == s.room[c]
      vacated == Vacate(Unlist(s, c), r)
      news == IF r \in s.started THEN "LEFT" ELSE "ROOM0"
  IN  IF c \notin s.live THEN s
      ELSE IF r = None THEN Unlist(s, c)
      ELSE Publish(SendSolo(vacated, Partner(s, c), news))

Send(s, c, f) == Push(s, c, f, Drop(s, c))

BroadcastSnapshot(s, r, f) ==  \* mutant
  Send(Send(s, s.members[r][1], f), s.members[r][2], f)

(* One frame to each member.  C sends to the members as they were, Python  *)
(* walks the list a failed send has emptied.                               *)
Broadcast(s, r, f) ==
  LET first == Send(s, s.members[r][1], f)
  IN  IF Impl = "py" /\ first.members[r] = <<>> THEN first
      ELSE Send(first, s.members[r][2], f)

StartRoom(s, r) ==
  Publish(Broadcast([s EXCEPT !.started = @ \cup {r}], r, "START"))

-----------------------------------------------------------------------------
(* The frame handlers.                                                     *)

List(s, c) == Send(s, c, "LOBBY")

NameAs(s, c, n) == [s EXCEPT !.name[c] = n, !.entry[n] = c]  \* mutant

(* The new name replaces the old one.                                      *)
Rename(s, c, n) ==
  LET old == s.name[c]
      cleared == IF old \notin {None, n} /\ s.entry[old] = c
                 THEN [s EXCEPT !.entry[old] = None] ELSE s
  IN  [cleared EXCEPT !.name[c] = n, !.entry[n] = c]

Hello(s, c, n) ==
  LET freed == IF s.entry[n] \in {None, c} THEN s ELSE Drop(s, s.entry[n])
  IN  IF Impl = "c" /\ c \notin freed.live THEN freed
      ELSE List(Publish(Rename(freed, c, n)), c)

UnjoinableStarted(s, r) == r \in s.started  \* mutant

(* Has a room started, or is it full?                                      *)
Unjoinable(s, r) == r \in s.started \/ Len(s.members[r]) >= 2

FreeRooms(s) == {r \in RoomId : s.members[r] = <<>>}

Join(s, c, n) ==
  LET host == s.entry[n]
      solo == s.room[host] = None
      r == IF solo THEN CHOOSE x \in FreeRooms(s) : TRUE ELSE s.room[host]
      joined == [s EXCEPT !.room[host] = r, !.room[c] = r,
                          !.members[r] = IF solo THEN <<host, c>> ELSE Append(@, c)]
      announced == Publish(Broadcast(joined, r, "ROOM2"))
  IN  IF s.name[c] = None THEN Drop(s, c)
      ELSE IF s.room[c] # None THEN s
      ELSE IF host \in {None, c} THEN List(s, c)
      ELSE IF ~solo /\ Unjoinable(s, s.room[host]) THEN List(s, c)
      ELSE IF solo /\ FreeRooms(s) = {} THEN List(s, c)
      ELSE IF AutoGo /\ announced.members[r] # <<>> THEN StartRoom(announced, r)
      ELSE announced

Go(s, c) ==
  LET r == s.room[c]
  IN  IF r = None \/ r \in s.started THEN s
      ELSE IF s.members[r][1] = c /\ Len(s.members[r]) = 2 THEN StartRoom(s, r)
      ELSE s

(* INPUT, CRC, STATE, RESYNC_REQ: to the other member of a running match.  *)
Relayed(s, c) ==
  LET r == s.room[c]
  IN  IF r = None \/ r \notin s.started THEN s ELSE Send(s, Partner(s, c), "DATA")

(* A new connection, in a slot nothing refers to any more.                 *)
Free(s, c) == c \notin s.live /\ s.room[c] = None /\ \A n \in Name : s.entry[n] # c

Accept(s, c) ==
  [s EXCEPT !.live = @ \cup {c}, !.name[c] = None, !.told[c] = NewView]

-----------------------------------------------------------------------------
(* A step handles one frame or event; the sends of some clients fail in    *)
(* it, each from its fuse on.                                              *)
Fuses(s) == [s.live -> Fuse \cup {-1}]
Armed(s, k) == [s EXCEPT !.fuse = [c \in Client |-> IF c \in s.live THEN k[c] ELSE -1]]
Rest(s) == [s EXCEPT !.fuse = Sound]

Connect == \E c \in Client : Free(srv, c) /\ srv' = Accept(srv, c)
OnHello == \E c \in srv.live, n \in Name, k \in Fuses(srv) :
             srv' = Rest(Hello(Armed(srv, k), c, n))
OnList == \E c \in srv.live, k \in Fuses(srv) : srv' = Rest(List(Armed(srv, k), c))
OnJoin == \E c \in srv.live, n \in Name, k \in Fuses(srv) :
            srv' = Rest(Join(Armed(srv, k), c, n))
OnGo == \E c \in srv.live, k \in Fuses(srv) : srv' = Rest(Go(Armed(srv, k), c))
OnRelay == \E c \in srv.live, k \in Fuses(srv) : srv' = Rest(Relayed(Armed(srv, k), c))
(* Closed, timed out, a bad frame, BYE.                                    *)
Leave == \E c \in srv.live, k \in Fuses(srv) : srv' = Rest(Drop(Armed(srv, k), c))

Next == Connect \/ OnHello \/ OnList \/ OnJoin \/ OnGo \/ OnRelay \/ Leave

Spec == Init /\ [][Next]_srv

-----------------------------------------------------------------------------
(* Properties.                                                             *)

InRoom(s, r) == {c \in Client : s.room[c] = r}

RoomsOf(s) ==
  \A r \in RoomId :
    LET m == s.members[r]
    IN  \/ m = <<>> /\ r \notin s.started /\ InRoom(s, r) = {}
        \/ /\ Len(m) = 2
           /\ m[1] # m[2]
           /\ InRoom(s, r) = {m[1], m[2]}
           /\ InRoom(s, r) \subseteq s.live

(* Rooms and clients agree on who is where: a room in use has exactly two  *)
(* members, both connected, and whoever has a room is a member of it.      *)
RoomsConsistent == RoomsOf(srv)

NamesOf(s) ==
  /\ \A n \in Listed(s) : s.entry[n] \in s.live /\ s.name[s.entry[n]] = n
  /\ \A c \in s.live : s.name[c] # None => s.entry[s.name[c]] = c

(* The names in the lobby list are those of the connected consoles that    *)
(* said HELLO, each under its own name: no entry outlives its connection.  *)
NamesConsistent == NamesOf(srv)

(* The player count published to the FujiNet lobby is the current one once *)
(* a handler is through, on every path through it.                         *)
CountCurrent == srv.count = Cardinality(Listed(srv))

(* A member's room never runs dry: a full lobby can always be paired off.  *)
RoomForTwo ==
  \A c, d \in srv.live : c # d /\ srv.room[c] = None /\ srv.room[d] = None
    => FreeRooms(srv) # {}

(* A match ends only when a member of it is gone, a survivor is told, and  *)
(* nobody changes seats while it runs.                                     *)
MatchEnds ==
  [][\A r \in srv.started :
       \/ r \in srv'.started /\ srv'.members[r] = srv.members[r]
       \/ /\ r \notin srv'.started
          /\ ~(InRoom(srv, r) \subseteq srv'.live)
          /\ \A c \in InRoom(srv, r) \cap srv'.live : srv'.told[c].dropped]_srv

(* What a console has been told is where it is.                            *)
ToldRight ==
  \A c \in srv.live : ~srv.told[c].dropped =>
    /\ srv.room[c] = None => srv.told[c].cnt = 0 /\ ~srv.told[c].active
    /\ srv.room[c] # None => srv.told[c].cnt = 2
    /\ srv.room[c] \in srv.started <=> srv.told[c].active
=============================================================================
