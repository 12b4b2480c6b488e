------------------------------- MODULE Server -------------------------------
(***************************************************************************)
(* server/intv_relay_server.py frame by frame: what each handler does to   *)
(* the server's memory, what it sends and what it logs.  The handlers are  *)
(* operators from memory to memory; the modules that run the server bring  *)
(* the connections and say when a handler runs.                            *)
(*                                                                         *)
(* A frame is <<type, payload...>>.  A send to a connection that is broken *)
(* fails and drops its client in the middle of the handler; fuse says how  *)
(* many more sends a client takes.  The seed of a match is left out.       *)
(***************************************************************************)
EXTENDS Integers, Sequences, FiniteSets, SequencesExt

CONSTANTS
  Client,     \* connections
  Name,       \* names that on_hello admits
  RoomId,     \* room objects, enough to seat two by two who may be connected
  None,       \* no client, no name, no room
  MaxClients, \* MAX_CLIENTS (64)
  MaxPerIp,   \* MAX_CONNECTIONS_PER_IP (8); all connections have one address
  ListMax,    \* entries of a LOBBY (8)
  CrcTable,   \* ticks of a room's CRC log (64)
  Delay       \* DEFAULT_DELAY (3)

ASSUME ServerAssumption ==
  /\ {MaxClients, MaxPerIp, ListMax, CrcTable, Delay} \subseteq Nat \ {0}
  /\ IsFiniteSet(RoomId) /\ MaxPerIp <= 2 * Cardinality(RoomId) + 1
  /\ None \notin Client /\ None \notin Name /\ None \notin RoomId

MaxSeats == 2
Version == 2
Relayed == {"INPUT", "CRC", "STATE", "RESYNC"}   \* RELAY_TYPES

Sound == [c \in Client |-> -1]

(* A server that has just begun to listen; auto is --auto-go.              *)
Boot(auto) ==
  [live    |-> {},                                \* self.clients
   name    |-> [c \in Client |-> None],
   byName  |-> <<>>,                              \* by_name, in dict order
   room    |-> [c \in Client |-> None],
   members |-> [r \in RoomId |-> <<>>],           \* join order = seat order
   started |-> {},
   crc     |-> [r \in RoomId |-> {}],             \* room.crc, as reports
   ok      |-> [r \in RoomId |-> 0],              \* room.crc_ok
   sent    |-> [c \in Client |-> <<>>],           \* history: all frames to c
   log     |-> <<>>,                              \* history: all log lines
   fuse    |-> Sound,                             \* -1: no send fails
   autoGo  |-> auto]

Report == [tick : Nat, seat : Nat, crc : Nat]

(* The server's memory is well formed, and nobody is listed twice.         *)
ServerOK(m) ==
  /\ m.live \subseteq Client /\ m.autoGo \in {0, 2}
  /\ m.name \in [Client -> Name \cup {None}]
  /\ m.room \in [Client -> RoomId \cup {None}]
  /\ m.members \in [RoomId -> Seq(Client)] /\ m.started \subseteq RoomId
  /\ \A r \in RoomId : IsFiniteSet(m.crc[r]) /\ m.crc[r] \subseteq Report
  /\ m.ok \in [RoomId -> Nat]
  /\ \A i, j \in DOMAIN m.byName :
       /\ m.byName[i].client \in m.live /\ m.byName[i].name \in Name
       /\ m.byName[i].client = m.byName[j].client => i = j

-----------------------------------------------------------------------------
Who(m, c) == IF m.name[c] = None THEN "PORT" ELSE m.name[c]   \* %r of a client
Roster(m, r) == [i \in DOMAIN m.members[r] |-> Who(m, m.members[r][i])]
Seat(m, c) == (CHOOSE i \in DOMAIN m.members[m.room[c]] : m.members[m.room[c]][i] = c) - 1

Log(m, line) == [m EXCEPT !.log = Append(@, line)]

(* All that is sent but the end of the connection, after which nothing is. *)
Frames(q) == IF q # <<>> /\ Last(q) = <<"EOF">> THEN Front(q) ELSE q

(* What a dict or a list comprehension keeps: the places K of q, in order. *)
Place(K, i) == CHOOSE k \in K : Cardinality({j \in K : j <= k}) = i
Keep(q, K) == [i \in 1 .. Cardinality(K) |-> q[Place(K, i)]]
Others(m, c) == Keep(m.byName, {i \in DOMAIN m.byName : m.byName[i].client # c})

(* The first half of a drop: dead, closed, every alias removed.            *)
Shut(m, c, why) ==
  [Log(m, <<"drop", Who(m, c), why>>)
     EXCEPT !.live = @ \ {c}, !.sent[c] = Append(@, <<"EOF">>),
            !.byName = Others(m, c)]

(* A frame for c goes out, or its connection turns out to be broken and    *)
(* the server goes on with the memory broken.                              *)
Push(m, c, f, broken) ==
  IF c \notin m.live THEN m
  ELSE IF m.fuse[c] = 0 THEN broken
  ELSE [m EXCEPT !.sent[c] = Append(@, f), !.fuse[c] = IF @ > 0 THEN @ - 1 ELSE @]

(* To a client that is in no room: its drop sends nothing.                 *)
SendSolo(m, c, f) == Push(m, c, f, Shut(m, c, "send error"))

Vacate(m, r) ==
  [m EXCEPT !.room = [c \in Client |-> IF @[c] = r THEN None ELSE @[c]],
            !.members[r] = <<>>, !.started = @ \ {r}]

DissolveSilently(m, r, other) == Vacate(m, r)  \* mutant

(* dissolve: the one to notify is solo again and gets ROOM 0.              *)
Dissolve(m, r, other) == SendSolo(Vacate(m, r), other, <<"ROOM", 0, <<>>>>)

BackToLobby(m, c, farewell) ==
  Log(SendSolo(m, c, farewell), <<"back to lobby", Who(m, c)>>)

(* What a drop does to the room it takes a member from.  A room of two is  *)
(* over when either leaves: there is no smaller one to announce.           *)
Leave(m, c, r, seat) ==
  LET left == [m EXCEPT !.room[c] = None, !.members[r] = RemoveAt(@, seat + 1)]
      other == left.members[r][1]
      ended == Log(left, <<"match ended", m.ok[r], m.name[c], seat>>)
  IN  IF r \in m.started
      THEN BackToLobby(Vacate(ended, r), other, <<"PEER_LEFT", seat, m.name[c]>>)
      ELSE IF seat = 0
      THEN Dissolve(Log(left, <<"dissolved", Roster(left, r)>>), r, other)
      ELSE Dissolve(left, r, other)

DropListed(m, c, why) ==  \* mutant
  LET shut == [Shut(m, c, why) EXCEPT !.byName = m.byName]
  IN  IF c \notin m.live THEN m
      ELSE IF m.room[c] = None THEN shut
      ELSE Leave(shut, c, m.room[c], Seat(m, c))

Drop(m, c, why) ==
  IF c \notin m.live THEN m
  ELSE IF m.room[c] = None THEN Shut(m, c, why)
  ELSE Leave(Shut(m, c, why), c, m.room[c], Seat(m, c))

Send(m, c, f) == Push(m, c, f, Drop(m, c, "send error"))

(* To[i] to the i-th member of a room of two: the loop walks the live      *)
(* list, which the drop of a member empties.                               *)
SendEach(m, r, To) ==
  LET pair == m.members[r]
      first == Send(m, pair[1], To[1])
  IN  IF first.members[r] = <<>> THEN first ELSE Send(first, pair[2], To[2])

RoomBroadcast(m, r) ==
  LET f == <<"ROOM", Len(m.members[r]), Roster(m, r)>> IN SendEach(m, r, <<f, f>>)

Refuse(m, c, why) == Log([m EXCEPT !.sent[c] = Append(@, <<"EOF">>)], <<"reject", why>>)

Accept(m, c) ==
  IF Cardinality(m.live) >= MaxClients THEN Refuse(m, c, "server full")
  ELSE IF Cardinality(m.live) >= MaxPerIp THEN Refuse(m, c, "per-IP limit")
  ELSE Log([m EXCEPT !.live = @ \cup {c}, !.name[c] = None], <<"connect">>)

-----------------------------------------------------------------------------
(* LOBBY status: the member count, 128 more if the room cannot be joined.  *)
Full(m, r) == r \in m.started \/ Len(m.members[r]) >= MaxSeats

Status(m, c) ==
  LET r == m.room[c]
  IN  IF r = None THEN 1
      ELSE Len(m.members[r]) + (IF Full(m, r) THEN 128 ELSE 0)

OnList(m, c) ==
  LET others == Others(m, c)
      shown == SubSeq(others, 1, IF Len(others) < ListMax THEN Len(others) ELSE ListMax)
  IN  Send(m, c, <<"LOBBY", [i \in DOMAIN shown |->
                              <<m.name[shown[i].client], Status(m, shown[i].client)>>]>>)

(* by_name.get and by_name[name] = client: a known name keeps its place.   *)
Named(m, n) ==
  {m.byName[i].client : i \in {j \in DOMAIN m.byName : m.byName[j].name = n}}

Enter(m, c, n) ==
  LET entry == [name |-> n, client |-> c]
  IN  IF Named(m, n) = {} THEN [m EXCEPT !.byName = Append(@, entry)]
      ELSE [m EXCEPT !.byName = [i \in DOMAIN @ |-> IF @[i].name = n THEN entry ELSE @[i]]]

(* The old alias goes before the new name is taken.                        *)
Rename(m, c, n) ==
  LET stale == {i \in DOMAIN m.byName : m.byName[i] = [name |-> m.name[c], client |-> c]}
  IN  IF m.name[c] \in {None, n} THEN m
      ELSE Log([m EXCEPT !.byName = Keep(@, DOMAIN @ \ stale)], <<"rename", m.name[c], n>>)

OnHello(m, c, f) ==
  LET n == f[3]
      old == Named(m, n) \ {c}
      freed == IF old = {} THEN m
               ELSE Drop(m, CHOOSE o \in old : TRUE, "replaced by new connection")
      named == [Enter(Rename(freed, c, n), c, n) EXCEPT !.name[c] = n]
  IN  IF Len(f) < 3 THEN Drop(m, c, "short hello")
      ELSE IF f[2] # Version THEN Drop(m, c, "protocol version")
      ELSE IF n \notin Name THEN Drop(m, c, "bad name")
      ELSE OnList(Log(named, <<"hello", n>>), c)

StartRoomAsSeatOne(m, r) ==  \* mutant
  LET begun == [m EXCEPT !.started = @ \cup {r}, !.crc[r] = {}, !.ok[r] = 0]
      f == <<"START", 1, Len(m.members[r]), Delay, Roster(m, r)>>
      told == SendEach(begun, r, <<f, f>>)
  IN  Log(told, <<"match", Roster(told, r)>>)

StartRoom(m, r) ==
  LET begun == [m EXCEPT !.started = @ \cup {r}, !.crc[r] = {}, !.ok[r] = 0]
      n == Len(m.members[r])
      Begin(seat) == <<"START", seat, n, Delay, Roster(m, r)>>
      told == SendEach(begun, r, <<Begin(0), Begin(1)>>)
  IN  Log(told, <<"match", Roster(told, r)>>)

Joinable(m, c, t) ==
  /\ t \notin {None, c}
  /\ m.room[t] # None => ~Full(m, m.room[t])

FreeRooms(m) == {r \in RoomId : m.members[r] = <<>>}

RefreshNever(m, c) == m  \* mutant

(* A JOIN that cannot be is answered with a fresh list.                    *)
Refresh(m, c) == OnList(m, c)

OnJoin(m, c, f) ==
  LET target == IF Len(f) < 2 \/ Named(m, f[2]) = {} THEN None
                ELSE CHOOSE t \in Named(m, f[2]) : TRUE
      new == m.room[target] = None
      r == IF new THEN CHOOSE x \in FreeRooms(m) : TRUE ELSE m.room[target]
      seated == [m EXCEPT !.room[target] = r, !.room[c] = r,
                          !.members[r] = IF new THEN <<target, c>> ELSE Append(@, c)]
      announced == RoomBroadcast(Log(seated, <<"join", Who(m, c), Roster(seated, r)>>), r)
  IN  IF m.name[c] = None THEN Drop(m, c, "join before hello")
      ELSE IF m.room[c] # None THEN m
      ELSE IF ~Joinable(m, c, target) THEN Refresh(m, c)
      ELSE IF m.autoGo > 0 /\ Len(announced.members[r]) >= m.autoGo
      THEN StartRoom(announced, r) ELSE announced

OnGo(m, c) ==
  LET r == m.room[c]
  IN  IF r = None \/ r \in m.started THEN m
      ELSE IF Seat(m, c) # 0 \/ Len(m.members[r]) \notin 2 .. MaxSeats THEN m
      ELSE StartRoom(m, r)

-----------------------------------------------------------------------------
Least(S) == CHOOSE x \in S : \A y \in S : x <= y

(* The CRC log.  A table that has grown too long loses its lowest tick,    *)
(* which may be the one just reported; a tick every seat has reported is   *)
(* compared and done with.                                                 *)
LogCrc(m, c, x) ==
  LET r == m.room[c]
      table == {y \in m.crc[r] : y.tick # x.tick \/ y.seat # x.seat} \cup {x}
      entry == {y \in table : y.tick = x.tick}
      ticks == {y.tick : y \in table}
      lost == IF Cardinality(ticks) > CrcTable THEN {Least(ticks)} ELSE {}
      kept == [m EXCEPT !.crc[r] = {y \in table : y.tick \notin lost}]
      done == [kept EXCEPT !.crc[r] = {y \in @ : y.tick # x.tick}]
      agreed == [done EXCEPT !.ok[r] = @ + 1]
  IN  IF Cardinality(entry) < Len(m.members[r]) THEN kept
      ELSE IF Cardinality({y.crc : y \in entry}) # 1
      THEN Log(done, <<"CRC MISMATCH", x.tick, entry>>)
      ELSE IF agreed.ok[r] % 4 = 0 THEN Log(agreed, <<"crc ok", agreed.ok[r], x.tick>>)
      ELSE agreed

RelayToAll(m, c, f) == SendEach(m, m.room[c], <<f, f>>)  \* mutant

(* Verbatim, to the other member.                                          *)
RelayOn(m, c, f) == Send(m, RemoveAt(m.members[m.room[c]], Seat(m, c) + 1)[1], f)

InRoom(m, c) == m.room[c] # None  \* mutant
InMatch(m, c) == m.room[c] # None /\ m.room[c] \in m.started

Handle(m, c, f) ==
  CASE f[1] \in Relayed ->
         IF ~InMatch(m, c) THEN m
         ELSE IF f[1] = "CRC" /\ Len(f) = 4
         THEN RelayOn(LogCrc(m, c, [seat |-> f[2], tick |-> f[3], crc |-> f[4]]), c, f)
         ELSE RelayOn(m, c, f)
    [] f[1] = "HELLO" -> OnHello(m, c, f)
    [] f[1] = "LIST"  -> OnList(m, c)
    [] f[1] = "JOIN"  -> OnJoin(m, c, f)
    [] f[1] = "GO"    -> OnGo(m, c)
    [] f[1] = "BYE"   -> Drop(m, c, "bye")
    [] f[1] = "PING"  -> Send(m, c, <<"PONG">>)
    [] OTHER          -> Drop(m, c, "unknown type")

(* sweep: a connection that has not said HELLO in time.                    *)
Sweep(m, c) == IF m.name[c] = None THEN Drop(m, c, "no hello") ELSE m
=============================================================================
