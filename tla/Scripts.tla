------------------------------ MODULE Scripts ------------------------------
(***************************************************************************)
(* What the test rig does to the server: the scenarios of                  *)
(* tools/server_diff.py (protocol 2, two seats), the protocol gate of      *)
(* tools/bbnet_client_sim.py (SEATS=2) and the match of tools/soak.py.     *)
(*                                                                         *)
(* A script is a sequence of operations on connections, which are named    *)
(* after their players.  An operation is <<kind, ...>>:                    *)
(*   connect c, close c, send c bytes                                      *)
(*   sync tag               wait for silence, record what arrived          *)
(*   sleep                  a pause long enough for the server to catch up *)
(*   expect c pattern       read one frame, which must match               *)
(*   until c pattern        read frames up to one of the pattern's type    *)
(*   silent c, refused c    nothing arrives; no frame arrives              *)
(*   log lines              the server's log has each of them              *)
(***************************************************************************)
EXTENDS Integers, Sequences, SequencesExt

CONSTANTS
  Seats,     \* SEATS, --seats: 2
  Cap,       \* MAX_CONNECTIONS_PER_IP, which the limits scenario exceeds
  Slots,     \* ticks of the CRC log, which the relay scenario overflows
  Idlers,    \* --idle of the soak
  SoakTicks  \* ticks of the soak

ASSUME ScriptAssumption == Seats = 2 /\ {Cap, Slots, Idlers, SoakTicks} \subseteq Nat

-----------------------------------------------------------------------------
(* A frame on the wire: a length byte, a type byte, and the payload, which *)
(* counts as one byte more.  Byte i knows what frame it is part of.        *)
Size(f) == IF Len(f) = 1 THEN 2 ELSE 3
Bytes(f) == [i \in 1 .. Size(f) |-> [frame |-> f, at |-> i]]
Junk == <<[frame |-> <<"bad length">>, at |-> 1]>>   \* 0 or more than 200

Connect(c) == <<<<"connect", c>>>>
Close(c) == <<<<"close", c>>>>
Write(c, bytes) == <<<<"send", c, bytes>>>>
Put(c, f) == Write(c, Bytes(f))
Sync(tag) == <<<<"sync", tag>>>>
NoSleep == <<>>  \* mutant
Sleep == <<<<"sleep">>>>

Hi(n) == <<"HELLO", 2, n>>
Lister == <<"LIST">>
Join(n) == <<"JOIN", n>>
Go == <<"GO">>
Ping == <<"PING">>
Input(seat, t) == <<"INPUT", seat, t>>
Crc(seat, t, sum) == <<"CRC", seat, t, sum>>

Each(S(_), seq) == FlattenSeq([i \in DOMAIN seq |-> S(seq[i])])
Upto(n) == [i \in 1 .. n |-> i]

-----------------------------------------------------------------------------
(* tools/server_diff.py.                                                   *)

HelloUnsynced(c) == Connect(c) \o Put(c, Hi(c))  \* mutant

(* Ctx.hello: the sync is not optional.                                    *)
Hello(c) == Connect(c) \o Put(c, Hi(c)) \o Sync("hello")

Ask(c, f, tag) == Put(c, f) \o Sync(tag)
ListFrom(seq, tag) == Each(LAMBDA c : Put(c, Lister), seq) \o Sync(tag)

RosterOrder ==
  Each(Hello, <<"ALICE", "BOB", "CAROL", "DAVE">>)
  \o Connect("OLDGUY") \o Ask("OLDGUY", <<"HELLO", 1, "OLDGUY">>, "v1 hello refused")
  \o ListFrom(<<"ALICE", "BOB", "CAROL", "DAVE">>, "LIST from each")
  \o Ask("CAROL", Hi("CAROL2"), "CAROL renames")
  \o Hello("EVE") \o Ask("EVE", Hi("BOB"), "EVE steals BOB")
  \o ListFrom(<<"ALICE", "DAVE", "EVE">>, "LIST after the churn")
  \o Close("ALICE") \o Sync("ALICE disconnects")
  \o ListFrom(<<"DAVE", "EVE">>, "LIST after a drop")

Rooms ==
  Each(Hello, <<"ALICE", "BOB", "CAROL">>)
  \o Ask("BOB", Join("ALICE"), "BOB joins ALICE")
  \o Ask("CAROL", Lister, "forming room")
  \o Ask("CAROL", Join("ALICE"), "full room")
  \o Ask("BOB", Join("ALICE"), "in-room JOIN")
  \o Ask("CAROL", Join("NOBODY"), "unknown name")
  \o Ask("ALICE", Join("ALICE"), "self-join in a room")
  \o Hello("DAVE") \o Ask("DAVE", Join("DAVE"), "self-join")
  \o Ask("DAVE", Join("THISNAMEISWAYTOOLONG"), "over-long name")

Pair(host, guest) == Ask(guest, Join(host), "joins")
Start(host) == Ask(host, Go, "host GO")

GoStart ==
  Each(Hello, <<"ALICE", "BOB">>)
  \o Ask("ALICE", Go, "GO with no room") \o Pair("ALICE", "BOB")
  \o Ask("BOB", Go, "guest GO") \o Start("ALICE") \o Ask("ALICE", Go, "second GO")
  \o Hello("CAROL") \o Ask("CAROL", Join("ALICE"), "started room")
  \o Ask("ALICE", Ping, "PING")

Both(t, a, b) == Put("ALICE", Crc(0, t, a)) \o Put("BOB", Crc(1, t, b))
HalfReported == Slots + 2

RelayCrc ==
  Each(Hello, <<"ALICE", "BOB">>)
  \o Ask("ALICE", Input(0, 1), "before a room") \o Pair("ALICE", "BOB")
  \o Ask("ALICE", Input(0, 1), "before start") \o Start("ALICE")
  \o Ask("ALICE", Input(0, 7), "INPUT fanout")
  \o Ask("BOB", <<"STATE", 96>>, "STATE fanout")
  \o Ask("ALICE", <<"RESYNC", 5>>, "RESYNC fanout")
  \o Each(LAMBDA t : Both(t, 1, 1), <<0, 1, 2, 3>>) \o Sync("four agreed rounds")
  \o Both(9, 1, 2) \o Sync("a mismatch")
  \o Each(LAMBDA t : Put("ALICE", Crc(0, 100 + t, 3)), Upto(HalfReported))
  \o Sync("half-reported ticks")
  \o Ask("BOB", Crc(1, 101, 3), "an evicted tick")
  \o Ask("BOB", Crc(1, 100 + HalfReported, 3), "a surviving tick")
  \o Put("ALICE", Crc(3, 200, 1)) \o Ask("BOB", Crc(1, 200, 2), "a lying seat")

DropMatrix ==
  Each(Hello, <<"ALICE", "BOB">>) \o Pair("ALICE", "BOB") \o Start("ALICE")
  \o Close("BOB") \o Sync("guest leaves a match")
  \o Each(Hello, <<"CAROL", "DAVE">>) \o Pair("CAROL", "DAVE")
  \o Close("CAROL") \o Sync("host leaves a forming room")
  \o Each(Hello, <<"EVE", "FRANK">>) \o Pair("EVE", "FRANK")
  \o Close("FRANK") \o Sync("guest leaves a forming room")
  \o Hello("GRACE") \o Ask("GRACE", <<"BYE">>, "BYE")
  \o Hello("HEIDI") \o Ask("HEIDI", Hi("!!"), "bad name")

(* A write cut in pieces, each byte of it in its place.                    *)
Piece(c, bytes, from, to) == Write(c, SubSeq(bytes, from, to)) \o Sleep

Framing ==
  LET lists == Bytes(Lister) \o Bytes(Lister) \o Bytes(Lister)
      join == Bytes(Join("NOBODY"))
  IN  Hello("ALICE")
      \o Piece("ALICE", Bytes(Ping), 1, 1) \o Piece("ALICE", Bytes(Ping), 2, 2)
      \o Sync("dribbled")
      \o Write("ALICE", Bytes(Ping) \o Bytes(Ping)) \o Sync("two in one write")
      \o Piece("ALICE", lists, 1, 2) \o Write("ALICE", SubSeq(lists, 3, 6))
      \o Sync("split mid-frame")
      \o Piece("ALICE", join, 1, 1) \o Piece("ALICE", join, 2, 2)
      \o Write("ALICE", SubSeq(join, 3, 3)) \o Sync("JOIN in fragments")
      \o Connect("BADLEN") \o Write("BADLEN", Junk) \o Sync("length byte 0")
      \o Connect("BADLEN2") \o Write("BADLEN2", Junk) \o Sync("length byte 201")
      \o Hello("DAVE") \o Ask("DAVE", <<"7F">>, "unknown type")

Ip(i) == <<"IP0", "IP1", "IP2", "IP3", "IP4", "IP5", "IP6", "IP7", "IP8">>[i]
Limits == Each(LAMBDA i : Connect(Ip(i)), Upto(Cap + 1)) \o Sync("too many")

(* run: the scenario, a last sync, and finish, which closes what is open.  *)
Opened(script) ==
  LET made == SelectSeq(script, LAMBDA op : op[1] = "connect")
  IN  [i \in DOMAIN made |-> made[i][2]]

Run(script) == script \o Sync("final") \o Each(Close, Opened(script)) \o Sleep

-----------------------------------------------------------------------------
(* tools/bbnet_client_sim.py.  A pattern says what the gate asserts of a   *)
(* frame: its type, all of it, a status in a LOBBY, a seat in a START.     *)
Expect(c, pattern) == <<<<"expect", c, pattern>>>>
OfType(type) == <<"any", type>>
Is(f) == <<"is", f>>
StatusIs(n, s) == <<"status", n, s>>
StartIs(seat, names) == <<"start", seat, names>>

StatusIn(lobby, n) == {lobby[i][2] : i \in {j \in DOMAIN lobby : lobby[j][1] = n}}

Matches(f, p) ==
  CASE p[1] = "any"    -> f[1] = p[2]
    [] p[1] = "is"     -> f = p[2]
    [] p[1] = "status" -> f[1] = "LOBBY" /\ StatusIn(f[2], p[2]) = {p[3]}
    [] p[1] = "start"  -> /\ f[1] = "START" /\ f[2] = p[2] /\ f[3] = Seats
                          /\ f[4] >= 1 /\ f[5] = p[3]

Silent(c) == <<<<"silent", c>>>>
Probe == Connect("probe") \o Close("probe")          \* start_server
Cli(c) == Connect(c) \o Put(c, Hi(c))
Greeted(c) == Cli(c) \o Expect(c, OfType("LOBBY"))
Lobby(c, n, s) == Put(c, Lister) \o Expect(c, StatusIs(n, s))
ExpectAll(seq, p) == Each(LAMBDA c : Expect(c, p), seq)
St(n) == IF n >= Seats THEN n + 128 ELSE n

Pals == <<"ALICE", "BOB">>
RoomOf(names) == Is(<<"ROOM", Len(names), names>>)
NoRoom == Is(<<"ROOM", 0, <<>>>>)

GateHello ==
  Probe \o Cli("ALICE") \o Expect("ALICE", Is(<<"LOBBY", <<>>>>))
  \o Connect("OLDGUY") \o Put("OLDGUY", <<"HELLO", 1, "OLDGUY">>)
  \o <<<<"refused", "OLDGUY">>>> \o Close("OLDGUY")
  \o Greeted("BOB") \o Greeted("EVE")

GateJoin ==
  Lobby("EVE", "ALICE", St(1)) \o Put("BOB", Join("ALICE")) \o ExpectAll(Pals, RoomOf(Pals))
  \o Lobby("EVE", "ALICE", St(2)) \o Lobby("EVE", "BOB", St(2))
  \o Lobby("EVE", "ALICE", 128 + Seats)
  \o Put("EVE", Join("ALICE")) \o Expect("EVE", OfType("LOBBY"))

GateGo ==
  Put("BOB", Go) \o Put("ALICE", Go)
  \o Expect("ALICE", StartIs(0, Pals)) \o Expect("BOB", StartIs(1, Pals))
  \o Lobby("EVE", "ALICE", 128 + Seats)
  \o Put("EVE", Join("ALICE")) \o Expect("EVE", OfType("LOBBY"))

GateFanout ==
  Put("ALICE", Input(0, 5)) \o Expect("BOB", Is(Input(0, 5))) \o Silent("ALICE")
  \o Put("ALICE", <<"STATE", 9>>) \o Expect("BOB", Is(<<"STATE", 9>>))

CrcRound(t, a, b) == Both(t, a, b) \o ExpectAll(Pals, OfType("CRC"))
GateCrc == Each(LAMBDA t : CrcRound(t, 1, 1), <<64, 128, 192, 256>>) \o CrcRound(320, 1, 2)

GateDrop ==
  Close("BOB") \o Expect("ALICE", Is(<<"PEER_LEFT", 1, "BOB">>)) \o Sleep
  \o Lobby("EVE", "ALICE", 1) \o Close("EVE")

GuestOf(host, c) ==
  Greeted(c) \o Put(c, Join(host)) \o Expect(host, OfType("ROOM")) \o Expect(c, OfType("ROOM"))

GateForming ==
  GuestOf("ALICE", "GUESTA") \o Close("GUESTA") \o Expect("ALICE", NoRoom)
  \o GuestOf("ALICE", "GUESTC") \o Close("ALICE") \o Expect("GUESTC", NoRoom)
  \o Close("GUESTC")

GateMain ==
  GateHello \o GateJoin \o GateGo \o GateFanout \o GateCrc \o GateDrop \o GateForming
  \o <<<<"log", {<<"match">>, <<"CRC MISMATCH", 320>>, <<"crc ok", 4>>, <<"back to lobby">>}>>>>

GateAutoGo ==
  Probe \o Greeted("EVE") \o Greeted("FRANK") \o Put("FRANK", Join("EVE"))
  \o Expect("EVE", OfType("ROOM")) \o Expect("FRANK", OfType("ROOM"))
  \o Expect("EVE", StartIs(0, <<"EVE", "FRANK">>))
  \o Expect("FRANK", StartIs(1, <<"EVE", "FRANK">>)) \o Close("EVE") \o Close("FRANK")

Pnames == <<"P1AA", "P2BB">>

GateFull ==
  Probe \o Each(Cli, Pnames) \o ExpectAll(Pnames, OfType("LOBBY")) \o Put(Pnames[2], Join(Pnames[1]))
  \o <<<<"until", Pnames[1], StartIs(0, Pnames)>>, <<"until", Pnames[2], StartIs(1, Pnames)>>>>
  \o Greeted("PZZZ") \o Put("PZZZ", Join(Pnames[1])) \o Expect("PZZZ", OfType("LOBBY"))
  \o Put(Pnames[2], Input(1, 7)) \o Expect(Pnames[1], Is(Input(1, 7))) \o Silent(Pnames[2])
  \o Each(Close, Pnames \o <<"PZZZ">>)

-----------------------------------------------------------------------------
(* tools/soak.py: a match between two clients among idle ones.             *)
Idle(i) == <<"IDLE00", "IDLE01", "IDLE02", "IDLE03", "IDLE04", "IDLE05">>[i]

SoakTick(t) ==
  Put("MATCHA", Input(0, t)) \o Put("MATCHA", Crc(0, t, 1))
  \o Put("MATCHB", Input(1, t)) \o Put("MATCHB", Crc(1, t, 1))

Soak ==
  Probe \o Each(Cli, <<"MATCHA", "MATCHB">>) \o Sleep
  \o Put("MATCHB", Join("MATCHA")) \o Sleep \o Put("MATCHA", Go) \o Sleep
  \o Each(LAMBDA i : Cli(Idle(i)), Upto(Idlers)) \o Sleep
  \o Each(SoakTick, Upto(SoakTicks)) \o Sleep

-----------------------------------------------------------------------------
Differential == {"roster", "rooms", "start", "relay", "drops", "framing", "limits"}
Gate == {"main", "autogo", "full"}
Scenario == Differential \cup Gate \cup {"soak"}

Script ==
     "roster"  :> Run(RosterOrder)
  @@ "rooms"   :> Run(Rooms)
  @@ "start"   :> Run(GoStart)
  @@ "relay"   :> Run(RelayCrc)
  @@ "drops"   :> Run(DropMatrix)
  @@ "framing" :> Run(Framing)
  @@ "limits"  :> Run(Limits)
  @@ "main"    :> GateMain
  @@ "autogo"  :> GateAutoGo
  @@ "full"    :> GateFull
  @@ "soak"    :> Soak

AutoGoOf(s) == IF s \in {"autogo", "full"} THEN 2 ELSE 0

Labels == UNION {ToSet(Opened(Script[s])) : s \in Scenario}
=============================================================================
