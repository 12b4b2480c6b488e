----------------------------- MODULE RelayProofs -----------------------------
(***************************************************************************)
(* What holds of the relays for any number of clients, names and rooms,    *)
(* whichever sends fail: first of the C one; then, from How matches end    *)
(* on, of both.                                                            *)
(*                                                                         *)
(* Well is the inductive invariant: the memory is well formed, rooms and   *)
(* clients agree, names and clients agree.  None of the last two is        *)
(* inductive alone: a JOIN seats the client a name stands for, which has   *)
(* to be connected, and a HELLO drops a client out of its room.  The proof *)
(* follows the calls: Send and Drop first, the handlers after them.        *)
(***************************************************************************)
EXTENDS Relay, TLAPS, FiniteSetTheorems

Well(s) == s \in Server /\ RoomsOf(s) /\ NamesOf(s)

(* t differs from s in what is published, told and about to fail only.     *)
Same(s, t) ==
  /\ t.live = s.live /\ t.name = s.name /\ t.entry = s.entry
  /\ t.room = s.room /\ t.members = s.members /\ t.started = s.started

(* The published count is right.  Drops and sends keep it right; a rename, *)
(* a new room and a start leave that to the lobby_update at their end.     *)
Current(s) == s.count = Cardinality(Listed(s))
Kept(s, t) == Well(t) /\ (Current(s) => Current(t))

-----------------------------------------------------------------------------
(* Operations that move nobody.                                            *)

(* by_name is as small as the set of names.                                *)
LEMMA CountType ==
  ASSUME NEW s
  PROVE  Cardinality(Listed(s)) \in Nat
<1>1. Listed(s) \subseteq Name /\ IsFiniteSet(Name)
  BY RelayAssumption DEF Listed
<1>. QED
  BY <1>1, FS_Subset, FS_CardinalityType

(* The invariant is about who is where only.                               *)
LEMMA SameWell ==
  ASSUME NEW s, Well(s), NEW t \in Server, Same(s, t)
  PROVE  Well(t)
BY DEF Well, Same, RoomsOf, NamesOf, InRoom, Listed

(* lobby_update changes the published count.                               *)
LEMMA PublishSame ==
  ASSUME NEW s \in Server
  PROVE  Publish(s) \in Server /\ Same(s, Publish(s)) /\ Current(Publish(s))
<1>1. Cardinality(Listed(s)) \in Nat
  BY CountType
<1>. QED
  BY <1>1 DEF Publish, Server, Same, Current, Listed

(* So it keeps the invariant.                                              *)
LEMMA PublishWell ==
  ASSUME NEW s, Well(s)
  PROVE  Well(Publish(s)) /\ Same(s, Publish(s)) /\ Current(Publish(s))
BY PublishSame, SameWell DEF Well

(* SES_ONFRAME's cells keep their types.                                   *)
LEMMA ReadType ==
  ASSUME NEW v \in View, NEW f
  PROVE  Read(v, f) \in View
BY DEF Read, View

(* A frame that goes out moves nobody.                                     *)
LEMMA PushSame ==
  ASSUME NEW s \in Server, NEW c \in Client, NEW f, NEW broken,
         Push(s, c, f, broken) # broken
  PROVE  /\ Push(s, c, f, broken) \in Server
         /\ Same(s, Push(s, c, f, broken))
         /\ Push(s, c, f, broken).count = s.count
<1>1. Read(s.told[c], f) \in View
  BY ReadType DEF Server
<1>2. s.fuse[c] \in Int /\ s.fuse[c] - 1 \in Int
  BY DEF Server
<1>. QED
  BY <1>1, <1>2 DEF Push, Server, Same

-----------------------------------------------------------------------------
(* Drops.                                                                  *)

(* What the first half of a drop does: c is dead and has no entry.         *)
LEMMA UnlistDoes ==
  ASSUME NEW s \in Server, NEW c \in Client
  PROVE  LET t == Unlist(s, c)
         IN  /\ t \in Server
             /\ t.live = s.live \ {c}
             /\ t.entry = [n \in Name |-> IF s.entry[n] = c THEN None ELSE s.entry[n]]
             /\ t.name = s.name /\ t.room = s.room
             /\ t.members = s.members /\ t.started = s.started
             /\ \A n \in Name : t.entry[n] \in {None, s.entry[n]}
<1> DEFINE t == [s EXCEPT !.live = @ \ {c},
                   !.entry = [n \in Name |-> IF @[n] = c THEN None ELSE @[n]]]
<1>1. /\ t \in Server
      /\ t.live = s.live \ {c}
      /\ t.entry = [n \in Name |-> IF s.entry[n] = c THEN None ELSE s.entry[n]]
      /\ t.name = s.name /\ t.room = s.room
      /\ t.members = s.members /\ t.started = s.started
  BY DEF Server
<1>2. Unlist(s, c) = t \/ Unlist(s, c) = Publish(t)
  BY DEF Unlist
<1> HIDE DEF t
<1>. QED
  BY <1>1, <1>2, PublishSame DEF Same

(* It publishes the new count if it changes the list.                      *)
LEMMA UnlistCurrent ==
  ASSUME NEW s \in Server, NEW c \in Client, Current(s)
  PROVE  Current(Unlist(s, c))
<1> DEFINE t == [s EXCEPT !.live = @ \ {c},
                   !.entry = [n \in Name |-> IF @[n] = c THEN None ELSE @[n]]]
<1>1. t \in Server /\ t.count = s.count
  BY DEF Server
<1>2. Unlist(s, c) = IF t.entry = s.entry THEN t ELSE Publish(t)
  BY DEF Unlist
<1> HIDE DEF t
<1>3. t.entry = s.entry => Current(t)
  BY <1>1 DEF Current, Listed
<1>. QED
  BY <1>1, <1>2, <1>3, PublishSame

(* The names stay right when c is dropped.                                 *)
LEMMA UnlistNames ==
  ASSUME NEW s \in Server, NamesOf(s), NEW c \in Client
  PROVE  NamesOf(Unlist(s, c))
<1> DEFINE t == Unlist(s, c)
<1>1. /\ t.live = s.live \ {c} /\ t.name = s.name
      /\ t.entry = [n \in Name |-> IF s.entry[n] = c THEN None ELSE s.entry[n]]
  BY UnlistDoes
<1>2. None \notin Client /\ c # None /\ s.name \in [Client -> Name \cup {None}]
        /\ s.live \subseteq Client
  BY RelayAssumption DEF Server
<1> HIDE DEF t
<1>3. NamesOf(t)
  BY <1>1, <1>2 DEF NamesOf, Listed
<1>. QED
  BY <1>3 DEF t

(* A drop of a client in no room.                                          *)
LEMMA UnlistWell ==
  ASSUME NEW s, Well(s), NEW c \in Client, s.room[c] = None
  PROVE  Well(Unlist(s, c))
<1> DEFINE t == Unlist(s, c)
<1>0. s \in Server
  BY DEF Well
<1>1. /\ t \in Server /\ t.live = s.live \ {c}
      /\ t.room = s.room /\ t.members = s.members /\ t.started = s.started
  BY <1>0, UnlistDoes
<1>2. NamesOf(t)
  BY <1>0, UnlistNames DEF Well
<1>3. None \notin RoomId
  BY RelayAssumption
<1> HIDE DEF t
<1>4. RoomsOf(t)
  BY <1>1, <1>3 DEF Well, RoomsOf, InRoom
<1>. QED
  BY <1>1, <1>2, <1>4 DEF Well, t

(* A send to a client in no room: it moves nobody but that client, out.    *)
LEMMA SendSoloWell ==
  ASSUME NEW s, Well(s), NEW c \in Client, s.room[c] = None, NEW f
  PROVE  LET t == SendSolo(s, c, f)
         IN  /\ Well(t)
             /\ t.live \subseteq s.live /\ t.room = s.room /\ t.name = s.name
             /\ \A n \in Name : t.entry[n] \in {None, s.entry[n]}
<1>0. s \in Server
  BY DEF Well
<1>1. CASE SendSolo(s, c, f) = Unlist(s, c)
  <2> DEFINE u == Unlist(s, c)
  <2>1. Well(u)
    BY UnlistWell
  <2>2. /\ u.live = s.live \ {c} /\ u.room = s.room /\ u.name = s.name
        /\ \A n \in Name : u.entry[n] \in {None, s.entry[n]}
    BY <1>0, UnlistDoes
  <2> HIDE DEF u
  <2>. QED
    BY <1>1, <2>1, <2>2 DEF u
<1>2. CASE SendSolo(s, c, f) # Unlist(s, c)
  <2>1. SendSolo(s, c, f) \in Server /\ Same(s, SendSolo(s, c, f))
    BY <1>0, <1>2, PushSame DEF SendSolo
  <2>. QED
    BY <2>1, SameWell DEF Same
<1>. QED
  BY <1>1, <1>2

(* A client in a room has a partner in it.                                 *)
LEMMA PartnerIn ==
  ASSUME NEW s, Well(s), NEW c \in Client, s.room[c] # None
  PROVE  /\ s.room[c] \in RoomId
         /\ Partner(s, c) \in Client /\ Partner(s, c) # c
         /\ s.room[Partner(s, c)] = s.room[c]
         /\ s.members[s.room[c]] # <<>>
<1>1. s.room[c] \in RoomId
  BY DEF Well, Server
<1>2. c \in InRoom(s, s.room[c])
  BY DEF InRoom
<1>3. LET m == s.members[s.room[c]]
      IN  Len(m) = 2 /\ m[1] # m[2] /\ InRoom(s, s.room[c]) = {m[1], m[2]}
  BY <1>1, <1>2 DEF Well, RoomsOf
<1>4. Partner(s, c) \in InRoom(s, s.room[c]) /\ Partner(s, c) # c
  BY <1>2, <1>3 DEF Partner
<1>. QED
  BY <1>1, <1>3, <1>4 DEF InRoom

(* The dissolution of a dropped client's room.                             *)
LEMMA VacateWell ==
  ASSUME NEW s, Well(s), NEW c \in Client, s.room[c] # None
  PROVE  LET t == Vacate(Unlist(s, c), s.room[c])
         IN  /\ Well(t)
             /\ t.room[Partner(s, c)] = None
             /\ t.live = s.live \ {c} /\ t.name = s.name
             /\ \A n \in Name : t.entry[n] \in {None, s.entry[n]}
<1> DEFINE r == s.room[c]
           u == Unlist(s, c)
           t == Vacate(u, r)
<1>0. s \in Server /\ r \in RoomId /\ r # None
  BY PartnerIn DEF Well
<1>1. /\ u \in Server
      /\ u.live = s.live \ {c} /\ u.name = s.name
      /\ u.entry = [n \in Name |-> IF s.entry[n] = c THEN None ELSE s.entry[n]]
      /\ u.room = s.room /\ u.members = s.members /\ u.started = s.started
  BY <1>0, UnlistDoes
<1>2. NamesOf(u)
  BY <1>0, UnlistNames DEF Well
<1>3. None \notin Client \cup Name \cup RoomId
  BY RelayAssumption
<1> HIDE DEF u
<1>4. <<>> \in Seq(Client)
  OBVIOUS
<1>5. t \in Server
  BY <1>0, <1>1, <1>4 DEF Vacate, Server
<1>6. /\ t.room = [d \in Client |-> IF s.room[d] = r THEN None ELSE s.room[d]]
      /\ t.members = [s.members EXCEPT ![r] = <<>>]
      /\ t.started = s.started \ {r}
      /\ t.live = u.live /\ t.entry = u.entry /\ t.name = u.name
  BY <1>0, <1>1 DEF Vacate, Server
<1> HIDE DEF t
<1>7. NamesOf(t)
  BY <1>2, <1>6 DEF NamesOf, Listed
<1>8. RoomsOf(t)
  <2>. SUFFICES ASSUME NEW q \in RoomId
               PROVE LET m == t.members[q]
                     IN  \/ m = <<>> /\ q \notin t.started /\ InRoom(t, q) = {}
                         \/ /\ Len(m) = 2
                            /\ m[1] # m[2]
                            /\ InRoom(t, q) = {m[1], m[2]}
                            /\ InRoom(t, q) \subseteq t.live
    BY DEF RoomsOf
  <2>1. CASE q = r
    BY <1>0, <1>3, <1>6, <2>1 DEF InRoom, Server
  <2>2. CASE q # r
    <3>1. InRoom(t, q) = InRoom(s, q) /\ c \notin InRoom(s, q)
      BY <1>0, <1>3, <1>6, <2>2 DEF InRoom
    <3>2. t.members[q] = s.members[q]
      BY <1>0, <1>6, <2>2 DEF Server
    <3>. QED
      BY <1>1, <1>6, <2>2, <3>1, <3>2 DEF Well, RoomsOf
  <2>. QED
    BY <2>1, <2>2
<1>9. t.room[Partner(s, c)] = None
  BY <1>6, PartnerIn
<1>. QED
  BY <1>1, <1>5, <1>6, <1>7, <1>8, <1>9 DEF Well, t, u

(* drop                                                                    *)
LEMMA DropWell ==
  ASSUME NEW s, Well(s), NEW c \in Client
  PROVE  LET t == Drop(s, c)
         IN  /\ Kept(s, t)
             /\ c \notin t.live /\ t.name = s.name
             /\ \A n \in Name : t.entry[n] \in {None, s.entry[n]}
<1>0. s \in Server
  BY DEF Well
<1>1. CASE c \notin s.live
  BY <1>1 DEF Drop, Kept
<1>2. CASE c \in s.live /\ s.room[c] = None
  <2> DEFINE u == Unlist(s, c)
  <2>1. Drop(s, c) = u
    BY <1>2 DEF Drop
  <2>2. Kept(s, u)
    BY <1>0, <1>2, UnlistWell, UnlistCurrent DEF Kept
  <2>3. /\ u.live = s.live \ {c} /\ u.name = s.name
        /\ \A n \in Name : u.entry[n] \in {None, s.entry[n]}
    BY <1>0, UnlistDoes
  <2> HIDE DEF u
  <2>. QED
    BY <2>1, <2>2, <2>3
<1>3. CASE c \in s.live /\ s.room[c] # None
  <2> DEFINE v == Vacate(Unlist(s, c), s.room[c])
             news == IF s.room[c] \in s.started THEN "LEFT" ELSE "ROOM0"
             w == SendSolo(v, Partner(s, c), news)
  <2>1. Drop(s, c) = Publish(w)
    BY <1>3 DEF Drop
  <2>2. /\ Well(v) /\ v.room[Partner(s, c)] = None
        /\ v.live = s.live \ {c} /\ v.name = s.name
        /\ \A n \in Name : v.entry[n] \in {None, s.entry[n]}
    BY <1>3, VacateWell
  <2>3. Partner(s, c) \in Client
    BY <1>3, PartnerIn
  <2> HIDE DEF v, news
  <2>4. /\ Well(w) /\ w.live \subseteq v.live /\ w.name = v.name
        /\ \A n \in Name : w.entry[n] \in {None, v.entry[n]}
    BY <2>2, <2>3, SendSoloWell
  <2> HIDE DEF w
  <2>5. Well(Publish(w)) /\ Same(w, Publish(w)) /\ Current(Publish(w))
    BY <2>4, PublishWell
  <2>. QED
    BY <2>1, <2>2, <2>4, <2>5 DEF Same, Kept
<1>. QED
  BY <1>1, <1>2, <1>3

(* send_raw: the frame goes out and nothing moves, or the client drops.    *)
LEMMA SendWell ==
  ASSUME NEW s, Well(s), NEW c \in Client, NEW f
  PROVE  Kept(s, Send(s, c, f))
<1>1. CASE Send(s, c, f) = Drop(s, c)
  BY <1>1, DropWell
<1>2. CASE Send(s, c, f) # Drop(s, c)
  <2> DEFINE t == Send(s, c, f)
  <2>1. t \in Server /\ Same(s, t) /\ t.count = s.count
    BY <1>2, PushSame DEF Send, Well
  <2> HIDE DEF t
  <2>2. Well(t)
    BY <2>1, SameWell
  <2>3. Current(s) => Current(t)
    BY <2>1 DEF Current, Listed, Same
  <2>. QED
    BY <2>2, <2>3 DEF Kept, t
<1>. QED
  BY <1>1, <1>2

-----------------------------------------------------------------------------
(* Broadcasts.                                                             *)

(* A room in use has members that are clients.                             *)
LEMMA MembersType ==
  ASSUME NEW s, Well(s), NEW r \in RoomId, s.members[r] # <<>>
  PROVE  s.members[r][1] \in Client /\ s.members[r][2] \in Client
<1>1. s.members[r] \in Seq(Client)
  BY DEF Well, Server
<1>2. Len(s.members[r]) = 2
  BY DEF Well, RoomsOf
<1>. QED
  BY <1>1, <1>2

(* room_broadcast and the loop of start_room: one send after the other, to *)
(* the members as they were.                                               *)
LEMMA BroadcastWell ==
  ASSUME Impl = "c",
         NEW s, Well(s), NEW r \in RoomId, s.members[r] # <<>>, NEW f
  PROVE  Kept(s, Broadcast(s, r, f))
<1> DEFINE t == Send(s, s.members[r][1], f)
<1>1. s.members[r][1] \in Client /\ s.members[r][2] \in Client
  BY MembersType
<1>2. Kept(s, t)
  BY <1>1, SendWell
<1>3. Broadcast(s, r, f) = Send(t, s.members[r][2], f)
  BY DEF Broadcast
<1> HIDE DEF t
<1>. QED
  BY <1>1, <1>2, <1>3, SendWell DEF Kept

(* start_room, of a room that is still there.                              *)
LEMMA StartRoomWell ==
  ASSUME Impl = "c",
         NEW s, Well(s), NEW r \in RoomId, s.members[r] # <<>>
  PROVE  Kept(s, StartRoom(s, r))
<1> DEFINE t == [s EXCEPT !.started = @ \cup {r}]
<1>1. /\ t \in Server /\ t.started = s.started \cup {r}
      /\ t.live = s.live /\ t.name = s.name /\ t.entry = s.entry
      /\ t.room = s.room /\ t.members = s.members
  BY DEF Well, Server
<1>2. StartRoom(s, r) = Publish(Broadcast(t, r, "START"))
  BY DEF StartRoom
<1> HIDE DEF t
<1>3. Well(t)
  BY <1>1 DEF Well, RoomsOf, NamesOf, InRoom, Listed
<1>4. Well(Broadcast(t, r, "START"))
  BY <1>1, <1>3, BroadcastWell DEF Kept
<1>. QED
  BY <1>2, <1>4, PublishWell DEF Kept

-----------------------------------------------------------------------------
(* The frame handlers.                                                     *)

(* HELLO's new name replaces the old one, once nobody else has it.         *)
LEMMA RenameWell ==
  ASSUME NEW s, Well(s), NEW c \in s.live, NEW n \in Name,
         s.entry[n] \in {None, c}
  PROVE  Well(Rename(s, c, n))
<1> DEFINE old == s.name[c]
           mid == IF old \notin {None, n} /\ s.entry[old] = c
                  THEN [s EXCEPT !.entry[old] = None] ELSE s
           t == [mid EXCEPT !.name[c] = n, !.entry[n] = c]
<1>0. s \in Server /\ c \in Client /\ old \in Name \cup {None}
  BY DEF Well, Server
<1>1. None \notin Client \cup Name \cup RoomId
  BY RelayAssumption
<1>2. /\ mid \in Server
      /\ mid.live = s.live /\ mid.name = s.name /\ mid.room = s.room
      /\ mid.members = s.members /\ mid.started = s.started
      /\ \A m \in Name :
           mid.entry[m] = IF m = old /\ m # n THEN None ELSE s.entry[m]
  <2>1. old \in Name => s.entry[old] = c
    BY <1>1 DEF Well, NamesOf
  <2>2. CASE old \in {None, n}
    <3>1. mid = s
      BY <2>2
    <3>. QED
      BY <1>0, <1>1, <2>2, <3>1
  <2>3. CASE old \notin {None, n}
    <3>1. mid = [s EXCEPT !.entry[old] = None]
      BY <1>0, <2>1, <2>3
    <3>. QED
      BY <1>0, <2>3, <3>1 DEF Server
  <2>. QED
    BY <2>2, <2>3
<1>3. Rename(s, c, n) = t
  BY DEF Rename
<1> HIDE DEF mid
<1>4. /\ t \in Server
      /\ t.live = s.live /\ t.room = s.room
      /\ t.members = s.members /\ t.started = s.started
      /\ \A d \in Client : t.name[d] = IF d = c THEN n ELSE s.name[d]
      /\ \A m \in Name :
           t.entry[m] = IF m = n THEN c
                        ELSE IF m = old THEN None ELSE s.entry[m]
  BY <1>0, <1>2 DEF Server
<1> HIDE DEF t
<1>5. RoomsOf(t)
  BY <1>4 DEF Well, RoomsOf, InRoom
<1>6. ASSUME NEW m \in Listed(t)
      PROVE  t.entry[m] \in t.live /\ t.name[t.entry[m]] = m
  <2>1. m \in Name
    BY DEF Listed
  <2>2. CASE m = n
    BY <1>0, <1>4, <2>2
  <2>3. CASE m # n
    <3>1. m # old /\ t.entry[m] = s.entry[m] /\ m \in Listed(s)
      BY <1>4, <2>1, <2>3 DEF Listed
    <3>2. s.entry[m] \in s.live /\ s.name[s.entry[m]] = m
      BY <3>1 DEF Well, NamesOf
    <3>3. s.entry[m] \in Client /\ s.entry[m] # c
      BY <1>0, <3>1, <3>2 DEF Server
    <3>. QED
      BY <1>4, <3>1, <3>2, <3>3
  <2>. QED
    BY <2>2, <2>3
<1>7. ASSUME NEW d \in t.live, t.name[d] # None
      PROVE  t.entry[t.name[d]] = d
  <2>1. d \in s.live /\ d \in Client
    BY <1>0, <1>4 DEF Server
  <2>2. CASE d = c
    BY <1>4, <2>1, <2>2
  <2>3. CASE d # c
    <3>1. t.name[d] = s.name[d] /\ s.entry[s.name[d]] = d /\ s.name[d] \in Name
      BY <1>0, <1>4, <1>7, <2>1, <2>3 DEF Well, NamesOf, Server
    <3>2. s.name[d] # n
      BY <1>1, <2>1, <2>3, <3>1
    <3>3. s.name[d] # old
      BY <1>0, <1>1, <2>3, <3>1 DEF Well, NamesOf
    <3>. QED
      BY <1>4, <3>1, <3>2, <3>3
  <2>. QED
    BY <2>2, <2>3
<1>8. NamesOf(t)
  BY <1>6, <1>7 DEF NamesOf
<1>. QED
  BY <1>3, <1>4, <1>5, <1>8 DEF Well

(* on_hello, with the C program's look at the caller after the drop.       *)
LEMMA HelloWell ==
  ASSUME Impl = "c", NEW s, Well(s), NEW c \in s.live, NEW n \in Name
  PROVE  Kept(s, Hello(s, c, n))
<1> DEFINE freed == IF s.entry[n] \in {None, c} THEN s ELSE Drop(s, s.entry[n])
<1>0. c \in Client /\ s.entry[n] \in Client \cup {None}
  BY DEF Well, Server
<1>1. Kept(s, freed) /\ freed.entry[n] \in {None, c}
  <2>1. CASE s.entry[n] \in {None, c}
    BY <2>1 DEF Kept
  <2>2. CASE s.entry[n] \notin {None, c}
    <3> DEFINE d == s.entry[n]
               t == Drop(s, d)
    <3>1. /\ Kept(s, t) /\ d \notin t.live
          /\ t.entry[n] \in {None, d}
      BY <1>0, <2>2, DropWell
    <3>2. t.entry[n] # None => t.entry[n] \in t.live
      BY <3>1 DEF Kept, Well, NamesOf, Listed
    <3>3. freed = t
      BY <2>2
    <3>. QED
      BY <3>1, <3>2, <3>3
  <2>. QED
    BY <2>1, <2>2
<1>2. Hello(s, c, n) = IF c \notin freed.live THEN freed
                       ELSE Send(Publish(Rename(freed, c, n)), c, "LOBBY")
  BY DEF Hello, List
<1> HIDE DEF freed
<1>3. ASSUME c \in freed.live
      PROVE  Kept(s, Publish(Rename(freed, c, n)))
  BY <1>1, <1>3, RenameWell, PublishWell DEF Kept
<1>. QED
  BY <1>0, <1>1, <1>2, <1>3, SendWell DEF Kept

(* The seats of a new room, given to its host and to the one who joins.    *)
LEMMA SeatsWell ==
  ASSUME NEW s, Well(s), NEW c \in s.live, NEW h \in s.live, h # c,
         s.room[c] = None, s.room[h] = None,
         NEW r \in RoomId, s.members[r] = <<>>
  PROVE  Well([s EXCEPT !.room[h] = r, !.room[c] = r,
                        !.members[r] = <<h, c>>])
<1> DEFINE t == [s EXCEPT !.room[h] = r, !.room[c] = r,
                          !.members[r] = <<h, c>>]
<1>0. s \in Server /\ c \in Client /\ h \in Client
  BY DEF Well, Server
<1>1. <<h, c>> \in Seq(Client)
  BY <1>0
<1>2. None \notin Client \cup Name \cup RoomId
  BY RelayAssumption
<1>3. t \in Server
  BY <1>0, <1>1 DEF Server
<1>4. /\ t.live = s.live /\ t.name = s.name /\ t.entry = s.entry
      /\ t.started = s.started
      /\ t.room = [d \in Client |-> IF d \in {h, c} THEN r ELSE s.room[d]]
      /\ t.members = [q \in RoomId |-> IF q = r THEN <<h, c>> ELSE s.members[q]]
  BY <1>0, <1>1 DEF Server
<1> HIDE DEF t
<1>5. NamesOf(t)
  BY <1>4 DEF Well, NamesOf, Listed
<1>6. RoomsOf(t)
  <2>. SUFFICES ASSUME NEW q \in RoomId
               PROVE LET m == t.members[q]
                     IN  \/ m = <<>> /\ q \notin t.started /\ InRoom(t, q) = {}
                         \/ /\ Len(m) = 2
                            /\ m[1] # m[2]
                            /\ InRoom(t, q) = {m[1], m[2]}
                            /\ InRoom(t, q) \subseteq t.live
    BY DEF RoomsOf
  <2>1. CASE q = r
    <3>1. InRoom(s, r) = {}
      BY DEF Well, RoomsOf
    <3>2. InRoom(t, r) = {h, c}
      BY <1>0, <1>4, <3>1 DEF InRoom
    <3>3. t.members[q] = <<h, c>>
      BY <1>4, <2>1
    <3>. QED
      BY <1>4, <2>1, <3>2, <3>3
  <2>2. CASE q # r
    <3>1. InRoom(t, q) = InRoom(s, q)
      BY <1>2, <1>4, <2>2 DEF InRoom
    <3>2. t.members[q] = s.members[q]
      BY <1>4, <2>2
    <3>. QED
      BY <1>4, <3>1, <3>2 DEF Well, RoomsOf
  <2>. QED
    BY <2>1, <2>2
<1>. QED
  BY <1>3, <1>5, <1>6 DEF Well, t

(* on_join                                                                 *)
LEMMA JoinWell ==
  ASSUME Impl = "c", NEW s, Well(s), NEW c \in s.live, NEW n \in Name
  PROVE  Kept(s, Join(s, c, n))
<1> DEFINE host == s.entry[n]
           solo == s.room[host] = None
           r == IF solo THEN CHOOSE x \in FreeRooms(s) : TRUE ELSE s.room[host]
           joined == [s EXCEPT !.room[host] = r, !.room[c] = r,
                               !.members[r] = IF solo THEN <<host, c>> ELSE Append(@, c)]
           announced == Publish(Broadcast(joined, r, "ROOM2"))
<1>0. s \in Server /\ c \in Client
  BY DEF Well, Server
<1>1. CASE s.name[c] = None
  BY <1>0, <1>1, DropWell DEF Join
<1>2. CASE s.name[c] # None /\ s.room[c] # None
  BY <1>2 DEF Join, Kept
<1>3. ASSUME Join(s, c, n) = List(s, c) PROVE Kept(s, Join(s, c, n))
  BY <1>0, <1>3, SendWell DEF List
<1>4. CASE s.name[c] # None /\ s.room[c] = None /\ host \in {None, c}
  BY <1>3, <1>4 DEF Join
<1>5. CASE s.name[c] # None /\ s.room[c] = None /\ host \notin {None, c}
  <2>1. host \in s.live /\ host \in Client /\ host # c
    BY <1>5, <1>0 DEF Well, NamesOf, Listed, Server
  <2>2. CASE ~solo
    <3>1. s.room[host] \in RoomId /\ s.members[s.room[host]] # <<>>
      BY <2>1, <2>2, PartnerIn
    <3>2. Len(s.members[s.room[host]]) = 2
      BY <3>1 DEF Well, RoomsOf
    <3>3. Unjoinable(s, s.room[host])
      BY <3>2 DEF Unjoinable
    <3>. QED
      BY <1>3, <1>5, <2>2, <3>3 DEF Join
  <2>3. CASE solo /\ FreeRooms(s) = {}
    BY <1>3, <1>5, <2>3 DEF Join
  <2>4. CASE solo /\ FreeRooms(s) # {}
    <3>1. r \in RoomId /\ s.members[r] = <<>>
      BY <2>4 DEF FreeRooms
    <3>2. joined = [s EXCEPT !.room[host] = r, !.room[c] = r,
                             !.members[r] = <<host, c>>]
      BY <2>4
    <3>3. Join(s, c, n) = IF AutoGo /\ announced.members[r] # <<>>
                          THEN StartRoom(announced, r) ELSE announced
      BY <1>5, <2>4 DEF Join
    <3>4. joined.members[r] # <<>>
      <4>1. joined.members = [s.members EXCEPT ![r] = <<host, c>>]
        BY <1>0, <3>2 DEF Server
      <4>. QED
        BY <1>0, <3>1, <4>1 DEF Server
    <3> HIDE DEF r
    <3>5. Well(joined)
      BY <1>5, <2>1, <2>4, <3>1, <3>2, SeatsWell
    <3> HIDE DEF joined
    <3>6. Kept(s, announced) /\ Kept(announced, announced)
      BY <3>1, <3>4, <3>5, BroadcastWell, PublishWell DEF Kept
    <3> HIDE DEF announced
    <3>. QED
      BY <3>1, <3>3, <3>6, StartRoomWell DEF Kept
  <2>. QED
    BY <2>2, <2>3, <2>4
<1>. QED
  BY <1>1, <1>2, <1>4, <1>5

(* on_go                                                                   *)
LEMMA GoWell ==
  ASSUME Impl = "c", NEW s, Well(s), NEW c \in Client
  PROVE  Kept(s, Go(s, c))
<1>1. CASE s.room[c] = None
  BY <1>1 DEF Go, Kept
<1>2. CASE s.room[c] # None
  <2>1. s.room[c] \in RoomId /\ s.members[s.room[c]] # <<>>
    BY <1>2, PartnerIn
  <2>2. Kept(s, StartRoom(s, s.room[c]))
    BY <2>1, StartRoomWell
  <2>. QED
    BY <2>2 DEF Go, Kept
<1>. QED
  BY <1>1, <1>2

(* The relayed frame types of handle.                                      *)
LEMMA RelayedWell ==
  ASSUME NEW s, Well(s), NEW c \in Client
  PROVE  Kept(s, Relayed(s, c))
<1>1. CASE s.room[c] = None
  BY <1>1 DEF Relayed, Kept
<1>2. CASE s.room[c] # None
  <2>1. Partner(s, c) \in Client
    BY <1>2, PartnerIn
  <2>2. Kept(s, Send(s, Partner(s, c), "DATA"))
    BY <2>1, SendWell
  <2>. QED
    BY <2>2 DEF Relayed, Kept
<1>. QED
  BY <1>1, <1>2

(* accept_client: a slot nothing refers to.                                *)
LEMMA AcceptWell ==
  ASSUME NEW s, Well(s), NEW c \in Client, Free(s, c)
  PROVE  Kept(s, Accept(s, c))
<1> DEFINE t == Accept(s, c)
<1>0. s \in Server /\ None \notin Client \cup Name \cup RoomId
  BY RelayAssumption DEF Well
<1>1. /\ t \in Server /\ t.live = s.live \cup {c}
      /\ t.name = [d \in Client |-> IF d = c THEN None ELSE s.name[d]]
      /\ t.entry = s.entry /\ t.count = s.count
      /\ t.room = s.room /\ t.members = s.members /\ t.started = s.started
  BY <1>0 DEF Accept, Server, NewView, View
<1> HIDE DEF t
<1>2. RoomsOf(t)
  BY <1>1 DEF Well, RoomsOf, InRoom
<1>3. NamesOf(t)
  BY <1>0, <1>1 DEF Well, NamesOf, Listed, Free, Server
<1>4. Current(s) => Current(t)
  BY <1>1 DEF Current, Listed
<1>. QED
  BY <1>1, <1>2, <1>3, <1>4 DEF Well, Kept, t

-----------------------------------------------------------------------------
(* The invariant.                                                          *)

(* Which sends of a step fail is no part of the invariant.                 *)
LEMMA FuseWell ==
  ASSUME NEW s, Well(s)
  PROVE  /\ Kept(s, Rest(s))
         /\ \A k \in Fuses(s) :
              Kept(s, Armed(s, k)) /\ Armed(s, k).live = s.live
<1>0. s \in Server
  BY DEF Well
<1>1. Rest(s) \in Server /\ Same(s, Rest(s)) /\ Rest(s).count = s.count
  <2>1. Sound \in [Client -> Int]
    BY DEF Sound
  <2>. QED
    BY <1>0, <2>1 DEF Rest, Server, Same
<1>2. ASSUME NEW k \in Fuses(s)
      PROVE  /\ Armed(s, k) \in Server /\ Same(s, Armed(s, k))
             /\ Armed(s, k).count = s.count
  <2>1. Fuse \cup {-1} \subseteq Int
    BY RelayAssumption
  <2>2. \A c \in s.live : k[c] \in Int
    BY <2>1 DEF Fuses
  <2>3. [c \in Client |-> IF c \in s.live THEN k[c] ELSE -1] \in [Client -> Int]
    BY <2>2
  <2>. QED
    BY <1>0, <2>3 DEF Armed, Server, Same
<1>3. ASSUME NEW t \in Server, Same(s, t), t.count = s.count
      PROVE  Kept(s, t)
  BY <1>3, SameWell DEF Kept, Current, Listed, Same
<1>. QED
  BY <1>1, <1>2, <1>3 DEF Same

(* A server that has just started.                                         *)
LEMMA EmptyWell == Well(Empty) /\ Current(Empty)
<1>1. Empty \in Server
  BY DEF Empty, Server, Sound, NewView, View
<1>2. RoomsOf(Empty)
  BY RelayAssumption DEF Empty, RoomsOf, InRoom
<1>3. NamesOf(Empty)
  BY DEF Empty, NamesOf, Listed
<1>4. Current(Empty)
  BY FS_EmptySet DEF Empty, Current, Listed
<1>. QED
  BY <1>1, <1>2, <1>3, <1>4 DEF Well

(* Every handler of the C program keeps the invariant.                     *)
LEMMA NextWell ==
  ASSUME Impl = "c", Well(srv), Next
  PROVE  Kept(srv, srv')
<1>0. srv.live \subseteq Client
  BY DEF Well, Server
<1>1. CASE Connect
  BY <1>1, AcceptWell DEF Connect
<1>2. CASE OnHello
  <2>1. PICK c \in srv.live, n \in Name, k \in Fuses(srv) :
          srv' = Rest(Hello(Armed(srv, k), c, n))
    BY <1>2 DEF OnHello
  <2>2. Kept(srv, Armed(srv, k)) /\ c \in Armed(srv, k).live
    BY FuseWell DEF Kept
  <2>3. Kept(srv, Hello(Armed(srv, k), c, n))
    BY <2>2, HelloWell DEF Kept
  <2>. QED
    BY <2>1, <2>3, FuseWell DEF Kept
<1>3. CASE OnList
  <2>1. PICK c \in srv.live, k \in Fuses(srv) : srv' = Rest(List(Armed(srv, k), c))
    BY <1>3 DEF OnList
  <2>2. Kept(srv, Armed(srv, k)) /\ c \in Client
    BY <1>0, FuseWell DEF Kept
  <2>3. Kept(srv, List(Armed(srv, k), c))
    BY <2>2, SendWell DEF List, Kept
  <2>. QED
    BY <2>1, <2>3, FuseWell DEF Kept
<1>4. CASE OnJoin
  <2>1. PICK c \in srv.live, n \in Name, k \in Fuses(srv) :
          srv' = Rest(Join(Armed(srv, k), c, n))
    BY <1>4 DEF OnJoin
  <2>2. Kept(srv, Armed(srv, k)) /\ c \in Armed(srv, k).live
    BY FuseWell DEF Kept
  <2>3. Kept(srv, Join(Armed(srv, k), c, n))
    BY <2>2, JoinWell DEF Kept
  <2>. QED
    BY <2>1, <2>3, FuseWell DEF Kept
<1>5. CASE OnGo
  <2>1. PICK c \in srv.live, k \in Fuses(srv) : srv' = Rest(Go(Armed(srv, k), c))
    BY <1>5 DEF OnGo
  <2>2. Kept(srv, Armed(srv, k)) /\ c \in Client
    BY <1>0, FuseWell DEF Kept
  <2>3. Kept(srv, Go(Armed(srv, k), c))
    BY <2>2, GoWell DEF Kept
  <2>. QED
    BY <2>1, <2>3, FuseWell DEF Kept
<1>6. CASE OnRelay
  <2>1. PICK c \in srv.live, k \in Fuses(srv) :
          srv' = Rest(Relayed(Armed(srv, k), c))
    BY <1>6 DEF OnRelay
  <2>2. Kept(srv, Armed(srv, k)) /\ c \in Client
    BY <1>0, FuseWell DEF Kept
  <2>3. Kept(srv, Relayed(Armed(srv, k), c))
    BY <2>2, RelayedWell DEF Kept
  <2>. QED
    BY <2>1, <2>3, FuseWell DEF Kept
<1>7. CASE Leave
  <2>1. PICK c \in srv.live, k \in Fuses(srv) : srv' = Rest(Drop(Armed(srv, k), c))
    BY <1>7 DEF Leave
  <2>2. Kept(srv, Armed(srv, k)) /\ c \in Client
    BY <1>0, FuseWell DEF Kept
  <2>3. Kept(srv, Drop(Armed(srv, k), c))
    BY <2>2, DropWell DEF Kept
  <2>. QED
    BY <2>1, <2>3, FuseWell DEF Kept
<1>. QED
  BY <1>1, <1>2, <1>3, <1>4, <1>5, <1>6, <1>7 DEF Next

(* The C server's memory is well formed, its rooms and its clients agree,  *)
(* its names are those of connected consoles and the count it publishes is *)
(* that of its names, whichever sends fail.                                *)
THEOREM WellAlways ==
  ASSUME Impl = "c"
  PROVE  Spec => [](Well(srv) /\ Current(srv))
<1>1. Init => Well(srv) /\ Current(srv)
  BY EmptyWell DEF Init
<1>2. (Well(srv) /\ Current(srv)) /\ [Next]_srv => (Well(srv) /\ Current(srv))'
  <2>1. ASSUME Well(srv), Current(srv), Next
        PROVE  Well(srv') /\ Current(srv')
    BY <2>1, NextWell DEF Kept
  <2>. QED
    BY <2>1
<1>. QED
  BY <1>1, <1>2, PTL DEF Spec

(* room_alloc, on_join, dissolve and drop keep a room's members and the    *)
(* members' room in step, so that a room in use has two connected members. *)
THEOREM RoomsCorrect ==
  ASSUME Impl = "c"
  PROVE  Spec => []RoomsConsistent
<1>1. Well(srv) => RoomsConsistent
  BY DEF Well, RoomsConsistent
<1>. QED
  BY <1>1, WellAlways, PTL

(* name_set and the clean-up in on_hello and drop leave no entry behind    *)
(* that points at a client that is gone or has another name.               *)
THEOREM NamesCorrect ==
  ASSUME Impl = "c"
  PROVE  Spec => []NamesConsistent
<1>1. Well(srv) => NamesConsistent
  BY DEF Well, NamesConsistent
<1>. QED
  BY <1>1, WellAlways, PTL

(* lobby_update is called on every path through a handler that changes     *)
(* by_name, drops inside drops included.                                   *)
THEOREM CountCorrect ==
  ASSUME Impl = "c"
  PROVE  Spec => []CountCurrent
<1>1. Current(srv) => CountCurrent
  BY DEF Current, CountCurrent
<1>. QED
  BY <1>1, WellAlways, PTL

-----------------------------------------------------------------------------
(* Enough rooms.                                                           *)

Seated(s) == {c \in s.live : s.room[c] # None}
Seats(s) == [x \in RoomId \X {1, 2} |-> s.members[x[1]][x[2]]]

(* If all rooms are in use, their seats are as many connected clients, all *)
(* of them different.                                                      *)
LEMMA SeatsTaken ==
  ASSUME NEW s, Well(s), FreeRooms(s) = {}
  PROVE  Seats(s) \in Injection(RoomId \X {1, 2}, Seated(s))
<1> DEFINE S == RoomId \X {1, 2}
           T == Seated(s)
           f == Seats(s)
<1> USE DEF Seated, Seats
<1>1. ASSUME NEW r \in RoomId
      PROVE  LET m == s.members[r]
             IN  /\ m[1] # m[2] /\ m[1] \in T /\ m[2] \in T
                 /\ s.room[m[1]] = r /\ s.room[m[2]] = r
  <2>1. s.members[r] # <<>> /\ None # r
    BY RelayAssumption DEF FreeRooms
  <2>2. /\ s.members[r][1] # s.members[r][2]
        /\ InRoom(s, r) = {s.members[r][1], s.members[r][2]}
        /\ InRoom(s, r) \subseteq s.live
    BY <2>1 DEF Well, RoomsOf
  <2>. QED
    BY <2>1, <2>2 DEF InRoom
<1>2. \A x \in S : x[1] \in RoomId /\ x[2] \in {1, 2} /\ x = <<x[1], x[2]>>
  OBVIOUS
<1>3. \A x \in S : f[x] \in T /\ s.room[f[x]] = x[1]
  BY <1>1, <1>2
<1>4. ASSUME NEW x \in S, NEW y \in S, f[x] = f[y]
      PROVE  x = y
  <2>1. x[1] = y[1]
    BY <1>3, <1>4
  <2>2. x[2] = y[2]
    BY <2>1, <1>1, <1>2, <1>4
  <2>. QED
    BY <2>1, <2>2, <1>2
<1>5. f \in [S -> T] /\ DOMAIN f = S
  BY <1>3
<1> HIDE DEF S, T, f
<1>6. f \in Injection(S, T)
  BY <1>4, <1>5 DEF Injection, IsInjective
<1>. QED
  BY <1>6 DEF S, T, f

(* MAX_ROOMS is half of MAX_CLIENTS, and that is enough: dissolve and drop *)
(* give every room back, so two idle clients find a free one.              *)
THEOREM PairFindsRoom ==
  ASSUME Impl = "c", IsFiniteSet(Client), IsFiniteSet(RoomId),
         Cardinality(Client) <= 2 * Cardinality(RoomId)
  PROVE  Spec => []RoomForTwo
<1>1. ASSUME Well(srv), NEW c \in srv.live, NEW d \in srv.live, c # d,
             srv.room[c] = None, srv.room[d] = None
      PROVE  FreeRooms(srv) # {}
  <2> DEFINE S == RoomId \X {1, 2}
             T == Seated(srv)
             U == Client \ {c}
  <2>1. SUFFICES ASSUME FreeRooms(srv) = {} PROVE FALSE
    OBVIOUS
  <2>2. c \in Client /\ d \in Client /\ T \subseteq U \ {d}
    BY <1>1 DEF Well, Server, Seated
  <2>3. IsFiniteSet(U) /\ Cardinality(U) = Cardinality(Client) - 1
    BY <2>2, FS_RemoveElement
  <2>4. IsFiniteSet(U \ {d}) /\ Cardinality(U \ {d}) = Cardinality(U) - 1
    BY <1>1, <2>2, <2>3, FS_RemoveElement
  <2>5. IsFiniteSet(T) /\ Cardinality(T) <= Cardinality(U \ {d})
    BY <2>2, <2>4, FS_Subset
  <2>6. IsFiniteSet({1, 2}) /\ Cardinality({1, 2}) = 2
    <3>1. IsFiniteSet({1}) /\ Cardinality({1}) = 1
      BY FS_Singleton
    <3> DEFINE One == {1}
    <3>2. /\ IsFiniteSet(One \cup {2})
          /\ Cardinality(One \cup {2}) =
               IF 2 \in One THEN Cardinality(One) ELSE Cardinality(One) + 1
      <4> HIDE DEF One
      <4>1. IsFiniteSet(One)
        BY <3>1 DEF One
      <4>. QED
        BY <4>1, FS_AddElement
    <3>3. {1} \cup {2} = {1, 2}
      OBVIOUS
    <3>. QED
      BY <3>1, <3>2, <3>3
  <2>7. IsFiniteSet(S) /\ Cardinality(S) = Cardinality(RoomId) * 2
    BY <2>6, FS_Product
  <2>8. Seats(srv) \in Injection(S, T)
    BY <1>1, <2>1, SeatsTaken
  <2>9. Cardinality(S) <= Cardinality(T)
    BY <2>5, <2>8, FS_Injection
  <2>10. /\ Cardinality(Client) \in Nat /\ Cardinality(RoomId) \in Nat
         /\ Cardinality(T) \in Nat /\ Cardinality(S) \in Nat
    BY <2>5, <2>7, FS_CardinalityType
  <2> HIDE DEF S, T, U
  <2>. QED
    BY <2>3, <2>4, <2>5, <2>7, <2>9, <2>10
<1>2. Well(srv) => RoomForTwo
  BY <1>1 DEF RoomForTwo
<1>. QED
  BY <1>2, WellAlways, PTL

-----------------------------------------------------------------------------
(***************************************************************************)
(* How matches end and what the consoles are told of it, for any number of *)
(* clients, names and rooms, whichever sends fail.                         *)
(*                                                                         *)
(* The invariant Well is one of the C program.  In Python the              *)
(* name table may list a closed connection, which a JOIN then seats.  What *)
(* is proved here needs less of the memory than that: the rooms and the    *)
(* members agree (Agree), and a member may be gone.                        *)
(***************************************************************************)

Seating(s) ==
  \A r \in RoomId :
    LET m == s.members[r]
    IN  \/ m = <<>> /\ r \notin s.started /\ InRoom(s, r) = {}
        \/ Len(m) = 2 /\ m[1] # m[2] /\ InRoom(s, r) = {m[1], m[2]}

Agree(s) == s \in Server /\ Seating(s)

(* The connections and the rooms of t are those of s.                      *)
Unmoved(s, t) ==
  /\ t \in Server /\ t.live = s.live /\ t.room = s.room
  /\ t.members = s.members /\ t.started = s.started

-----------------------------------------------------------------------------
(* What the operations do to the rooms and to the views.                   *)

LEMMA UnmovedAgree ==
  ASSUME NEW s, Agree(s), NEW t, Unmoved(s, t)
  PROVE  Agree(t)
BY DEF Agree, Seating, Unmoved, InRoom

(* What lobby_update leaves alone.                                         *)
LEMMA PublishLeaves ==
  ASSUME NEW s \in Server
  PROVE  Unmoved(s, Publish(s)) /\ Publish(s).told = s.told
<1>1. Publish(s).told = s.told
  BY DEF Publish, Server
<1>. QED
  BY <1>1, PublishSame DEF Same, Unmoved

(* The first half of a drop tells nobody anything.                         *)
LEMMA UnlistTold ==
  ASSUME NEW s \in Server, NEW c \in Client
  PROVE  Unlist(s, c).told = s.told
BY DEF Unlist, Publish, Server

(* A console that has heard a goodbye does not forget it.                  *)
LEMMA ReadKeeps ==
  ASSUME NEW v \in View, NEW f
  PROVE  /\ v.dropped => Read(v, f).dropped
         /\ Read(v, "LEFT").dropped
BY DEF Read, View

(* Who sits in a room sits there with one other.                           *)
LEMMA PartnerSits ==
  ASSUME NEW s, Agree(s), NEW c \in Client, s.room[c] # None
  PROVE  /\ s.room[c] \in RoomId /\ s.members[s.room[c]] # <<>>
         /\ Partner(s, c) \in Client /\ Partner(s, c) # c
         /\ InRoom(s, s.room[c]) = {c, Partner(s, c)}
<1>1. s.room[c] \in RoomId
  BY DEF Agree, Server
<1>2. c \in InRoom(s, s.room[c])
  BY DEF InRoom
<1>3. LET m == s.members[s.room[c]]
      IN  Len(m) = 2 /\ m[1] # m[2] /\ InRoom(s, s.room[c]) = {m[1], m[2]}
  BY <1>1, <1>2 DEF Agree, Seating
<1>4. InRoom(s, s.room[c]) = {c, Partner(s, c)} /\ Partner(s, c) # c
  BY <1>2, <1>3 DEF Partner
<1>5. s.members[s.room[c]] # <<>>
  BY <1>3
<1>. QED
  BY <1>1, <1>4, <1>5 DEF InRoom

(* The members of a room in use, one by one.                               *)
LEMMA MembersSit ==
  ASSUME NEW s, Agree(s), NEW r \in RoomId, s.members[r] # <<>>
  PROVE  LET m == s.members[r]
         IN  /\ m[1] \in Client /\ m[2] \in Client /\ m[1] # m[2]
             /\ InRoom(s, r) = {m[1], m[2]}
             /\ s.room[m[1]] = r /\ s.room[m[2]] = r
<1>1. LET m == s.members[r] IN m[1] # m[2] /\ InRoom(s, r) = {m[1], m[2]}
  BY DEF Agree, Seating
<1>. QED
  BY <1>1 DEF InRoom

(* A frame that goes out, and what is told by it.                          *)
LEMMA PushTells ==
  ASSUME NEW s \in Server, NEW c \in Client, NEW f, NEW broken,
         Push(s, c, f, broken) # broken
  PROVE  LET t == Push(s, c, f, broken)
         IN  /\ Unmoved(s, t)
             /\ \A d \in Client : d # c => t.told[d] = s.told[d]
             /\ t.told[c] \in {s.told[c], Read(s.told[c], f)}
             /\ c \in t.live => t.told[c] = Read(s.told[c], f)
<1> DEFINE t == Push(s, c, f, broken)
<1>1. Unmoved(s, t)
  BY PushSame DEF Same, Unmoved
<1>2. CASE c \notin s.live
  <2>1. t = s
    BY <1>2 DEF Push
  <2>. QED
    BY <1>1, <1>2, <2>1
<1>3. CASE c \in s.live
  <2>1. t = [s EXCEPT !.told[c] = Read(@, f), !.fuse[c] = IF @ > 0 THEN @ - 1 ELSE @]
    BY <1>3 DEF Push
  <2>2. t.told = [s.told EXCEPT ![c] = Read(s.told[c], f)]
    BY <2>1 DEF Server
  <2>3. s.told \in [Client -> View]
    BY DEF Server
  <2>. QED
    BY <1>1, <2>2, <2>3
<1>. QED
  BY <1>2, <1>3

(* What a drop out of a room does.                                         *)
Dissolved(s, t, c) ==
  LET r == s.room[c]
      p == Partner(s, c)
      news == IF r \in s.started THEN "LEFT" ELSE "ROOM0"
  IN  /\ t \in Server /\ t.live \subseteq s.live \ {c}
      /\ t.room = [d \in Client |-> IF s.room[d] = r THEN None ELSE s.room[d]]
      /\ t.members = [s.members EXCEPT ![r] = <<>>]
      /\ t.started = s.started \ {r}
      /\ \A d \in Client : d # p => t.told[d] = s.told[d]
      /\ t.told[p] \in {s.told[p], Read(s.told[p], news)}
      /\ p \in t.live => t.told[p] = Read(s.told[p], news)

LEMMA DropDissolves ==
  ASSUME NEW s, Agree(s), NEW c \in s.live, s.room[c] # None
  PROVE  Dissolved(s, Drop(s, c), c)
<1> DEFINE r == s.room[c]
           p == Partner(s, c)
           u == Unlist(s, c)
           v == Vacate(u, r)
           news == IF r \in s.started THEN "LEFT" ELSE "ROOM0"
           w == SendSolo(v, p, news)
           t == Publish(w)
<1>0. s \in Server /\ c \in Client
  BY DEF Agree, Server
<1>1. Drop(s, c) = t
  BY DEF Drop
<1>2. r \in RoomId /\ p \in Client /\ p # c
  BY <1>0, PartnerSits
<1>3. /\ u \in Server /\ u.live = s.live \ {c} /\ u.room = s.room
      /\ u.members = s.members /\ u.started = s.started /\ u.told = s.told
  BY <1>0, UnlistDoes, UnlistTold
<1>4. <<>> \in Seq(Client)
  OBVIOUS
<1> HIDE DEF u
<1>5. v \in Server
  BY <1>2, <1>3, <1>4 DEF Vacate, Server
<1>6. /\ v.live = s.live \ {c}
      /\ v.room = [d \in Client |-> IF s.room[d] = r THEN None ELSE s.room[d]]
      /\ v.members = [s.members EXCEPT ![r] = <<>>]
      /\ v.started = s.started \ {r} /\ v.told = s.told
  BY <1>2, <1>3 DEF Vacate, Server
<1> HIDE DEF v, news
<1>7. /\ w \in Server /\ w.live \subseteq v.live /\ w.room = v.room
      /\ w.members = v.members /\ w.started = v.started
      /\ \A d \in Client : d # p => w.told[d] = v.told[d]
      /\ w.told[p] \in {v.told[p], Read(v.told[p], news)}
      /\ p \in w.live => w.told[p] = Read(v.told[p], news)
  <2>1. CASE w = Unlist(v, p)
    <3> DEFINE x == Unlist(v, p)
    <3>1. /\ x \in Server /\ x.live = v.live \ {p} /\ x.members = v.members
          /\ x.started = v.started /\ x.told = v.told /\ x.room = v.room
      BY <1>2, <1>5, UnlistDoes, UnlistTold
    <3> HIDE DEF x
    <3>2. w = x
      BY <2>1 DEF x
    <3> HIDE DEF w
    <3>. QED
      BY <3>1, <3>2
  <2>2. CASE w # Unlist(v, p)
    <3>1. /\ Unmoved(v, w)
          /\ \A d \in Client : d # p => w.told[d] = v.told[d]
          /\ w.told[p] \in {v.told[p], Read(v.told[p], news)}
          /\ p \in w.live => w.told[p] = Read(v.told[p], news)
      BY <1>2, <1>5, <2>2, PushTells DEF SendSolo
    <3>. QED
      BY <3>1 DEF Unmoved
  <2>. QED
    BY <2>1, <2>2
<1> HIDE DEF w
<1>8. Unmoved(w, t) /\ t.told = w.told
  BY <1>7, PublishLeaves
<1> HIDE DEF t
<1>9. Dissolved(s, t, c)
  BY <1>6, <1>7, <1>8 DEF Unmoved, Dissolved, news
<1>. QED
  BY <1>1, <1>9

(* It leaves the other rooms alone.                                        *)
LEMMA DissolvedAgree ==
  ASSUME NEW s, Agree(s), NEW c \in Client, s.room[c] # None,
         NEW t, Dissolved(s, t, c)
  PROVE  /\ Agree(t) /\ t.members[s.room[c]] = <<>>
         /\ \A q \in RoomId : q # s.room[c] => t.members[q] = s.members[q]
<1> DEFINE r == s.room[c]
<1>1. r \in RoomId
  BY PartnerSits
<1>2. /\ t \in Server /\ t.members = [s.members EXCEPT ![r] = <<>>]
      /\ t.room = [d \in Client |-> IF s.room[d] = r THEN None ELSE s.room[d]]
      /\ t.started = s.started \ {r}
  BY DEF Dissolved
<1> HIDE DEF r
<1>3. /\ s.members \in [RoomId -> Seq(Client)]
      /\ s.room \in [Client -> RoomId \cup {None}]
      /\ None \notin RoomId
  BY RelayAssumption DEF Agree, Server
<1>4. ASSUME NEW q \in RoomId, q # r
      PROVE  /\ t.members[q] = s.members[q] /\ InRoom(t, q) = InRoom(s, q)
             /\ q \in t.started <=> q \in s.started
  BY <1>1, <1>2, <1>3, <1>4 DEF InRoom
<1>5. t.members[r] = <<>> /\ InRoom(t, r) = {} /\ r \notin t.started
  BY <1>1, <1>2, <1>3 DEF InRoom
<1>6. Seating(t)
  BY <1>4, <1>5 DEF Agree, Seating
<1>. QED
  BY <1>2, <1>4, <1>5, <1>6 DEF Agree, r

(* From s to t, h and c have got room r.                                   *)
Given(s, t, h, c, r) ==
  /\ Agree(t) /\ InRoom(t, r) = {h, c} /\ t.members[r] # <<>>
  /\ t.started = s.started /\ t.told = s.told /\ t.live = s.live
  /\ t.room = [s.room EXCEPT ![h] = r, ![c] = r]
  /\ r \notin s.started
  /\ \A q \in s.started : t.members[q] = s.members[q]

(* Two consoles that were in no room get one.                              *)
LEMMA SeatsAgree ==
  ASSUME NEW s, Agree(s), NEW r \in RoomId, s.members[r] = <<>>,
         NEW h \in Client, NEW c \in Client, h # c,
         s.room[h] = None, s.room[c] = None
  PROVE  Given(s, [s EXCEPT !.room[h] = r, !.room[c] = r,
                            !.members[r] = <<h, c>>], h, c, r)
<1> DEFINE t == [s EXCEPT !.room[h] = r, !.room[c] = r,
                          !.members[r] = <<h, c>>]
<1>0. s \in Server /\ s.room \in [Client -> RoomId \cup {None}]
      /\ s.members \in [RoomId -> Seq(Client)] /\ s.started \subseteq RoomId
  BY DEF Agree, Server
<1>1. <<h, c>> \in Seq(Client) /\ Len(<<h, c>>) = 2 /\ <<h, c>> # <<>>
      /\ <<h, c>>[1] = h /\ <<h, c>>[2] = c
  OBVIOUS
<1>2. /\ t.started = s.started /\ t.told = s.told /\ t.live = s.live
      /\ t.room = [s.room EXCEPT ![h] = r, ![c] = r]
      /\ t.members = [s.members EXCEPT ![r] = <<h, c>>]
  BY <1>0 DEF Server
<1>3. t \in Server
  BY <1>0, <1>1 DEF Server
<1> HIDE DEF t
<1>4. r \notin s.started /\ InRoom(s, r) = {}
  BY DEF Agree, Seating
<1>5. /\ InRoom(t, r) = {h, c}
      /\ \A q \in RoomId : q # r => InRoom(t, q) = InRoom(s, q)
  <2>1. \A d \in Client : t.room[d] = IF d \in {h, c} THEN r ELSE s.room[d]
    BY <1>0, <1>2
  <2>2. None \notin RoomId
    BY RelayAssumption
  <2>. QED
    BY <1>4, <2>1, <2>2 DEF InRoom
<1>6. t.members[r] = <<h, c>>
      /\ \A q \in RoomId : q # r => t.members[q] = s.members[q]
  BY <1>0, <1>2
<1>7. Seating(t)
  <2>1. LET m == t.members[r]
        IN  Len(m) = 2 /\ m[1] # m[2] /\ InRoom(t, r) = {m[1], m[2]}
    BY <1>1, <1>5, <1>6
  <2>. QED
    BY <1>2, <1>5, <1>6, <2>1 DEF Agree, Seating
<1>8. \A q \in s.started : t.members[q] = s.members[q]
  BY <1>0, <1>4, <1>6
<1>. QED
  BY <1>1, <1>2, <1>3, <1>4, <1>5, <1>6, <1>7, <1>8 DEF Agree, Given, t

(* Which sends of a step fail is no part of the rooms.                     *)
LEMMA FuseUnmoved ==
  ASSUME NEW s \in Server
  PROVE  /\ \A k \in Fuses(s) : /\ Unmoved(s, Armed(s, k))
                                /\ Armed(s, k).told = s.told
         /\ Unmoved(s, Rest(s)) /\ Rest(s).told = s.told
<1>1. ASSUME NEW k \in Fuses(s)
      PROVE  Unmoved(s, Armed(s, k)) /\ Armed(s, k).told = s.told
  <2>1. Fuse \cup {-1} \subseteq Int
    BY RelayAssumption
  <2>2. \A c \in s.live : k[c] \in Int
    BY <2>1 DEF Fuses
  <2>3. [c \in Client |-> IF c \in s.live THEN k[c] ELSE -1]
          \in [Client -> Int]
    BY <2>2
  <2>. QED
    BY <2>3 DEF Armed, Unmoved, Server
<1>2. Unmoved(s, Rest(s)) /\ Rest(s).told = s.told
  <2>1. Sound \in [Client -> Int]
    BY DEF Sound
  <2>. QED
    BY <2>1 DEF Rest, Unmoved, Server
<1>. QED
  BY <1>1, <1>2

(* A connection that opens is in no room and has been told nothing.        *)
LEMMA AcceptAgree ==
  ASSUME NEW s, Agree(s), NEW c \in Client, Free(s, c)
  PROVE  LET t == Accept(s, c)
         IN  /\ Agree(t) /\ t.live = s.live \cup {c} /\ t.room = s.room
             /\ t.members = s.members /\ t.started = s.started
             /\ t.told = [s.told EXCEPT ![c] = NewView]
<1> DEFINE t == Accept(s, c)
<1>1. NewView \in View
  BY DEF NewView, View
<1>2. /\ t \in Server /\ t.live = s.live \cup {c} /\ t.room = s.room
      /\ t.members = s.members /\ t.started = s.started
      /\ t.told = [s.told EXCEPT ![c] = NewView]
  BY <1>1 DEF Accept, Agree, Server
<1> HIDE DEF t
<1>3. Agree(t)
  BY <1>2 DEF Agree, Seating, InRoom
<1>. QED
  BY <1>2, <1>3 DEF t

-----------------------------------------------------------------------------
(* How matches end.                                                        *)
(*                                                                         *)
(* A handler is a chain of operations, and Matches says of each link what  *)
(* MatchEnds says of the whole step.  Links may be joined as long as none  *)
(* starts again a room that an earlier one has ended.                      *)

Stays(s, t, r) == r \in t.started /\ t.members[r] = s.members[r]

Over(s, t, r) ==
  /\ r \notin t.started
  /\ ~(InRoom(s, r) \subseteq t.live)
  /\ \A c \in InRoom(s, r) \cap t.live : t.told[c].dropped

(* From s to t nobody connects, nobody forgets a goodbye, and every match  *)
(* goes on as it was or ends as it should.                                 *)
Matches(s, t) ==
  /\ Agree(t) /\ t.live \subseteq s.live
  /\ \A c \in Client : s.told[c].dropped => t.told[c].dropped
  /\ \A r \in s.started : Stays(s, t, r) \/ Over(s, t, r)

(* And no match begins.                                                    *)
Ends(s, t) == Matches(s, t) /\ t.started \subseteq s.started

(* A room whose members stay the same keeps its people.                    *)
LEMMA SamePeople ==
  ASSUME NEW s, Agree(s), NEW t, Agree(t), NEW r \in s.started, Stays(s, t, r)
  PROVE  InRoom(t, r) = InRoom(s, r)
<1>1. r \in RoomId
  BY DEF Agree, Server
<1>2. LET m == s.members[r] IN InRoom(s, r) = {m[1], m[2]}
  BY <1>1 DEF Agree, Seating
<1>3. LET m == t.members[r] IN InRoom(t, r) = {m[1], m[2]}
  BY <1>1 DEF Agree, Seating, Stays
<1>. QED
  BY <1>2, <1>3 DEF Stays

(* Two links make a link, unless the second starts what the first ended.   *)
LEMMA Chain ==
  ASSUME NEW s, Agree(s), NEW t, NEW u, Matches(s, t), Matches(t, u),
         \A r \in s.started : r \in u.started => r \in t.started
  PROVE  Matches(s, u)
<1>1. Agree(t) /\ Agree(u) /\ u.live \subseteq t.live /\ u.live \subseteq s.live
  BY DEF Matches
<1>2. \A c \in Client : s.told[c].dropped => u.told[c].dropped
  BY DEF Matches
<1>3. ASSUME NEW r \in s.started PROVE Stays(s, u, r) \/ Over(s, u, r)
  <2>1. CASE Stays(s, t, r)
    <3>1. InRoom(t, r) = InRoom(s, r)
      BY <1>1, <2>1, SamePeople
    <3>2. Stays(t, u, r) \/ Over(t, u, r)
      BY <2>1 DEF Stays, Matches
    <3>. QED
      BY <2>1, <3>1, <3>2 DEF Stays, Over
  <2>2. CASE Over(s, t, r)
    <3>1. r \notin u.started
      BY <2>2 DEF Over
    <3>2. \A c \in InRoom(s, r) \cap u.live : u.told[c].dropped
      BY <1>1, <2>2 DEF Over, Matches, InRoom
    <3>. QED
      BY <1>1, <2>2, <3>1, <3>2 DEF Over
  <2>. QED
    BY <2>1, <2>2 DEF Matches
<1>. QED
  BY <1>1, <1>2, <1>3 DEF Matches

(* Links that begin no match make one that begins none.                    *)
LEMMA EndsChain ==
  ASSUME NEW s, Agree(s), NEW t, NEW u, Ends(s, t), Ends(t, u)
  PROVE  Ends(s, u)
<1>1. u.started \subseteq t.started /\ t.started \subseteq s.started
  BY DEF Ends
<1>. QED
  BY <1>1, Chain DEF Ends

(* Nothing happens to the matches when rooms stay as they are.             *)
LEMMA SameEnds ==
  ASSUME NEW s, NEW t, Agree(t), t.live \subseteq s.live,
         t.members = s.members, t.started = s.started,
         \A c \in Client : s.told[c].dropped => t.told[c].dropped
  PROVE  Ends(s, t)
BY DEF Ends, Matches, Stays

LEMMA UnmovedEnds ==
  ASSUME NEW s, Agree(s), NEW t, Unmoved(s, t),
         \A c \in Client : s.told[c].dropped => t.told[c].dropped
  PROVE  Ends(s, t)
<1>1. Agree(t)
  BY UnmovedAgree
<1>. QED
  BY <1>1, SameEnds DEF Unmoved

(* lobby_update                                                            *)
LEMMA PublishEnds ==
  ASSUME NEW s, Agree(s)
  PROVE  Ends(s, Publish(s))
<1>1. Unmoved(s, Publish(s)) /\ Publish(s).told = s.told
  BY PublishLeaves DEF Agree
<1>. QED
  BY <1>1, UnmovedEnds

(* A drop ends the match its client is in, and no other.                   *)
LEMMA DropEnds ==
  ASSUME NEW s, Agree(s), NEW c \in Client
  PROVE  Ends(s, Drop(s, c))
<1>0. s \in Server
  BY DEF Agree
<1>1. CASE c \notin s.live
  <2>1. Drop(s, c) = s
    BY <1>1 DEF Drop
  <2>2. Ends(s, s)
    BY SameEnds
  <2>. QED
    BY <2>1, <2>2
<1>2. CASE c \in s.live /\ s.room[c] = None
  <2> DEFINE u == Unlist(s, c)
  <2>1. Drop(s, c) = u
    BY <1>2 DEF Drop
  <2>2. /\ u \in Server /\ u.live = s.live \ {c} /\ u.members = s.members
        /\ u.room = s.room /\ u.started = s.started /\ u.told = s.told
    BY <1>0, UnlistDoes, UnlistTold
  <2> HIDE DEF u
  <2>3. Agree(u)
    BY <2>2 DEF Agree, Seating, InRoom
  <2>. QED
    BY <2>1, <2>2, <2>3, SameEnds
<1>3. CASE c \in s.live /\ s.room[c] # None
  <2> DEFINE r == s.room[c]
             p == Partner(s, c)
             t == Drop(s, c)
             news == IF r \in s.started THEN "LEFT" ELSE "ROOM0"
  <2>1. r \in RoomId /\ p \in Client /\ p # c /\ InRoom(s, r) = {c, p}
    BY <1>3, PartnerSits
  <2>2. Dissolved(s, t, c)
    BY <1>3, DropDissolves
  <2>3. /\ Agree(t)
        /\ \A q \in RoomId : q # r => t.members[q] = s.members[q]
    BY <1>3, <2>2, DissolvedAgree
  <2> HIDE DEF t, p
  <2>4. /\ t.live \subseteq s.live \ {c} /\ t.started = s.started \ {r}
        /\ \A d \in Client : d # p => t.told[d] = s.told[d]
        /\ t.told[p] \in {s.told[p], Read(s.told[p], news)}
        /\ p \in t.live => t.told[p] = Read(s.told[p], news)
    BY <2>2 DEF Dissolved, p
  <2> HIDE DEF r, news
  <2>5. s.told[p] \in View /\ s.started \subseteq RoomId
    BY <1>0, <2>1 DEF Server
  <2>6. \A d \in Client : s.told[d].dropped => t.told[d].dropped
    BY <2>1, <2>4, <2>5, ReadKeeps
  <2>7. ASSUME NEW q \in s.started, q # r PROVE Stays(s, t, q)
    BY <2>3, <2>4, <2>5, <2>7 DEF Stays
  <2>8. ASSUME r \in s.started PROVE Over(s, t, r)
    <3>1. ~(InRoom(s, r) \subseteq t.live) /\ r \notin t.started
      BY <2>1, <2>4
    <3>2. p \in t.live => t.told[p].dropped
      BY <2>4, <2>5, <2>8, ReadKeeps DEF news
    <3>3. c \notin t.live
      BY <2>4
    <3>. QED
      BY <2>1, <3>1, <3>2, <3>3 DEF Over
  <2>9. Matches(s, t)
    BY <2>3, <2>4, <2>6, <2>7, <2>8 DEF Matches
  <2>. QED
    BY <2>4, <2>9 DEF Ends, t
<1>. QED
  BY <1>1, <1>2, <1>3

(* send_raw                                                                *)
LEMMA SendEnds ==
  ASSUME NEW s, Agree(s), NEW c \in Client, NEW f
  PROVE  Ends(s, Send(s, c, f))
<1>1. CASE Send(s, c, f) = Drop(s, c)
  BY <1>1, DropEnds
<1>2. CASE Send(s, c, f) # Drop(s, c)
  <2> DEFINE t == Send(s, c, f)
  <2>1. s \in Server /\ s.told[c] \in View
    BY DEF Agree, Server
  <2>2. /\ Unmoved(s, t)
        /\ \A d \in Client : d # c => t.told[d] = s.told[d]
        /\ t.told[c] \in {s.told[c], Read(s.told[c], f)}
    BY <1>2, <2>1, PushTells DEF Send
  <2> HIDE DEF t
  <2>3. \A d \in Client : s.told[d].dropped => t.told[d].dropped
    BY <2>1, <2>2, ReadKeeps
  <2>. QED
    BY <2>2, <2>3, UnmovedEnds DEF t
<1>. QED
  BY <1>1, <1>2

(* room_broadcast                                                          *)
LEMMA BroadcastEnds ==
  ASSUME NEW s, Agree(s), NEW r \in RoomId, s.members[r] # <<>>, NEW f
  PROVE  Ends(s, Broadcast(s, r, f))
<1> DEFINE a == s.members[r][1]
           b == s.members[r][2]
           t == Send(s, a, f)
           u == Send(t, b, f)
<1>1. a \in Client /\ b \in Client
  BY MembersSit
<1>2. Broadcast(s, r, f) \in {t, u}
  BY DEF Broadcast
<1> HIDE DEF a, b
<1>3. Ends(s, t)
  BY <1>1, SendEnds
<1> HIDE DEF t
<1>4. Ends(t, u)
  BY <1>1, <1>3, SendEnds DEF Ends, Matches
<1> HIDE DEF u
<1>5. Ends(s, u)
  BY <1>3, <1>4, EndsChain
<1>. QED
  BY <1>2, <1>3, <1>5

(* start_room begins the match of a room that has none.                    *)
LEMMA StartRoomMatches ==
  ASSUME NEW s, Agree(s), NEW r \in RoomId, s.members[r] # <<>>, r \notin s.started
  PROVE  LET t == StartRoom(s, r)
         IN  Matches(s, t) /\ t.started \subseteq s.started \cup {r}
<1> DEFINE b == [s EXCEPT !.started = @ \cup {r}]
           u == Broadcast(b, r, "START")
           t == StartRoom(s, r)
<1>1. /\ b \in Server /\ b.started = s.started \cup {r} /\ b.told = s.told
      /\ b.live = s.live /\ b.room = s.room /\ b.members = s.members
  BY DEF Agree, Server
<1>2. t = Publish(u)
  BY DEF StartRoom
<1> HIDE DEF b, t
<1>3. Agree(b) /\ b.members[r] # <<>>
  BY <1>1 DEF Agree, Seating, InRoom
<1>4. Matches(s, b)
  BY <1>1, <1>3 DEF Matches, Stays
<1>5. Ends(b, u)
  BY <1>3, BroadcastEnds
<1> HIDE DEF u
<1>6. Ends(u, t)
  BY <1>2, <1>5, PublishEnds DEF Ends, Matches
<1>7. Ends(b, t)
  BY <1>3, <1>5, <1>6, EndsChain
<1>8. Matches(s, t)
  BY <1>1, <1>4, <1>7, Chain DEF Ends
<1>. QED
  BY <1>1, <1>7, <1>8 DEF Ends, t

-----------------------------------------------------------------------------
(* Handlers.                                                               *)

(* on_hello                                                                *)
LEMMA HelloEnds ==
  ASSUME NEW s, Agree(s), NEW c \in Client, NEW n \in Name
  PROVE  Ends(s, Hello(s, c, n))
<1> DEFINE freed == IF s.entry[n] \in {None, c} THEN s ELSE Drop(s, s.entry[n])
           named == Rename(freed, c, n)
           shown == Publish(named)
<1>1. s.entry[n] \in Client \cup {None} /\ Ends(s, s)
  BY SameEnds DEF Agree, Server
<1>2. Ends(s, freed) /\ Agree(freed)
  BY <1>1, DropEnds DEF Ends, Matches
<1>3. Hello(s, c, n) \in {freed, Send(shown, c, "LOBBY")}
  BY DEF Hello, List
<1> HIDE DEF freed
<1>4. Unmoved(freed, named) /\ named.told = freed.told
  BY <1>2 DEF Rename, Agree, Unmoved, Server
<1> HIDE DEF named
<1>5. Ends(freed, named)
  BY <1>2, <1>4, UnmovedEnds
<1>6. Ends(named, shown)
  BY <1>5, PublishEnds DEF Ends, Matches
<1> HIDE DEF shown
<1>7. Ends(shown, Send(shown, c, "LOBBY"))
  BY <1>6, SendEnds DEF Ends, Matches
<1>8. Ends(s, shown)
  BY <1>2, <1>5, <1>6, EndsChain
<1>. QED
  BY <1>2, <1>3, <1>7, <1>8, EndsChain

(* on_join seats two who are in no room, or sends the list again.          *)
Invited(s, c, n, r) ==
  LET h == s.entry[n]
      joined == [s EXCEPT !.room[h] = r, !.room[c] = r, !.members[r] = <<h, c>>]
      announced == Publish(Broadcast(joined, r, "ROOM2"))
  IN  /\ r \in RoomId /\ s.members[r] = <<>> /\ h \in Client /\ h # c
      /\ s.room[h] = None /\ s.room[c] = None
      /\ Join(s, c, n) = IF AutoGo /\ announced.members[r] # <<>>
                         THEN StartRoom(announced, r) ELSE announced

LEMMA JoinCases ==
  ASSUME NEW s, Agree(s), NEW c \in Client, NEW n \in Name
  PROVE  \/ Join(s, c, n) \in {s, Drop(s, c), List(s, c)}
         \/ \E r \in RoomId : Invited(s, c, n, r)
<1> DEFINE host == s.entry[n]
           solo == s.room[host] = None
           r == IF solo THEN CHOOSE x \in FreeRooms(s) : TRUE ELSE s.room[host]
           joined == [s EXCEPT !.room[host] = r, !.room[c] = r,
                               !.members[r] = IF solo THEN <<host, c>> ELSE Append(@, c)]
           announced == Publish(Broadcast(joined, r, "ROOM2"))
<1>0. s \in Server /\ host \in Client \cup {None}
  BY DEF Agree, Server
<1>1. CASE s.name[c] = None \/ s.room[c] # None \/ host \in {None, c}
  BY <1>1 DEF Join
<1>2. CASE s.name[c] # None /\ s.room[c] = None /\ host \notin {None, c}
  <2>1. host \in Client /\ host # c
    BY <1>0, <1>2
  <2>2. CASE ~solo
    <3>1. s.room[host] \in RoomId /\ host \in InRoom(s, s.room[host])
      BY <1>0, <2>1, <2>2 DEF Server, InRoom
    <3>2. Len(s.members[s.room[host]]) = 2
      BY <3>1 DEF Agree, Seating
    <3>3. Unjoinable(s, s.room[host])
      BY <3>2 DEF Unjoinable
    <3>. QED
      BY <1>2, <2>2, <3>3 DEF Join
  <2>3. CASE solo /\ FreeRooms(s) = {}
    BY <1>2, <2>3 DEF Join
  <2>4. CASE solo /\ FreeRooms(s) # {}
    <3>1. r \in RoomId /\ s.members[r] = <<>>
      BY <2>4 DEF FreeRooms
    <3>2. joined = [s EXCEPT !.room[host] = r, !.room[c] = r,
                             !.members[r] = <<host, c>>]
      BY <2>4
    <3>3. Join(s, c, n) = IF AutoGo /\ announced.members[r] # <<>>
                          THEN StartRoom(announced, r) ELSE announced
      BY <1>2, <2>4 DEF Join
    <3>4. s.room[host] = None /\ s.room[c] = None
      BY <1>2, <2>4
    <3> HIDE DEF r
    <3>5. Invited(s, c, n, r)
      BY <2>1, <3>1, <3>2, <3>3, <3>4 DEF Invited
    <3>. QED
      BY <3>1, <3>5
  <2>. QED
    BY <2>2, <2>3, <2>4
<1>. QED
  BY <1>1, <1>2

(* on_join; with --auto-go the room it fills begins its match.             *)
LEMMA JoinMatches ==
  ASSUME NEW s, Agree(s), NEW c \in Client, NEW n \in Name
  PROVE  Matches(s, Join(s, c, n))
<1>1. CASE Join(s, c, n) \in {s, Drop(s, c), List(s, c)}
  <2>1. Ends(s, s)
    BY SameEnds
  <2>. QED
    BY <1>1, <2>1, DropEnds, SendEnds DEF List, Ends
<1>2. ASSUME NEW r \in RoomId, Invited(s, c, n, r)
      PROVE  Matches(s, Join(s, c, n))
  <2> DEFINE h == s.entry[n]
             joined == [s EXCEPT !.room[h] = r, !.room[c] = r,
                                 !.members[r] = <<h, c>>]
             told == Broadcast(joined, r, "ROOM2")
             announced == Publish(told)
  <2>1. /\ s.members[r] = <<>> /\ h \in Client /\ h # c
        /\ s.room[h] = None /\ s.room[c] = None
        /\ Join(s, c, n) = IF AutoGo /\ announced.members[r] # <<>>
                           THEN StartRoom(announced, r) ELSE announced
    BY <1>2 DEF Invited
  <2> HIDE DEF h
  <2>2. Given(s, joined, h, c, r)
    BY <2>1, SeatsAgree
  <2> HIDE DEF joined
  <2>3. Ends(s, joined) /\ r \notin s.started
    BY <2>2 DEF Given, Ends, Matches, Stays
  <2>4. Ends(joined, told)
    BY <2>2, BroadcastEnds DEF Given
  <2> HIDE DEF told
  <2>5. Ends(told, announced)
    BY <2>4, PublishEnds DEF Ends, Matches
  <2> HIDE DEF announced
  <2>6. Ends(s, announced)
    BY <2>3, <2>4, <2>5, EndsChain
  <2>7. CASE AutoGo /\ announced.members[r] # <<>>
    <3> DEFINE t == StartRoom(announced, r)
    <3>1. r \notin announced.started /\ Agree(announced)
      BY <2>3, <2>6 DEF Ends, Matches
    <3>2. Matches(announced, t) /\ t.started \subseteq announced.started \cup {r}
      BY <2>7, <3>1, StartRoomMatches
    <3> HIDE DEF t
    <3>3. Matches(s, t)
      BY <2>3, <2>6, <3>2, Chain DEF Ends
    <3>. QED
      BY <2>1, <2>7, <3>3 DEF t
  <2>8. CASE ~(AutoGo /\ announced.members[r] # <<>>)
    BY <2>1, <2>6, <2>8 DEF Ends
  <2>. QED
    BY <2>7, <2>8
<1>. QED
  BY <1>1, <1>2, JoinCases

(* on_go starts the caller's room or does nothing.                         *)
LEMMA GoCases ==
  ASSUME NEW s, Agree(s), NEW c \in Client, Go(s, c) # s
  PROVE  \E r \in RoomId : /\ s.members[r] # <<>> /\ r \notin s.started
                           /\ Go(s, c) = StartRoom(s, r)
<1>1. s.room[c] # None /\ s.room[c] \notin s.started
      /\ Go(s, c) = StartRoom(s, s.room[c])
  BY DEF Go
<1>. QED
  BY <1>1, PartnerSits

LEMMA GoMatches ==
  ASSUME NEW s, Agree(s), NEW c \in Client
  PROVE  Matches(s, Go(s, c))
<1>1. CASE Go(s, c) = s
  BY <1>1, SameEnds DEF Ends
<1>2. CASE Go(s, c) # s
  BY <1>2, GoCases, StartRoomMatches
<1>. QED
  BY <1>1, <1>2

(* The relayed frame types of handle go to the other member.               *)
LEMMA RelayedCases ==
  ASSUME NEW s, Agree(s), NEW c \in Client, Relayed(s, c) # s
  PROVE  \E d \in Client : Relayed(s, c) = Send(s, d, "DATA")
<1>1. s.room[c] # None /\ Relayed(s, c) = Send(s, Partner(s, c), "DATA")
  BY DEF Relayed
<1>. QED
  BY <1>1, PartnerSits

LEMMA RelayedEnds ==
  ASSUME NEW s, Agree(s), NEW c \in Client
  PROVE  Ends(s, Relayed(s, c))
<1>1. CASE Relayed(s, c) = s
  BY <1>1, SameEnds
<1>2. CASE Relayed(s, c) # s
  BY <1>2, RelayedCases, SendEnds
<1>. QED
  BY <1>1, <1>2

-----------------------------------------------------------------------------
(* Steps.                                                                  *)

(* Which sends of a step fail is no part of a match.                       *)
LEMMA StepMatches ==
  ASSUME NEW s, Agree(s), NEW k \in Fuses(s), NEW h, Matches(Armed(s, k), h)
  PROVE  Matches(s, Rest(h))
<1> DEFINE a == Armed(s, k)
           t == Rest(h)
<1>1. Unmoved(s, a) /\ a.told = s.told
  BY FuseUnmoved DEF Agree
<1>2. Matches(a, h)
  OBVIOUS
<1> HIDE DEF a
<1>3. Unmoved(h, t) /\ t.told = h.told /\ Agree(t)
  BY <1>2, FuseUnmoved, UnmovedAgree DEF Matches, Agree
<1> HIDE DEF t
<1>4. Matches(s, t)
  BY <1>1, <1>2, <1>3 DEF Matches, Stays, Over, InRoom, Unmoved
<1>. QED
  BY <1>4 DEF t

(* A step but a connect.                                                   *)
LEMMA HandlerMatches ==
  ASSUME Agree(srv), Next, ~Connect
  PROVE  Matches(srv, srv')
<1>0. srv.live \subseteq Client
  BY DEF Agree, Server
<1>1. \A k \in Fuses(srv) : Agree(Armed(srv, k))
  BY FuseUnmoved, UnmovedAgree DEF Agree
<1>2. ASSUME NEW k \in Fuses(srv), NEW h, Matches(Armed(srv, k), h),
             srv' = Rest(h)
      PROVE  Matches(srv, srv')
  BY <1>2, StepMatches
<1>3. CASE OnHello
  BY <1>0, <1>1, <1>2, <1>3, HelloEnds DEF OnHello, Ends
<1>4. CASE OnList
  BY <1>0, <1>1, <1>2, <1>4, SendEnds DEF OnList, List, Ends
<1>5. CASE OnJoin
  BY <1>0, <1>1, <1>2, <1>5, JoinMatches DEF OnJoin
<1>6. CASE OnGo
  BY <1>0, <1>1, <1>2, <1>6, GoMatches DEF OnGo
<1>7. CASE OnRelay
  BY <1>0, <1>1, <1>2, <1>7, RelayedEnds DEF OnRelay, Ends
<1>8. CASE Leave
  BY <1>0, <1>1, <1>2, <1>8, DropEnds DEF Leave, Ends
<1>. QED
  BY <1>3, <1>4, <1>5, <1>6, <1>7, <1>8 DEF Next

(* A connection that opens is in no room, so that no match is about it.    *)
LEMMA NextMatches ==
  ASSUME Agree(srv), Next
  PROVE  /\ Agree(srv')
         /\ \A r \in srv.started : Stays(srv, srv', r) \/ Over(srv, srv', r)
<1>1. CASE Connect
  <2>1. PICK c \in Client : Free(srv, c) /\ srv' = Accept(srv, c)
    BY <1>1 DEF Connect
  <2>. QED
    BY <2>1, AcceptAgree DEF Stays
<1>2. CASE ~Connect
  BY <1>2, HandlerMatches DEF Matches
<1>. QED
  BY <1>1, <1>2

(* The rooms and the members agree.                                        *)
LEMMA AgreeAlways == Spec => []Agree(srv)
<1>1. Init => Agree(srv)
  <2>1. Empty \in Server
    BY EmptyWell DEF Well
  <2>. QED
    BY <2>1, RelayAssumption DEF Init, Empty, Agree, Seating, InRoom
<1>2. Agree(srv) /\ [Next]_srv => Agree(srv)'
  BY NextMatches
<1>. QED
  BY <1>1, <1>2, PTL DEF Spec

(* The memory of either relay keeps its types.                             *)
THEOREM TypeCorrect == Spec => []TypeOK
<1>1. Agree(srv) => TypeOK
  BY DEF Agree, TypeOK
<1>. QED
  BY <1>1, AgreeAlways, PTL

(* In either relay a match ends only with a member's connection, by the    *)
(* drop of that member, which tells the survivor; until then nobody        *)
(* changes seats.                                                          *)
THEOREM MatchEndsCorrect == Spec => MatchEnds
<1> DEFINE Step ==
      \A r \in srv.started :
       \/ r \in srv'.started /\ srv'.members[r] = srv.members[r]
       \/ /\ r \notin srv'.started
          /\ ~(InRoom(srv, r) \subseteq srv'.live)
          /\ \A c \in InRoom(srv, r) \cap srv'.live : srv'.told[c].dropped
<1>1. Agree(srv) /\ [Next]_srv => [Step]_srv
  <2>1. ASSUME Agree(srv), Next PROVE Step
    BY <2>1, NextMatches DEF Stays, Over
  <2>. QED
    BY <2>1
<1>. QED
  BY <1>1, AgreeAlways, PTL DEF Spec, MatchEnds
-----------------------------------------------------------------------------
(* What the Python relay tells its consoles.                               *)
(*                                                                         *)
(* Inside a handler the members of one room may still have to hear of it   *)
(* (ahead): the frame that tells them is on its way, and if one of them    *)
(* drops meanwhile, the goodbye to the other makes it right.  The C relay  *)
(* sends on to the other after that goodbye, which may make it wrong.      *)

(* The view v is right for c.                                              *)
Right(v, s, c) ==
  v.dropped \/ /\ s.room[c] = None => v.cnt = 0 /\ ~v.active
               /\ s.room[c] # None => v.cnt = 2
               /\ s.room[c] \in s.started <=> v.active

(* It will be once a ROOM 0 is read.                                       *)
Ready(v, s, c) == v.dropped \/ s.room[c] \in s.started \/ ~v.active

Informed(s, ahead) ==
  /\ Agree(s)
  /\ \A c \in s.live : /\ Ready(s.told[c], s, c)
                       /\ c \notin ahead => Right(s.told[c], s, c)

(* Those ahead are members of c's room.                                    *)
Mates(s, c, ahead) ==
  ahead = {} \/ (s.room[c] # None /\ ahead \subseteq InRoom(s, s.room[c]))

(* Published counts, names and fuses are nobody's view.                    *)
LEMMA StillInformed ==
  ASSUME NEW s, NEW t, NEW ahead, Informed(s, ahead), Unmoved(s, t),
         t.told = s.told
  PROVE  Informed(t, ahead)
BY UnmovedAgree DEF Informed, Unmoved, Right, Ready

(* drop leaves everyone right who is left, the partner included.           *)
LEMMA DropInforms ==
  ASSUME NEW s, NEW ahead, Informed(s, ahead), NEW c \in s.live,
         Mates(s, c, ahead)
  PROVE  LET t == Drop(s, c)
         IN  /\ Informed(t, {}) /\ t.started \subseteq s.started
             /\ s.room[c] # None => t.members[s.room[c]] = <<>>
<1> DEFINE t == Drop(s, c)
<1>0. Agree(s) /\ s \in Server /\ c \in Client
  BY DEF Informed, Agree, Server
<1>1. CASE s.room[c] = None
  <2>1. ahead = {}
    BY <1>1 DEF Mates
  <2> DEFINE u == Unlist(s, c)
  <2>2. t = u
    BY <1>1 DEF Drop
  <2>3. /\ u \in Server /\ u.live = s.live \ {c} /\ u.room = s.room
        /\ u.members = s.members /\ u.started = s.started /\ u.told = s.told
    BY <1>0, UnlistDoes, UnlistTold
  <2> HIDE DEF t, u
  <2>4. Informed(u, {})
    BY <2>1, <2>3 DEF Informed, Agree, Seating, Right, Ready, InRoom
  <2>. QED
    BY <1>1, <2>2, <2>3, <2>4 DEF t
<1>2. CASE s.room[c] # None
  <2> DEFINE r == s.room[c]
             p == Partner(s, c)
             news == IF r \in s.started THEN "LEFT" ELSE "ROOM0"
  <2>1. r \in RoomId /\ p \in Client /\ p # c /\ InRoom(s, r) = {c, p}
    BY <1>0, <1>2, PartnerSits
  <2>2. Dissolved(s, t, c)
    BY <1>0, <1>2, DropDissolves
  <2>3. Agree(t) /\ t.members[r] = <<>>
    BY <1>0, <1>2, <2>2, DissolvedAgree
  <2> HIDE DEF t, p
  <2>4. /\ t \in Server /\ t.live \subseteq s.live \ {c}
        /\ t.room = [d \in Client |-> IF s.room[d] = r THEN None ELSE s.room[d]]
        /\ t.started = s.started \ {r}
        /\ \A d \in Client : d # p => t.told[d] = s.told[d]
        /\ p \in t.live => t.told[p] = Read(s.told[p], news)
    BY <2>2 DEF Dissolved, p
  <2> HIDE DEF r, news
  <2>5. /\ t.live \subseteq Client /\ t.started \subseteq RoomId
        /\ None \notin RoomId
    BY <2>4, RelayAssumption DEF Server
  <2>6. ahead \subseteq {c, p}
    BY <1>2, <2>1 DEF Mates, r
  <2>7. ASSUME NEW d \in t.live, d = p PROVE Right(t.told[d], t, d)
    <3>1. t.told[p] = Read(s.told[p], news)
      BY <2>4, <2>7
    <3>2. s.room[p] = r /\ t.room[p] = None /\ None \notin t.started
      BY <2>1, <2>4, <2>5 DEF InRoom
    <3>3. s.told[p] \in View
      BY <1>0, <2>1 DEF Server
    <3>4. s.told[p].dropped \/ r \in s.started \/ ~s.told[p].active
      BY <2>4, <2>7, <3>2 DEF Informed, Ready
    <3>5. CASE s.told[p].dropped \/ r \in s.started
      BY <3>1, <3>3, <3>5, <2>7, ReadKeeps DEF news, Right
    <3>6. CASE ~s.told[p].dropped /\ r \notin s.started
      <4>1. t.told[p] = [s.told[p] EXCEPT !.cnt = 0]
        BY <3>1, <3>4, <3>6 DEF news, Read
      <4>2. t.told[p].cnt = 0 /\ ~t.told[p].active
        BY <3>3, <3>4, <3>6, <4>1 DEF View
      <4>. QED
        BY <2>7, <3>2, <4>2 DEF Right
    <3>. QED
      BY <3>5, <3>6
  <2>8. ASSUME NEW d \in t.live, d # p PROVE Right(t.told[d], t, d)
    <3>1. d \in Client /\ d \in s.live /\ d # c
      BY <2>4, <2>5
    <3>2. s.room[d] # r /\ t.room[d] = s.room[d]
      BY <2>1, <2>4, <2>8, <3>1 DEF InRoom
    <3>3. Right(s.told[d], s, d)
      BY <2>6, <2>8, <3>1 DEF Informed
    <3>4. t.told[d] = s.told[d]
      BY <2>4, <2>8, <3>1
    <3>5. t.room[d] \in t.started <=> s.room[d] \in s.started
      BY <2>4, <3>2
    <3>. QED
      BY <3>2, <3>3, <3>4, <3>5 DEF Right
  <2>9. ASSUME NEW d \in t.live
        PROVE  Right(t.told[d], t, d) /\ Ready(t.told[d], t, d)
    BY <2>7, <2>8 DEF Right, Ready
  <2>10. Informed(t, {})
    BY <2>3, <2>9 DEF Informed
  <2>. QED
    BY <2>3, <2>4, <2>10 DEF t, r
<1>. QED
  BY <1>1, <1>2

(* What one send of a broadcast achieves: either the room is gone and all  *)
(* is right, or there is one less to be told.                              *)
Sent(s, t, c, ahead) ==
  \/ /\ Informed(t, {}) /\ t.started \subseteq s.started
     /\ s.room[c] # None => t.members[s.room[c]] = <<>>
  \/ /\ Unmoved(s, t) /\ Informed(t, ahead \ {c})
     /\ \A d \in Client : d # c => t.told[d] = s.told[d]

(* send_raw, of a frame that makes c's view right                          *)
LEMMA SendInforms ==
  ASSUME NEW s, NEW ahead, Informed(s, ahead), NEW c \in Client, NEW f,
         Mates(s, c, ahead),
         c \in s.live => Right(Read(s.told[c], f), s, c)
  PROVE  Sent(s, Send(s, c, f), c, ahead)
<1> DEFINE t == Send(s, c, f)
<1>0. Agree(s) /\ s \in Server
  BY DEF Informed, Agree
<1>1. CASE c \in s.live /\ t = Drop(s, c)
  BY <1>1, DropInforms DEF Sent
<1>2. CASE c \notin s.live
  <2>1. t = s
    BY <1>2 DEF Send, Push
  <2>2. Unmoved(s, s) /\ Informed(s, ahead \ {c})
    BY <1>0, <1>2 DEF Unmoved, Informed
  <2>. QED
    BY <2>1, <2>2 DEF Sent
<1>3. CASE c \in s.live /\ t # Drop(s, c)
  <2>1. /\ Unmoved(s, t)
        /\ \A d \in Client : d # c => t.told[d] = s.told[d]
        /\ c \in t.live => t.told[c] = Read(s.told[c], f)
    BY <1>0, <1>3, PushTells DEF Send
  <2> HIDE DEF t
  <2>2. Agree(t) /\ t.live = s.live /\ t.live \subseteq Client
    BY <1>0, <2>1, UnmovedAgree DEF Unmoved, Server
  <2>3. ASSUME NEW d \in t.live
        PROVE  /\ Ready(t.told[d], t, d)
               /\ d \notin ahead \ {c} => Right(t.told[d], t, d)
    <3>1. CASE d = c
      <4>1. Right(t.told[d], t, d)
        BY <1>3, <2>1, <2>2, <3>1 DEF Right, Unmoved
      <4>. QED
        BY <4>1 DEF Right, Ready
    <3>2. CASE d # c
      <4>1. t.told[d] = s.told[d] /\ d \in s.live
        BY <2>1, <2>2, <3>2
      <4>2. /\ Ready(s.told[d], s, d)
            /\ d \notin ahead => Right(s.told[d], s, d)
        BY <4>1 DEF Informed
      <4>. QED
        BY <2>1, <3>2, <4>1, <4>2 DEF Unmoved, Right, Ready
    <3>. QED
      BY <3>1, <3>2
  <2>4. Informed(t, ahead \ {c})
    BY <2>2, <2>3 DEF Informed
  <2>. QED
    BY <2>1, <2>4 DEF t, Sent
<1>. QED
  BY <1>1, <1>2, <1>3

(* Everyone is told, and no match has begun meanwhile.                     *)
AllTold(s, t) == Informed(t, {}) /\ t.started \subseteq s.started

(* room_broadcast, of the frame that makes the members' views right        *)
LEMMA BroadcastInforms ==
  ASSUME Impl = "py",
         NEW s, NEW r \in RoomId, Informed(s, InRoom(s, r)),
         s.members[r] # <<>>, NEW f,
         \A d \in InRoom(s, r) \cap s.live : Right(Read(s.told[d], f), s, d)
  PROVE  AllTold(s, Broadcast(s, r, f))
<1> DEFINE a == s.members[r][1]
           b == s.members[r][2]
           t == Send(s, a, f)
           u == Send(t, b, f)
<1>1. /\ a # b /\ InRoom(s, r) = {a, b}
      /\ a \in Client /\ b \in Client /\ s.room[a] = r /\ s.room[b] = r
      /\ r # None
  BY MembersSit, RelayAssumption DEF Informed
<1>2. Broadcast(s, r, f) = IF t.members[r] = <<>> THEN t ELSE u
  BY DEF Broadcast
<1> HIDE DEF a, b
<1>3. Sent(s, t, a, {a, b})
  <2>1. Informed(s, {a, b}) /\ Mates(s, a, {a, b})
    BY <1>1 DEF Mates
  <2>2. a \in s.live => Right(Read(s.told[a], f), s, a)
    BY <1>1
  <2>. QED
    BY <1>1, <2>1, <2>2, SendInforms
<1> HIDE DEF t
<1>4. CASE t.members[r] = <<>>
  <2>1. Informed(t, {}) /\ t.started \subseteq s.started
    BY <1>1, <1>3, <1>4 DEF Sent, Unmoved
  <2>. QED
    BY <1>2, <1>4, <2>1 DEF AllTold
<1>5. CASE t.members[r] # <<>>
  <2>1. /\ Unmoved(s, t) /\ Informed(t, {a, b} \ {a})
        /\ \A d \in Client : d # a => t.told[d] = s.told[d]
    BY <1>1, <1>3, <1>5 DEF Sent
  <2>2. Informed(t, {b}) /\ Mates(t, b, {b})
    <3>1. {a, b} \ {a} = {b}
      BY <1>1
    <3>. QED
      BY <1>1, <2>1, <3>1 DEF Mates, Unmoved, InRoom
  <2>3. b \in t.live => Right(Read(t.told[b], f), t, b)
    BY <1>1, <2>1 DEF Unmoved, Right
  <2>4. Sent(t, u, b, {b})
    BY <1>1, <2>2, <2>3, SendInforms
  <2> HIDE DEF u
  <2>5. Informed(u, {})
    <3>1. {b} \ {b} = {}
      OBVIOUS
    <3>. QED
      BY <2>4, <3>1 DEF Sent
  <2>6. u.started \subseteq s.started
    BY <2>1, <2>4 DEF Sent, Unmoved
  <2>. QED
    BY <1>2, <1>5, <2>5, <2>6 DEF AllTold
<1>. QED
  BY <1>4, <1>5

(* A frame that says nothing of rooms and matches, to anyone.              *)
LEMMA NewsInforms ==
  ASSUME NEW s, Informed(s, {}), NEW c \in Client, NEW f \in {"LOBBY", "DATA"}
  PROVE  AllTold(s, Send(s, c, f))
<1>1. Read(s.told[c], f) = s.told[c]
  BY DEF Read
<1>2. c \in s.live => Right(Read(s.told[c], f), s, c)
  BY <1>1 DEF Informed
<1>3. Sent(s, Send(s, c, f), c, {})
  BY <1>2, SendInforms DEF Mates
<1>4. {} \ {c} = {}
  OBVIOUS
<1>. QED
  BY <1>3, <1>4 DEF Sent, AllTold, Unmoved

(* drop, of anyone                                                         *)
LEMMA LeaveInforms ==
  ASSUME NEW s, Informed(s, {}), NEW c \in Client
  PROVE  AllTold(s, Drop(s, c))
<1>1. CASE c \notin s.live
  BY <1>1 DEF Drop, AllTold
<1>2. CASE c \in s.live
  BY <1>2, DropInforms DEF Mates, AllTold
<1>. QED
  BY <1>1, <1>2

(* lobby_update                                                            *)
LEMMA PublishInforms ==
  ASSUME NEW s, Informed(s, {})
  PROVE  AllTold(s, Publish(s)) /\ Publish(s).members = s.members
<1>1. Unmoved(s, Publish(s)) /\ Publish(s).told = s.told
  BY PublishLeaves DEF Informed, Agree
<1>. QED
  BY <1>1, StillInformed DEF AllTold, Unmoved

(* start_room tells both members, who have read ROOM 2.                    *)
LEMMA StartRoomInforms ==
  ASSUME Impl = "py",
         NEW s, Informed(s, {}), NEW r \in RoomId, s.members[r] # <<>>
  PROVE  Informed(StartRoom(s, r), {})
<1> DEFINE b == [s EXCEPT !.started = @ \cup {r}]
           u == Broadcast(b, r, "START")
<1>1. /\ b \in Server /\ b.started = s.started \cup {r} /\ b.told = s.told
      /\ b.live = s.live /\ b.room = s.room /\ b.members = s.members
  BY DEF Informed, Agree, Server
<1>2. StartRoom(s, r) = Publish(u)
  BY DEF StartRoom
<1> HIDE DEF b
<1>3. /\ b.live \subseteq Client /\ b.told \in [Client -> View]
      /\ r # None /\ InRoom(b, r) = InRoom(s, r)
  BY <1>1, RelayAssumption DEF Server, InRoom
<1>4. Agree(b)
  BY <1>1 DEF Informed, Agree, Seating, InRoom
<1>5. ASSUME NEW d \in b.live
      PROVE  /\ Ready(b.told[d], b, d)
             /\ s.room[d] # r => Right(b.told[d], b, d)
             /\ s.room[d] = r => Right(Read(b.told[d], "START"), b, d)
  <2>1. Right(s.told[d], s, d) /\ Ready(s.told[d], s, d)
    BY <1>1 DEF Informed
  <2>2. Ready(b.told[d], b, d)
    BY <1>1, <2>1 DEF Ready
  <2>3. s.room[d] # r => Right(b.told[d], b, d)
    BY <1>1, <2>1 DEF Right
  <2>4. ASSUME s.room[d] = r PROVE Right(Read(b.told[d], "START"), b, d)
    <3>1. b.told[d] \in View
      BY <1>3
    <3>2. Read(b.told[d], "START") = [b.told[d] EXCEPT !.active = TRUE]
      BY DEF Read
    <3>3. b.told[d].dropped \/ b.told[d].cnt = 2
      BY <1>1, <1>3, <2>1, <2>4 DEF Right
    <3>. QED
      BY <1>1, <1>3, <2>4, <3>1, <3>2, <3>3 DEF Right, View
  <2>. QED
    BY <2>2, <2>3, <2>4
<1>6. Informed(b, InRoom(b, r))
  BY <1>1, <1>3, <1>4, <1>5 DEF Informed, InRoom
<1>7. \A d \in InRoom(b, r) \cap b.live : Right(Read(b.told[d], "START"), b, d)
  BY <1>3, <1>5 DEF InRoom
<1>8. AllTold(b, u)
  BY <1>1, <1>6, <1>7, BroadcastInforms
<1> HIDE DEF u
<1>. QED
  BY <1>2, <1>8, PublishInforms DEF AllTold

(* on_hello                                                                *)
LEMMA HelloInforms ==
  ASSUME Impl = "py",
         NEW s, Informed(s, {}), NEW c \in Client, NEW n \in Name
  PROVE  Informed(Hello(s, c, n), {})
<1> DEFINE freed == IF s.entry[n] \in {None, c} THEN s ELSE Drop(s, s.entry[n])
           named == Rename(freed, c, n)
           shown == Publish(named)
<1>1. s.entry[n] \in Client \cup {None}
  BY DEF Informed, Agree, Server
<1>2. Informed(freed, {})
  BY <1>1, LeaveInforms DEF AllTold
<1>3. Hello(s, c, n) = Send(shown, c, "LOBBY")
  BY DEF Hello, List
<1> HIDE DEF freed
<1>4. Unmoved(freed, named) /\ named.told = freed.told
  BY <1>2 DEF Rename, Informed, Agree, Unmoved, Server
<1> HIDE DEF named
<1>5. Informed(shown, {})
  BY <1>2, <1>4, StillInformed, PublishInforms DEF AllTold
<1> HIDE DEF shown
<1>. QED
  BY <1>3, <1>5, NewsInforms DEF AllTold

(* The members of r are told as soon as they read ROOM 2.                  *)
Greeted(s, r) ==
  /\ Informed(s, InRoom(s, r)) /\ s.members[r] # <<>>
  /\ \A d \in InRoom(s, r) \cap s.live : Right(Read(s.told[d], "ROOM2"), s, d)

LEMMA GivenGreeted ==
  ASSUME NEW s, Informed(s, {}), NEW r \in RoomId, NEW h \in Client,
         NEW c \in Client, s.room[h] = None, s.room[c] = None,
         NEW t, Given(s, t, h, c, r)
  PROVE  Greeted(t, r)
<1>0. /\ s.room \in [Client -> RoomId \cup {None}] /\ s.live \subseteq Client
      /\ s.told \in [Client -> View] /\ s.started \subseteq RoomId
      /\ None \notin RoomId
  BY RelayAssumption DEF Informed, Agree, Server
<1>1. /\ Agree(t) /\ InRoom(t, r) = {h, c} /\ t.members[r] # <<>>
      /\ t.started = s.started /\ t.told = s.told /\ t.live = s.live
      /\ t.room = [s.room EXCEPT ![h] = r, ![c] = r] /\ r \notin s.started
  BY DEF Given
<1>2. ASSUME NEW d \in t.live
      PROVE  /\ Ready(t.told[d], t, d)
             /\ d \notin {h, c} => Right(t.told[d], t, d)
             /\ d \in {h, c} => Right(Read(t.told[d], "ROOM2"), t, d)
  <2>1. Right(s.told[d], s, d) /\ d \in Client
    BY <1>0, <1>1 DEF Informed
  <2>2. CASE d \notin {h, c}
    <3>1. t.room[d] = s.room[d]
      BY <1>0, <1>1, <2>1, <2>2
    <3>. QED
      BY <1>1, <2>1, <2>2, <3>1 DEF Right, Ready
  <2>3. CASE d \in {h, c}
    <3>1. t.room[d] = r /\ s.room[d] = None
      BY <1>0, <1>1, <2>1, <2>3
    <3>2. t.told[d].dropped \/ ~t.told[d].active
      BY <1>1, <2>1, <3>1 DEF Right
    <3>3. t.told[d] \in View
      BY <1>0, <1>1, <2>1
    <3>4. CASE t.told[d].dropped
      BY <2>3, <3>3, <3>4 DEF Right, Ready, Read, View
    <3>5. CASE ~t.told[d].dropped /\ ~t.told[d].active
      <4>1. Read(t.told[d], "ROOM2") = [t.told[d] EXCEPT !.cnt = 2]
        BY <3>5 DEF Read
      <4>. QED
        BY <1>0, <1>1, <2>3, <3>1, <3>3, <3>5, <4>1 DEF Right, Ready, View
    <3>. QED
      BY <3>2, <3>4, <3>5
  <2>. QED
    BY <2>2, <2>3
<1>3. Informed(t, InRoom(t, r))
  BY <1>1, <1>2 DEF Informed
<1>4. \A d \in InRoom(t, r) \cap t.live :
        Right(Read(t.told[d], "ROOM2"), t, d)
  BY <1>1, <1>2
<1>. QED
  BY <1>1, <1>3, <1>4 DEF Greeted

(* on_join: the host may be a connection that is closed; the name table    *)
(* has it still.                                                           *)
LEMMA JoinInforms ==
  ASSUME Impl = "py",
         NEW s, Informed(s, {}), NEW c \in Client, NEW n \in Name
  PROVE  Informed(Join(s, c, n), {})
<1>0. Agree(s)
  BY DEF Informed
<1>1. CASE Join(s, c, n) \in {s, Drop(s, c), List(s, c)}
  BY <1>1, LeaveInforms, NewsInforms DEF List, AllTold
<1>2. ASSUME NEW r \in RoomId, Invited(s, c, n, r)
      PROVE  Informed(Join(s, c, n), {})
  <2> DEFINE h == s.entry[n]
             joined == [s EXCEPT !.room[h] = r, !.room[c] = r,
                                 !.members[r] = <<h, c>>]
             told == Broadcast(joined, r, "ROOM2")
             announced == Publish(told)
  <2>1. /\ s.members[r] = <<>> /\ h \in Client /\ h # c
        /\ s.room[h] = None /\ s.room[c] = None
        /\ Join(s, c, n) = IF AutoGo /\ announced.members[r] # <<>>
                           THEN StartRoom(announced, r) ELSE announced
    BY <1>2 DEF Invited
  <2> HIDE DEF h
  <2>2. Given(s, joined, h, c, r)
    BY <1>0, <2>1, SeatsAgree
  <2> HIDE DEF joined
  <2>3. Greeted(joined, r)
    BY <2>1, <2>2, GivenGreeted
  <2>4. AllTold(joined, told)
    BY <2>3, BroadcastInforms DEF Greeted
  <2> HIDE DEF told
  <2>5. Informed(announced, {})
    BY <2>4, PublishInforms DEF AllTold
  <2> HIDE DEF announced
  <2>6. CASE AutoGo /\ announced.members[r] # <<>>
    BY <2>1, <2>5, <2>6, StartRoomInforms
  <2>7. CASE ~(AutoGo /\ announced.members[r] # <<>>)
    BY <2>1, <2>5, <2>7
  <2>. QED
    BY <2>6, <2>7
<1>. QED
  BY <1>0, <1>1, <1>2, JoinCases

(* on_go                                                                   *)
LEMMA GoInforms ==
  ASSUME Impl = "py", NEW s, Informed(s, {}), NEW c \in Client
  PROVE  Informed(Go(s, c), {})
<1>1. CASE Go(s, c) = s
  BY <1>1
<1>2. CASE Go(s, c) # s
  BY <1>2, GoCases, StartRoomInforms DEF Informed
<1>. QED
  BY <1>1, <1>2

(* The relayed frame types of handle.                                      *)
LEMMA RelayedInforms ==
  ASSUME NEW s, Informed(s, {}), NEW c \in Client
  PROVE  Informed(Relayed(s, c), {})
<1>1. CASE Relayed(s, c) = s
  BY <1>1
<1>2. CASE Relayed(s, c) # s
  <2>1. PICK d \in Client : Relayed(s, c) = Send(s, d, "DATA")
    BY <1>2, RelayedCases DEF Informed
  <2>. QED
    BY <2>1, NewsInforms DEF AllTold
<1>. QED
  BY <1>1, <1>2

(* accept_client                                                           *)
LEMMA AcceptInforms ==
  ASSUME NEW s, Informed(s, {}), NEW c \in Client, Free(s, c)
  PROVE  Informed(Accept(s, c), {})
<1> DEFINE t == Accept(s, c)
<1>1. /\ Agree(t) /\ t.live = s.live \cup {c} /\ t.room = s.room
      /\ t.members = s.members /\ t.started = s.started
      /\ t.told = [s.told EXCEPT ![c] = NewView]
  BY AcceptAgree DEF Informed
<1> HIDE DEF t
<1>2. /\ s.live \subseteq Client /\ s.told \in [Client -> View]
      /\ s.started \subseteq RoomId /\ None \notin RoomId
  BY RelayAssumption DEF Informed, Agree, Server
<1>3. ASSUME NEW d \in t.live, d = c PROVE Right(t.told[d], t, d)
  <2>1. t.told[d] = NewView /\ t.room[d] = None /\ None \notin t.started
    BY <1>1, <1>2, <1>3 DEF Free
  <2>. QED
    BY <2>1 DEF Right, NewView
<1>4. ASSUME NEW d \in t.live, d # c PROVE Right(t.told[d], t, d)
  <2>1. d \in s.live /\ t.told[d] = s.told[d]
    BY <1>1, <1>2, <1>4
  <2>. QED
    BY <1>1, <2>1 DEF Informed, Right
<1>5. \A d \in t.live : Right(t.told[d], t, d) /\ Ready(t.told[d], t, d)
  BY <1>3, <1>4 DEF Right, Ready
<1>. QED
  BY <1>1, <1>5 DEF Informed, t

(* Which sends of a step fail is told to nobody.                           *)
LEMMA FuseInforms ==
  ASSUME NEW s, Informed(s, {})
  PROVE  /\ \A k \in Fuses(s) : Informed(Armed(s, k), {})
         /\ Informed(Rest(s), {})
<1>1. s \in Server
  BY DEF Informed, Agree
<1>2. ASSUME NEW k \in Fuses(s) PROVE Informed(Armed(s, k), {})
  BY <1>1, FuseUnmoved, StillInformed
<1>3. Informed(Rest(s), {})
  BY <1>1, FuseUnmoved, StillInformed
<1>. QED
  BY <1>2, <1>3

(* Every step leaves every view right.                                     *)
LEMMA NextInforms ==
  ASSUME Impl = "py", Informed(srv, {}), Next
  PROVE  Informed(srv', {})
<1>0. srv.live \subseteq Client
  BY DEF Informed, Agree, Server
<1>1. CASE Connect
  BY <1>1, AcceptInforms DEF Connect
<1>2. CASE OnHello
  BY <1>0, <1>2, FuseInforms, HelloInforms DEF OnHello
<1>3. CASE OnList
  BY <1>0, <1>3, FuseInforms, NewsInforms DEF OnList, List, AllTold
<1>4. CASE OnJoin
  BY <1>0, <1>4, FuseInforms, JoinInforms DEF OnJoin
<1>5. CASE OnGo
  BY <1>0, <1>5, FuseInforms, GoInforms DEF OnGo
<1>6. CASE OnRelay
  BY <1>0, <1>6, FuseInforms, RelayedInforms DEF OnRelay
<1>7. CASE Leave
  BY <1>0, <1>7, FuseInforms, LeaveInforms DEF Leave, AllTold
<1>. QED
  BY <1>1, <1>2, <1>3, <1>4, <1>5, <1>6, <1>7 DEF Next

(* What the Python relay has told a console that is connected and has      *)
(* heard no goodbye is where that console is: its room, and whether the    *)
(* match in it has begun; though sends fail inside handlers, and though a  *)
(* closed connection may be given a seat.                                  *)
THEOREM ToldCorrect ==
  ASSUME Impl = "py"
  PROVE  Spec => []ToldRight
<1>1. Init => Informed(srv, {})
  <2>1. Empty \in Server
    BY EmptyWell DEF Well
  <2>. QED
    BY <2>1, RelayAssumption
       DEF Init, Empty, Informed, Agree, Seating, InRoom
<1>2. Informed(srv, {}) /\ [Next]_srv => Informed(srv, {})'
  BY NextInforms
<1>3. Informed(srv, {}) => ToldRight
  BY DEF Informed, Right, ToldRight
<1>. QED
  BY <1>1, <1>2, <1>3, PTL DEF Spec
=============================================================================
