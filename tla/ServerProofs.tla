---------------------------- MODULE ServerProofs ----------------------------
(***************************************************************************)
(* What the handlers of the Python server keep, for any number of          *)
(* connections, names and rooms, whichever sends fail.                     *)
(*                                                                         *)
(* Good is the invariant: the memory is well formed, rooms and clients     *)
(* agree, the dict has one entry for every connected player, under its own *)
(* name, and no more connections are open than the limit allows.           *)
(***************************************************************************)
EXTENDS Server, TLAPS, SequenceTheorems, FiniteSetTheorems

-----------------------------------------------------------------------------
(* Keep.                                                                   *)

Counts(K) == [k \in K |-> Cardinality({j \in K : j <= k})]

(* Counting the places up to it numbers the places of a finite set.        *)
LEMMA CountsNumber ==
  ASSUME NEW K \in SUBSET Nat, IsFiniteSet(K)
  PROVE  /\ Cardinality(K) \in Nat
         /\ Counts(K) \in Injection(K, 1 .. Cardinality(K))
         /\ Counts(K) \in Surjection(K, 1 .. Cardinality(K))
<1> DEFINE n == Cardinality(K)
           f == Counts(K)
           B(k) == {j \in K : j <= k}
<1>1. n \in Nat
  BY FS_CardinalityType
<1>2. ASSUME NEW k \in K
      PROVE  IsFiniteSet(B(k)) /\ Cardinality(B(k)) \in 1 .. n
  <2>1. B(k) \subseteq K /\ k \in B(k)
    OBVIOUS
  <2> HIDE DEF B
  <2>2. IsFiniteSet(B(k)) /\ Cardinality(B(k)) <= n
    BY <2>1, FS_Subset
  <2>3. Cardinality(B(k)) \in Nat
    BY <2>2, FS_CardinalityType
  <2>4. Cardinality(B(k)) # 0
    BY <2>1, <2>2, FS_EmptySet
  <2>. QED
    BY <1>1, <2>2, <2>3, <2>4
<1>3. ASSUME NEW k \in K, NEW l \in K, Cardinality(B(k)) = Cardinality(B(l)), k < l
      PROVE  FALSE
  <2>0. k \in Int /\ l \in Int /\ ~(l <= k) /\ l <= l
    BY <1>3
  <2>1. B(k) \subseteq B(l) /\ l \in B(l) /\ l \notin B(k)
    <3>1. \A j \in K : j <= k => j <= l
      BY <1>3, <2>0
    <3>. QED
      BY <2>0, <3>1
  <2> HIDE DEF B
  <2>2. B(l) = B(k)
    BY <1>2, <1>3, <2>1, FS_Subset
  <2>. QED
    BY <2>1, <2>2
<1>4. f \in [K -> 1 .. n] /\ \A k \in K : f[k] = Cardinality(B(k))
  BY <1>2 DEF Counts
<1> HIDE DEF f, B
<1>5. \A k, l \in K : f[k] = f[l] => k = l
  <2>1. SUFFICES ASSUME NEW k \in K, NEW l \in K, f[k] = f[l], k # l
                 PROVE  FALSE
    OBVIOUS
  <2>2. Cardinality(B(k)) = Cardinality(B(l))
    BY <1>4, <2>1
  <2>3. k < l \/ l < k
    BY <2>1
  <2>. QED
    BY <1>3, <2>2, <2>3
<1>6. f \in Injection(K, 1 .. n)
  BY <1>4, <1>5 DEF Injection, IsInjective
<1>7. IsFiniteSet(1 .. n) /\ Cardinality(1 .. n) = n
  BY <1>1, FS_Interval
<1>8. f \in Surjection(K, 1 .. n)
  BY <1>6, <1>7, FS_Injection
<1>. QED
  BY <1>1, <1>6, <1>8 DEF f

(* Keep lists the entries at K, each of them once.                         *)
LEMMA KeepDoes ==
  ASSUME NEW S, NEW q \in Seq(S), NEW K \in SUBSET DOMAIN q
  PROVE  LET p == Keep(q, K)
             n == Cardinality(K)
         IN  /\ n \in Nat /\ p \in Seq(S) /\ DOMAIN p = 1 .. n /\ Len(p) = n
             /\ \A i \in 1 .. n : Place(K, i) \in K /\ p[i] = q[Place(K, i)]
             /\ \A k \in K : \E i \in 1 .. n : Place(K, i) = k /\ p[i] = q[k]
             /\ \A i, j \in 1 .. n : Place(K, i) = Place(K, j) => i = j
<1> DEFINE p == Keep(q, K)
           n == Cardinality(K)
           f == Counts(K)
<1>1. K \in SUBSET Nat /\ IsFiniteSet(K) /\ \A k \in K : q[k] \in S
  <2>1. Len(q) \in Nat /\ DOMAIN q = 1 .. Len(q)
    OBVIOUS
  <2>2. IsFiniteSet(1 .. Len(q))
    BY <2>1, FS_Interval
  <2>. QED
    BY <2>1, <2>2, FS_Subset
<1>2. n \in Nat /\ f \in Injection(K, 1 .. n) /\ f \in Surjection(K, 1 .. n)
  BY <1>1, CountsNumber
<1>3. /\ f \in [K -> 1 .. n] /\ \A k, l \in K : f[k] = f[l] => k = l
      /\ \A i \in 1 .. n : \E k \in K : f[k] = i
  BY <1>2 DEF Injection, Surjection, IsInjective
<1>4. \A k \in K : f[k] = Cardinality({j \in K : j <= k})
  BY DEF Counts
<1> HIDE DEF f
<1>5. ASSUME NEW i \in 1 .. n
      PROVE  Place(K, i) \in K /\ f[Place(K, i)] = i
  <2>1. \E k \in K : Cardinality({j \in K : j <= k}) = i
    BY <1>3, <1>4
  <2>2. Place(K, i) \in K /\ Cardinality({j \in K : j <= Place(K, i)}) = i
    BY <2>1 DEF Place
  <2>. QED
    BY <1>4, <2>2
<1>6. \A i \in 1 .. n : p[i] = q[Place(K, i)]
  BY DEF Keep
<1>7. p \in [1 .. n -> S]
  BY <1>1, <1>5 DEF Keep
<1>8. p \in Seq(S) /\ DOMAIN p = 1 .. n /\ Len(p) = n
  BY <1>2, <1>7
<1> HIDE DEF p, n
<1>9. \A k \in K : Place(K, f[k]) = k
  BY <1>3, <1>5
<1>10. \A k \in K : \E i \in 1 .. n : Place(K, i) = k /\ p[i] = q[k]
  BY <1>3, <1>6, <1>9
<1>. QED
  BY <1>2, <1>5, <1>6, <1>8, <1>10 DEF p, n

-----------------------------------------------------------------------------
(* The frames of a session: what the handlers send, and what they take.    *)
Frame ==
  {<<"LOBBY", l>> : l \in Seq(Name \X Nat)} \cup {<<"ROOM", 0, <<>>>>}
    \cup {<<"ROOM", 2, <<a, b>>>> : a, b \in Name}
    \cup {<<"START", s, 2, Delay, <<a, b>>>> : s \in {0, 1}, a, b \in Name}
    \cup {<<"PEER_LEFT", s, n>> : s \in {0, 1}, n \in Name}
    \cup {<<"INPUT", s>> : s \in {0, 1}}

Asked ==
  {<<"HELLO", Version, n>> : n \in Name} \cup {<<"LIST">>, <<"GO">>}
    \cup {<<"JOIN", n>> : n \in Name} \cup {<<"INPUT", s>> : s \in {0, 1}}

EOF == <<"EOF">>
Out(m, c) == Frames(m.sent[c])

(* The invariant.                                                          *)
Typed(m) ==
  m \in [live : SUBSET Client, name : [Client -> Name \cup {None}],
         byName : Seq([name : Name, client : Client]),
         room : [Client -> RoomId \cup {None}], members : [RoomId -> Seq(Client)],
         started : SUBSET RoomId, crc : [RoomId -> SUBSET Report],
         ok : [RoomId -> Nat], sent : [Client -> Seq(Frame \cup {EOF})],
         log : {m.log}, fuse : [Client -> {-1, 0, 1}], autoGo : {0, 2}]

Sending(m) ==
  /\ \A c \in Client : Out(m, c) \in Seq(Frame)
  /\ \A c \in m.live : m.sent[c] = Out(m, c)

In(m, c, r) == m.room[c] = r
Rooms(m) ==
  /\ \A r \in RoomId :
       LET p == m.members[r]
       IN  \/ p = <<>> /\ r \notin m.started /\ \A c \in Client : ~In(m, c, r)
           \/ /\ Len(p) = 2 /\ p[1] # p[2]
              /\ \A c \in Client : In(m, c, r) => c \in {p[1], p[2]}
              /\ In(m, p[1], r) /\ In(m, p[2], r)
  /\ \A c \in Client : m.room[c] # None => c \in m.live /\ m.name[c] # None

Dict(m) ==
  /\ \A i \in DOMAIN m.byName :
       m.byName[i].client \in m.live /\ m.name[m.byName[i].client] = m.byName[i].name
  /\ \A i, j \in DOMAIN m.byName : m.byName[i].name = m.byName[j].name => i = j
  /\ \A c \in m.live : m.name[c] # None => \E i \in DOMAIN m.byName : m.byName[i].client = c

Few(m) == IsFiniteSet(m.live) /\ Cardinality(m.live) <= MaxPerIp
Tables(m) == \A r \in RoomId : IsFiniteSet(m.crc[r])

Good(m) ==
  Typed(m) /\ Sending(m) /\ Rooms(m) /\ Dict(m) /\ Few(m) /\ Tables(m)

(* The books of t are those of m; frames may have gone out and lines been  *)
(* written.                                                                *)
Alike(m, t) ==
  /\ Typed(t) /\ t.live = m.live /\ t.name = m.name /\ t.byName = m.byName
  /\ t.room = m.room /\ t.members = m.members /\ t.started = m.started
  /\ t.crc = m.crc /\ t.ok = m.ok /\ t.autoGo = m.autoGo
  /\ \A d \in Client : m.fuse[d] = -1 => t.fuse[d] = -1

Silent(m, t, D) == \A d \in D : Out(t, d) = Out(m, d)

Said(m, t, c, f) ==
  /\ Alike(m, t) /\ Sending(t) /\ Silent(m, t, Client \ {c})
  /\ Out(t, c) = Append(Out(m, c), f)

-----------------------------------------------------------------------------
(* The end of a connection is not a frame, and comes last.                 *)
LEMMA NoEOF == EOF \notin Frame
<1>1. ASSUME NEW x \in Frame, x[1] = "EOF"
      PROVE  FALSE
  BY <1>1 DEF Frame
<1>. QED
  BY <1>1 DEF EOF

(* A queue that the end of its connection is not in is all frames.         *)
LEMMA FramesOfOpen ==
  ASSUME NEW q \in Seq(Frame)
  PROVE  Frames(q) = q
<1>1. CASE q = <<>>
  BY <1>1 DEF Frames
<1>2. CASE q # <<>>
  <2>1. Len(q) \in 1 .. Len(q)
    BY <1>2, EmptySeq
  <2>2. q[Len(q)] \in Frame
    BY <2>1
  <2>. QED
    BY <2>2, NoEOF DEF Frames, Last, EOF
<1>. QED
  BY <1>1, <1>2

(* The end of a connection takes no frame away from those sent before.     *)
LEMMA FramesOfClosed ==
  ASSUME NEW q \in Seq(Frame)
  PROVE  Frames(Append(q, EOF)) = q
<1> DEFINE S == Frame \cup {EOF}
           p == Append(q, EOF)
<1>1. q \in Seq(S) /\ EOF \in S
  OBVIOUS
<1>2. p \in Seq(S) /\ p # <<>> /\ Len(p) = Len(q) + 1 /\ p[Len(q) + 1] = EOF
  BY <1>1, AppendProperties
<1>3. \A i \in 1 .. Len(q) : p[i] = q[i]
  BY <1>1, AppendProperties
<1> HIDE DEF p
<1>4. Frames(p) = SubSeq(p, 1, Len(q))
  BY <1>2 DEF Frames, Last, Front, EOF
<1>5. \A i \in 1 .. Len(q) : p[i] \in Frame
  BY <1>3
<1>6. SubSeq(p, 1, Len(q)) = q
  <2> DEFINE r == SubSeq(p, 1, Len(q))
  <2>1. Len(q) \in Nat
    OBVIOUS
  <2>2. /\ r \in Seq(Frame) /\ Len(r) = (IF 1 <= Len(q) THEN Len(q) - 1 + 1 ELSE 0)
        /\ \A i \in 1 .. Len(q) - 1 + 1 : r[i] = p[1 + i - 1]
    BY <1>5, <2>1, SubSeqProperties
  <2> HIDE DEF r
  <2>3. Len(r) = Len(q) /\ \A i \in 1 .. Len(q) : r[i] = q[i]
    BY <1>3, <2>1, <2>2
  <2>4. r = q
    BY <2>2, <2>3, SeqEqual
  <2>. QED
    BY <2>4 DEF r
<1>. QED
  BY <1>4, <1>6 DEF p

(* Who is sent nothing more, and is closed at most, keeps the frames he    *)
(* was sent.                                                               *)
LEMMA SameSending ==
  ASSUME NEW m, Sending(m), NEW t, t.sent = m.sent, t.live \subseteq m.live
  PROVE  Sending(t) /\ Silent(m, t, Client)
BY DEF Sending, Silent, Out

(* The books are what the invariant is about.                              *)
LEMMA AlikeGood ==
  ASSUME NEW m, Good(m), NEW t, Alike(m, t), Sending(t)
  PROVE  Good(t)
BY DEF Good, Alike, Rooms, In, Dict, Few, Tables

(* A frame to a connection that stands goes out.                           *)
LEMMA PushSays ==
  ASSUME NEW m, Good(m), NEW c \in m.live, m.fuse[c] # 0, NEW f \in Frame, NEW w
  PROVE  LET t == Push(m, c, f, w) IN Said(m, t, c, f) /\ Good(t)
<1> DEFINE t == Push(m, c, f, w)
           g == IF m.fuse[c] > 0 THEN m.fuse[c] - 1 ELSE m.fuse[c]
           p == Append(m.sent[c], f)
<1>1. /\ Typed(m) /\ Sending(m) /\ c \in Client /\ m.live \subseteq Client
      /\ m.sent \in [Client -> Seq(Frame \cup {EOF})] /\ m.fuse \in [Client -> {-1, 0, 1}]
  BY DEF Good, Typed
<1>2. m.sent[c] = Out(m, c) /\ Out(m, c) \in Seq(Frame)
  BY <1>1 DEF Sending
<1>3. p \in Seq(Frame) /\ p \in Seq(Frame \cup {EOF})
  BY <1>2
<1>4. m.fuse[c] \in {-1, 0, 1} /\ g \in {-1, 0, 1} /\ (m.fuse[c] = -1 => g = -1)
  BY <1>1
<1>5. t = [m EXCEPT !.sent[c] = p, !.fuse[c] = g]
  BY DEF Push
<1> HIDE DEF p, g, t
<1>6. /\ t \in [live : SUBSET Client, name : [Client -> Name \cup {None}],
         byName : Seq([name : Name, client : Client]),
         room : [Client -> RoomId \cup {None}], members : [RoomId -> Seq(Client)],
         started : SUBSET RoomId, crc : [RoomId -> SUBSET Report],
         ok : [RoomId -> Nat], sent : [Client -> Seq(Frame \cup {EOF})],
         log : {m.log}, fuse : [Client -> {-1, 0, 1}], autoGo : {0, 2}]
      /\ t.log = m.log
  BY <1>1, <1>3, <1>4, <1>5 DEF Typed
<1>7. /\ t.live = m.live /\ t.name = m.name /\ t.byName = m.byName
      /\ t.room = m.room /\ t.members = m.members /\ t.started = m.started
      /\ t.crc = m.crc /\ t.ok = m.ok /\ t.autoGo = m.autoGo
      /\ t.sent = [m.sent EXCEPT ![c] = p] /\ t.fuse = [m.fuse EXCEPT ![c] = g]
  BY <1>1, <1>5 DEF Typed
<1>8. \A d \in Client : m.fuse[d] = -1 => t.fuse[d] = -1
  BY <1>1, <1>4, <1>7
<1>9. Alike(m, t)
  BY <1>6, <1>7, <1>8 DEF Alike, Typed
<1>10. t.sent[c] = p /\ \A d \in Client \ {c} : t.sent[d] = m.sent[d]
  BY <1>1, <1>7
<1>11. Out(t, c) = p /\ \A d \in Client \ {c} : Out(t, d) = Out(m, d)
  BY <1>3, <1>10, FramesOfOpen DEF Out
<1>12. Sending(t)
  BY <1>1, <1>3, <1>7, <1>10, <1>11 DEF Sending
<1>13. Out(t, c) = Append(Out(m, c), f)
  BY <1>2, <1>11 DEF p
<1>. QED
  BY <1>9, <1>11, <1>12, <1>13, AlikeGood DEF Said, Silent, t

(* _log writes a line and changes nothing else.                            *)
LEMMA LogGood ==
  ASSUME NEW m, Good(m), NEW x
  PROVE  Good(Log(m, x)) /\ Alike(m, Log(m, x)) /\ Silent(m, Log(m, x), Client)
<1> DEFINE t == Log(m, x)
<1>1. Typed(m) /\ Sending(m)
  BY DEF Good
<1>2. t = [m EXCEPT !.log = Append(m.log, x)]
  BY DEF Log
<1> HIDE DEF t
<1>3. /\ Typed(t) /\ t.live = m.live /\ t.name = m.name /\ t.byName = m.byName
      /\ t.room = m.room /\ t.members = m.members /\ t.started = m.started
      /\ t.crc = m.crc /\ t.ok = m.ok /\ t.autoGo = m.autoGo
      /\ t.sent = m.sent /\ t.fuse = m.fuse
  BY <1>1, <1>2 DEF Typed
<1>4. Alike(m, t)
  BY <1>3 DEF Alike
<1>5. Sending(t) /\ Silent(m, t, Client)
  BY <1>1, <1>3, SameSending
<1>. QED
  BY <1>4, <1>5, AlikeGood DEF t

(* The limit holds when connections close.                                 *)
LEMMA FewerFew ==
  ASSUME NEW m, Few(m), NEW t, t.live \subseteq m.live
  PROVE  Few(t)
<1>1. IsFiniteSet(t.live) /\ Cardinality(t.live) <= Cardinality(m.live)
  BY FS_Subset DEF Few
<1>2. Cardinality(t.live) \in Nat /\ Cardinality(m.live) \in Nat /\ MaxPerIp \in Nat
  BY <1>1, FS_CardinalityType, ServerAssumption DEF Few
<1>. QED
  BY <1>1, <1>2 DEF Few

(* The first half of a drop.                                               *)
Closed(m, t, c) ==
  /\ Typed(t) /\ Sending(t) /\ Dict(t) /\ Few(t) /\ Tables(t)
  /\ t.live = m.live \ {c} /\ t.name = m.name
  /\ t.room = m.room /\ t.members = m.members /\ t.started = m.started
  /\ t.autoGo = m.autoGo /\ t.fuse = m.fuse /\ Silent(m, t, Client)

(* The entries of the other players are entries of the dict, all of them   *)
(* and in order.                                                           *)
LEMMA OthersListed ==
  ASSUME NEW m, Typed(m), NEW c
  PROVE  LET p == Others(m, c)
         IN  /\ p \in Seq([name : Name, client : Client])
             /\ \A i \in DOMAIN p : \E k \in DOMAIN m.byName :
                  p[i] = m.byName[k] /\ m.byName[k].client # c
             /\ \A k \in DOMAIN m.byName : m.byName[k].client # c =>
                  \E i \in DOMAIN p : p[i] = m.byName[k]
             /\ (\A i, j \in DOMAIN m.byName : m.byName[i].name = m.byName[j].name => i = j)
                => (\A i, j \in DOMAIN p : p[i].name = p[j].name => i = j)
<1> DEFINE E == [name : Name, client : Client]
           q == m.byName
           K == {i \in DOMAIN q : q[i].client # c}
           p == Keep(q, K)
           n == Cardinality(K)
<1>1. q \in Seq(E) /\ Others(m, c) = p /\ K \in SUBSET DOMAIN q
  BY DEF Typed, Others
<1>2. \A k \in K : q[k].client # c /\ k \in DOMAIN q
  OBVIOUS
<1>3. \A k \in DOMAIN q : q[k].client # c => k \in K
  OBVIOUS
<1> HIDE DEF K, q
<1>4. /\ n \in Nat /\ p \in Seq(E) /\ DOMAIN p = 1 .. n
      /\ \A i \in 1 .. n : Place(K, i) \in K /\ p[i] = q[Place(K, i)]
      /\ \A k \in K : \E i \in 1 .. n : Place(K, i) = k /\ p[i] = q[k]
      /\ \A i, j \in 1 .. n : Place(K, i) = Place(K, j) => i = j
  BY <1>1, KeepDoes
<1> HIDE DEF p, n
<1>5. \A i \in DOMAIN p : \E k \in DOMAIN q : p[i] = q[k] /\ q[k].client # c
  BY <1>2, <1>4
<1>6. \A k \in DOMAIN q : q[k].client # c => \E i \in DOMAIN p : p[i] = q[k]
  BY <1>3, <1>4
<1>7. ASSUME \A i, j \in DOMAIN q : q[i].name = q[j].name => i = j,
             NEW i \in DOMAIN p, NEW j \in DOMAIN p, p[i].name = p[j].name
      PROVE  i = j
  BY <1>2, <1>4, <1>7
<1>. QED
  BY <1>1, <1>4, <1>5, <1>6, <1>7 DEF q

(* Closing a socket and forgetting its name is the first half of a drop.   *)
LEMMA ShutCloses ==
  ASSUME NEW m, Good(m), NEW c \in m.live, NEW why
  PROVE  Closed(m, Shut(m, c, why), c)
<1> DEFINE t == Shut(m, c, why)
           p == Others(m, c)
           x == Append(m.log, <<"drop", Who(m, c), why>>)
           s == Append(m.sent[c], EOF)
<1>1. /\ Typed(m) /\ Sending(m) /\ Dict(m) /\ Few(m) /\ Tables(m)
      /\ c \in Client /\ m.live \subseteq Client
      /\ m.sent \in [Client -> Seq(Frame \cup {EOF})]
  BY DEF Good, Typed
<1>2. m.sent[c] = Out(m, c) /\ Out(m, c) \in Seq(Frame)
  BY <1>1 DEF Sending
<1>3. s \in Seq(Frame \cup {EOF}) /\ Frames(s) = Out(m, c)
  BY <1>1, <1>2, FramesOfClosed
<1>4. Others(Log(m, <<"drop", Who(m, c), why>>), c) = p
  BY <1>1 DEF Log, Others, Typed
<1>5. t = [m EXCEPT !.log = x, !.live = m.live \ {c}, !.sent[c] = s, !.byName = p]
  BY <1>1, <1>4 DEF Shut, Log, EOF, Typed, Others
<1>6. /\ p \in Seq([name : Name, client : Client])
      /\ \A i \in DOMAIN p : \E k \in DOMAIN m.byName :
           p[i] = m.byName[k] /\ m.byName[k].client # c
      /\ \A k \in DOMAIN m.byName : m.byName[k].client # c =>
           \E i \in DOMAIN p : p[i] = m.byName[k]
      /\ \A i, j \in DOMAIN p : p[i].name = p[j].name => i = j
  BY <1>1, OthersListed DEF Dict
<1> HIDE DEF p, x, s, t
<1>7. /\ Typed(t) /\ t.live = m.live \ {c} /\ t.name = m.name
      /\ t.room = m.room /\ t.members = m.members /\ t.started = m.started
      /\ t.autoGo = m.autoGo /\ t.fuse = m.fuse /\ t.crc = m.crc /\ t.byName = p
      /\ t.sent = [m.sent EXCEPT ![c] = s]
  BY <1>1, <1>3, <1>5, <1>6 DEF Typed
<1>8. \A d \in Client : Out(t, d) = Out(m, d)
  <2>1. Out(t, c) = Out(m, c)
    BY <1>1, <1>3, <1>7 DEF Out
  <2>2. \A d \in Client \ {c} : Out(t, d) = Out(m, d)
    BY <1>1, <1>7 DEF Out
  <2>. QED
    BY <2>1, <2>2
<1>9. Sending(t)
  BY <1>1, <1>7, <1>8 DEF Sending
<1>10. Dict(t)
  <2>1. ASSUME NEW i \in DOMAIN p
        PROVE  p[i].client \in m.live \ {c} /\ m.name[p[i].client] = p[i].name
    <3>1. PICK k \in DOMAIN m.byName : p[i] = m.byName[k] /\ m.byName[k].client # c
      BY <1>6
    <3>. QED
      BY <1>1, <3>1 DEF Dict
  <2>2. \A d \in m.live \ {c} : m.name[d] # None => \E i \in DOMAIN p : p[i].client = d
    BY <1>1, <1>6 DEF Dict
  <2>. QED
    BY <1>6, <1>7, <2>1, <2>2 DEF Dict
<1>11. Few(t) /\ Tables(t)
  <2>1. t.live \subseteq m.live
    BY <1>7
  <2>. QED
    BY <1>1, <1>7, <2>1, FewerFew DEF Tables
<1>. QED
  BY <1>7, <1>8, <1>9, <1>10, <1>11 DEF Closed, Silent, t

-----------------------------------------------------------------------------
(* Where a connection is: in a room or not, in a match or not, with whom.  *)
Nowhere == [in |-> FALSE, on |-> FALSE, names |-> <<>>, seat |-> 0, mate |-> None]
Where(m, c) ==
  LET r == m.room[c]
  IN  IF r = None THEN Nowhere
      ELSE [in |-> TRUE, on |-> r \in m.started, names |-> Roster(m, r),
            seat |-> Seat(m, c), mate |-> m.members[r][2 - Seat(m, c)]]

Whereabouts ==
  [in : BOOLEAN, on : BOOLEAN, names : Seq(Name), seat : {0, 1},
   mate : Client \cup {None}]

Sits(m, c) ==
  LET r == m.room[c]
      p == m.members[r]
      d == Where(m, c).mate
  IN  /\ r \in RoomId /\ p \in Seq(Client) /\ Len(p) = 2
      /\ p[1] \in m.live /\ p[2] \in m.live /\ p[1] # p[2]
      /\ m.room[p[1]] = r /\ m.room[p[2]] = r
      /\ Seat(m, c) \in {0, 1} /\ p[Seat(m, c) + 1] = c
      /\ d \in m.live /\ d # c /\ p[2 - Seat(m, c)] = d /\ m.room[d] = r
      /\ \A e \in Client : m.room[e] = r => e \in {c, d}

(* The seat of a member of a pair.                                         *)
LEMMA SeatIs ==
  ASSUME NEW m, NEW c, NEW p, m.members[m.room[c]] = p, DOMAIN p = 1 .. 2, p[1] # p[2]
  PROVE  /\ p[1] = c => Seat(m, c) = 0
         /\ p[2] = c => Seat(m, c) = 1
<1>1. Seat(m, c) = (CHOOSE i \in 1 .. 2 : p[i] = c) - 1
  BY DEF Seat
<1>2. \A i \in 1 .. 2 : i = 1 \/ i = 2
  OBVIOUS
<1>3. ASSUME p[1] = c
      PROVE  (CHOOSE i \in 1 .. 2 : p[i] = c) = 1
  <2>1. \A i \in 1 .. 2 : p[i] = c <=> i = 1
    BY <1>2, <1>3
  <2>. QED
    BY <2>1
<1>4. ASSUME p[2] = c
      PROVE  (CHOOSE i \in 1 .. 2 : p[i] = c) = 2
  <2>1. \A i \in 1 .. 2 : p[i] = c <=> i = 2
    BY <1>2, <1>4
  <2>. QED
    BY <2>1
<1>. QED
  BY <1>1, <1>3, <1>4

(* Whoever is in a room sits in it, opposite another.                      *)
LEMMA SitsIn ==
  ASSUME NEW m, Typed(m), Rooms(m), NEW c \in Client, m.room[c] # None
  PROVE  Sits(m, c)
<1> DEFINE r == m.room[c]
           p == m.members[r]
           d == p[2 - Seat(m, c)]
<1>1. r \in RoomId /\ p \in Seq(Client)
  BY DEF Typed
<1>2. /\ Len(p) = 2 /\ p[1] # p[2] /\ m.room[p[1]] = r /\ m.room[p[2]] = r
      /\ \A e \in Client : m.room[e] = r => e \in {p[1], p[2]}
  BY <1>1 DEF Rooms, In
<1>3. DOMAIN p = 1 .. 2 /\ p[1] \in Client /\ p[2] \in Client
  BY <1>1, <1>2
<1>4. c \in {p[1], p[2]}
  BY <1>2
<1>5. p[1] \in m.live /\ p[2] \in m.live
  BY <1>2, <1>3 DEF Rooms
<1>6. Where(m, c).mate = d
  BY DEF Where
<1>7. /\ p[1] = c => Seat(m, c) = 0 /\ d = p[2]
      /\ p[2] = c => Seat(m, c) = 1 /\ d = p[1]
  BY <1>2, <1>3, SeatIs
<1>8. Seat(m, c) \in {0, 1} /\ p[Seat(m, c) + 1] = c /\ d \in m.live /\ d # c /\ m.room[d] = r
  BY <1>2, <1>4, <1>5, <1>7
<1>9. \A e \in Client : m.room[e] = r => e \in {c, d}
  BY <1>2, <1>4, <1>7
<1> HIDE DEF d
<1>. QED
  BY <1>1, <1>2, <1>5, <1>6, <1>8, <1>9 DEF Sits, d

(* Nobody moves whose room, and the names in it, stay as they are.         *)
LEMMA SamePlace ==
  ASSUME NEW m, NEW t, NEW c,
         t.room[c] = m.room[c],
         m.room[c] # None =>
           /\ t.members[m.room[c]] = m.members[m.room[c]]
           /\ m.room[c] \in t.started <=> m.room[c] \in m.started
           /\ \A i \in DOMAIN m.members[m.room[c]] :
                t.name[m.members[m.room[c]][i]] = m.name[m.members[m.room[c]][i]]
  PROVE  Where(t, c) = Where(m, c)
<1>1. CASE m.room[c] = None
  BY <1>1 DEF Where
<1>2. CASE m.room[c] # None
  <2> DEFINE r == m.room[c]
             p == m.members[r]
  <2>1. Seat(t, c) = Seat(m, c)
    BY <1>2 DEF Seat
  <2>2. \A i \in DOMAIN p : Who(t, p[i]) = Who(m, p[i])
    BY <1>2 DEF Who
  <2>3. Roster(t, r) = Roster(m, r)
    BY <1>2, <2>2 DEF Roster
  <2>4. (r \in t.started) = (r \in m.started)
    BY <1>2
  <2>. QED
    BY <1>2, <2>1, <2>3, <2>4 DEF Where
<1>. QED
  BY <1>1, <1>2

(* Two connected clients with names have different ones.                   *)
LEMMA NamesDiffer ==
  ASSUME NEW m, Dict(m), NEW c \in m.live, NEW d \in m.live, m.name[c] # None,
         m.name[c] = m.name[d]
  PROVE  c = d
<1>1. PICK i \in DOMAIN m.byName : m.byName[i].client = c
  BY DEF Dict
<1>2. PICK j \in DOMAIN m.byName : m.byName[j].client = d
  BY DEF Dict
<1>3. m.byName[i].name = m.name[c] /\ m.byName[j].name = m.name[d]
  BY <1>1, <1>2 DEF Dict
<1>4. i = j
  BY <1>3 DEF Dict
<1>. QED
  BY <1>1, <1>2, <1>4

Fair(w, own) ==
  /\ w.seat \in {0, 1} /\ w.names \in Seq(Name) /\ Len(w.names) = 2
  /\ w.names[w.seat + 1] = own /\ w.names[1] # w.names[2]
  /\ \E a, b \in Name : w.names = <<a, b>>

(* The two of a room have different names, each at the seat of its own.    *)
LEMMA PlaceFair ==
  ASSUME NEW m, Good(m), NEW c \in Client, m.room[c] # None
  PROVE  /\ Fair(Where(m, c), m.name[c])
         /\ Roster(m, m.room[c]) = Where(m, c).names
<1> DEFINE r == m.room[c]
           p == m.members[r]
           R == Roster(m, r)
<1>1. Typed(m) /\ Rooms(m) /\ Dict(m) /\ Sits(m, c)
  BY SitsIn DEF Good
<1>2. /\ p \in Seq(Client) /\ Len(p) = 2 /\ p[1] \in m.live /\ p[2] \in m.live
      /\ p[1] # p[2] /\ m.room[p[1]] = r /\ m.room[p[2]] = r
      /\ Seat(m, c) \in {0, 1} /\ p[Seat(m, c) + 1] = c
  BY <1>1 DEF Sits
<1>3. DOMAIN p = 1 .. 2 /\ p[1] \in Client /\ p[2] \in Client
  BY <1>2
<1>4. m.name[p[1]] # None /\ m.name[p[2]] # None
  BY <1>1, <1>2, <1>3 DEF Rooms
<1>5. m.name[p[1]] \in Name /\ m.name[p[2]] \in Name
  BY <1>1, <1>3, <1>4 DEF Typed
<1>6. R = [i \in 1 .. 2 |-> Who(m, p[i])]
  BY <1>3 DEF Roster
<1>7. R[1] = m.name[p[1]] /\ R[2] = m.name[p[2]]
  <2>1. Who(m, p[1]) = m.name[p[1]] /\ Who(m, p[2]) = m.name[p[2]]
    BY <1>4 DEF Who
  <2>2. R[1] = Who(m, p[1]) /\ R[2] = Who(m, p[2])
    BY <1>6
  <2>. QED
    BY <2>1, <2>2
<1>8. R = <<Who(m, p[1]), Who(m, p[2])>>
  BY <1>6
<1>9. R = <<m.name[p[1]], m.name[p[2]]>>
  <2>1. Who(m, p[1]) = m.name[p[1]] /\ Who(m, p[2]) = m.name[p[2]]
    BY <1>4 DEF Who
  <2>. QED
    BY <1>8, <2>1
<1>10. R \in Seq(Name) /\ Len(R) = 2
  BY <1>5, <1>9
<1>11. R[1] # R[2]
  BY <1>1, <1>2, <1>4, <1>7, NamesDiffer
<1>12. R[Seat(m, c) + 1] = m.name[c]
  BY <1>2, <1>7
<1>13. Where(m, c).names = R /\ Where(m, c).seat = Seat(m, c)
  BY DEF Where
<1> HIDE DEF R
<1>14. Fair(Where(m, c), m.name[c])
  BY <1>2, <1>5, <1>9, <1>10, <1>11, <1>12, <1>13 DEF Fair
<1>. QED
  BY <1>13, <1>14 DEF R

(* Whoever is asked about, Where is a place.                               *)
LEMMA WhereIs ==
  ASSUME NEW m, Good(m), NEW c \in Client
  PROVE  Where(m, c) \in Whereabouts
<1>1. Nowhere \in Whereabouts
  BY DEF Nowhere, Whereabouts
<1>2. CASE m.room[c] # None
  <2>1. Typed(m) /\ Sits(m, c) /\ Fair(Where(m, c), m.name[c])
    BY <1>2, SitsIn, PlaceFair DEF Good
  <2>2. /\ Where(m, c).names \in Seq(Name) /\ Where(m, c).seat \in {0, 1}
        /\ Where(m, c).mate \in Client
    BY <2>1 DEF Fair, Sits, Typed
  <2>. QED
    BY <1>2, <2>2 DEF Where, Whereabouts
<1>. QED
  BY <1>1, <1>2 DEF Where

(* Of two in one room each is the mate of the other, and everything else   *)
(* but the seats is the same.                                              *)
LEMMA Opposite ==
  ASSUME NEW m, Good(m), NEW j \in Client, NEW k \in Client, j # k,
         m.room[k] # None, m.room[j] = m.room[k]
  PROVE  /\ Where(m, k).mate = j /\ Where(m, j).mate = k
         /\ Where(m, j).names = Where(m, k).names
         /\ Where(m, j).seat # Where(m, k).seat
<1>1. Sits(m, j) /\ Sits(m, k)
  BY SitsIn DEF Good
<1>2. Where(m, k).mate = j /\ Where(m, j).mate = k
  BY <1>1 DEF Sits
<1>3. Seat(m, j) # Seat(m, k)
  BY <1>1 DEF Sits
<1>. QED
  BY <1>2, <1>3 DEF Where

-----------------------------------------------------------------------------
(* A pair without one of the two.                                          *)
LEMMA RemoveOne ==
  ASSUME NEW S, NEW p \in Seq(S), Len(p) = 2, NEW s \in {0, 1}
  PROVE  LET q == RemoveAt(p, s + 1)
         IN  q \in Seq(S) /\ Len(q) = 1 /\ q[1] = p[2 - s]
<1>1. p[1] \in S /\ p[2] \in S
  <2>1. 1 \in 1 .. Len(p) /\ 2 \in 1 .. Len(p)
    OBVIOUS
  <2>. QED
    BY <2>1, ElementOfSeq
<1>2. CASE s = 0
  <2>1. SubSeq(p, 1, 0) = <<>>
    BY SubSeqEmpty
  <2> DEFINE w == SubSeq(p, 2, 2)
  <2>2. \A i \in 2 .. 2 : p[i] \in S
    BY <1>1
  <2>3. /\ w \in Seq(S) /\ Len(w) = (IF 2 <= 2 THEN 2 - 2 + 1 ELSE 0)
        /\ \A i \in 1 .. 2 - 2 + 1 : w[i] = p[2 + i - 1]
    BY <2>2, SubSeqProperties
  <2> HIDE DEF w
  <2>4. w \in Seq(S) /\ Len(w) = 1 /\ w[1] = p[2]
    BY <2>3
  <2>5. <<>> \o w = w
    BY <2>4, ConcatEmptySeq
  <2>6. RemoveAt(p, s + 1) = w
    BY <1>2, <2>1, <2>5 DEF RemoveAt, w
  <2>. QED
    BY <1>2, <2>4, <2>6
<1>3. CASE s = 1
  <2>1. SubSeq(p, 3, 2) = <<>>
    BY SubSeqEmpty
  <2> DEFINE w == SubSeq(p, 1, 1)
  <2>2. \A i \in 1 .. 1 : p[i] \in S
    BY <1>1
  <2>3. /\ w \in Seq(S) /\ Len(w) = (IF 1 <= 1 THEN 1 - 1 + 1 ELSE 0)
        /\ \A i \in 1 .. 1 - 1 + 1 : w[i] = p[1 + i - 1]
    BY <2>2, SubSeqProperties
  <2> HIDE DEF w
  <2>4. w \in Seq(S) /\ Len(w) = 1 /\ w[1] = p[1]
    BY <2>3
  <2>5. w \o <<>> = w
    BY <2>4, ConcatEmptySeq
  <2>6. RemoveAt(p, s + 1) = w
    BY <1>3, <2>1, <2>5 DEF RemoveAt, w
  <2>. QED
    BY <1>3, <2>4, <2>6
<1>. QED
  BY <1>2, <1>3

(* A member that is gone is taken out of its room, and the room is over.   *)
Taken(m, c) ==
  [m EXCEPT !.room[c] = None, !.members[m.room[c]] = RemoveAt(@, Seat(m, c) + 1)]

Emptied(m, t, c) ==
  /\ t.live = m.live \ {c} /\ t.name = m.name
  /\ t.room = [d \in Client |-> IF m.room[d] = m.room[c] THEN None ELSE m.room[d]]
  /\ t.members = [m.members EXCEPT ![m.room[c]] = <<>>]
  /\ t.started = m.started \ {m.room[c]}

Vacated(m, t, c) ==
  /\ Good(t) /\ Emptied(m, t, c) /\ t.autoGo = m.autoGo
  /\ t.fuse = m.fuse /\ Silent(m, t, Client)

(* The rooms, once one is vacated.                                         *)
LEMMA VacatedRooms ==
  ASSUME NEW m, Typed(m), Rooms(m), NEW c \in Client, m.room[c] # None,
         NEW t, Emptied(m, t, c)
  PROVE  Rooms(t)
<1> DEFINE r == m.room[c]
<1>0. /\ t.live = m.live \ {c} /\ t.name = m.name
      /\ t.room = [d \in Client |-> IF m.room[d] = r THEN None ELSE m.room[d]]
      /\ t.members = [m.members EXCEPT ![r] = <<>>] /\ t.started = m.started \ {r}
  BY DEF Emptied
<1>1. r \in RoomId /\ m.members \in [RoomId -> Seq(Client)] /\ None \notin RoomId
  BY ServerAssumption DEF Typed
<1> HIDE DEF r
<1>2. \A d \in Client : t.room[d] = IF m.room[d] = r THEN None ELSE m.room[d]
  BY <1>0
<1>3. t.members[r] = <<>> /\ \A q \in RoomId \ {r} : t.members[q] = m.members[q]
  BY <1>0, <1>1
<1>4. ASSUME NEW q \in RoomId
      PROVE  LET p == t.members[q]
             IN  \/ p = <<>> /\ q \notin t.started /\ \A d \in Client : ~In(t, d, q)
                 \/ /\ Len(p) = 2 /\ p[1] # p[2]
                    /\ \A d \in Client : In(t, d, q) => d \in {p[1], p[2]}
                    /\ In(t, p[1], q) /\ In(t, p[2], q)
  <2>1. CASE q = r
    BY <1>0, <1>1, <1>2, <1>3, <2>1 DEF In
  <2>2. CASE q # r
    <3> DEFINE p == m.members[q]
    <3>1. t.members[q] = p /\ (q \in t.started <=> q \in m.started)
      BY <1>0, <1>3, <2>2
    <3>2. \A d \in Client : In(t, d, q) <=> In(m, d, q)
      BY <1>1, <1>2, <2>2 DEF In
    <3>3. CASE p = <<>> /\ q \notin m.started /\ \A d \in Client : ~In(m, d, q)
      BY <3>1, <3>2, <3>3
    <3>4. CASE /\ Len(p) = 2 /\ p[1] # p[2]
               /\ \A d \in Client : In(m, d, q) => d \in {p[1], p[2]}
               /\ In(m, p[1], q) /\ In(m, p[2], q)
      <4>1. p[1] \in Client /\ p[2] \in Client
        <5>1. p \in Seq(Client)
          BY <1>1
        <5>. QED
          BY <3>4, <5>1
      <4>. QED
        BY <3>1, <3>2, <3>4, <4>1
    <3>. QED
      BY <3>3, <3>4 DEF Rooms
  <2>. QED
    BY <2>1, <2>2
<1>5. ASSUME NEW d \in Client, t.room[d] # None
      PROVE  d \in t.live /\ t.name[d] # None
  <2>1. m.room[d] # r /\ m.room[d] # None
    BY <1>2, <1>5
  <2>2. d # c
    BY <2>1 DEF r
  <2>. QED
    BY <1>0, <2>1, <2>2 DEF Rooms
<1>. QED
  BY <1>4, <1>5 DEF Rooms

(* _vacate after the first half of a drop: the room is over and the books  *)
(* are right again.                                                        *)
LEMMA VacateDoes ==
  ASSUME NEW m, Good(m), NEW c \in m.live, m.room[c] # None,
         NEW s, Closed(m, s, c),
         NEW u, Alike(Taken(s, c), u), u.sent = s.sent, u.fuse = s.fuse
  PROVE  /\ Typed(Taken(s, c)) /\ Vacated(m, Vacate(u, m.room[c]), c)
<1> DEFINE r == m.room[c]
           e == RemoveAt(s.members[r], Seat(s, c) + 1)
           l == Taken(s, c)
           t == Vacate(u, r)
           R == [d \in Client |-> IF m.room[d] = r THEN None ELSE m.room[d]]
<1>1. /\ Typed(m) /\ Rooms(m) /\ c \in Client /\ Sits(m, c)
      /\ r \in RoomId /\ None # r /\ m.room \in [Client -> RoomId \cup {None}]
      /\ m.members \in [RoomId -> Seq(Client)]
  BY SitsIn, ServerAssumption DEF Good, Typed
<1>2. /\ Typed(s) /\ Sending(s) /\ Dict(s) /\ Few(s) /\ Tables(s)
      /\ s.live = m.live \ {c} /\ s.name = m.name
      /\ s.room = m.room /\ s.members = m.members /\ s.started = m.started
      /\ s.autoGo = m.autoGo /\ s.fuse = m.fuse /\ Silent(m, s, Client)
  BY DEF Closed
<1>3. e \in Seq(Client)
  <2>1. Seat(s, c) = Seat(m, c)
    BY <1>2 DEF Seat
  <2>2. s.members[r] \in Seq(Client) /\ Len(s.members[r]) = 2 /\ Seat(s, c) \in {0, 1}
    BY <1>1, <1>2, <2>1 DEF Sits
  <2>. QED
    BY <2>2, RemoveOne
<1>4. l = [s EXCEPT !.room[c] = None, !.members[r] = e]
  BY <1>2 DEF Taken
<1> HIDE DEF e, l
<1>5. /\ Typed(l) /\ l.live = s.live /\ l.name = s.name /\ l.byName = s.byName
      /\ l.room = [s.room EXCEPT ![c] = None] /\ l.members = [s.members EXCEPT ![r] = e]
      /\ l.started = s.started /\ l.crc = s.crc /\ l.ok = s.ok /\ l.autoGo = s.autoGo
  BY <1>1, <1>2, <1>3, <1>4 DEF Typed
<1>6. /\ Typed(u) /\ u.live = s.live /\ u.name = s.name /\ u.byName = s.byName
      /\ u.room = l.room /\ u.members = l.members /\ u.started = s.started
      /\ u.crc = s.crc /\ u.autoGo = s.autoGo
  BY <1>5 DEF Alike, l
<1>7. t = [u EXCEPT !.room = [d \in Client |-> IF u.room[d] = r THEN None ELSE u.room[d]],
                    !.members[r] = <<>>, !.started = u.started \ {r}]
  BY DEF Vacate
<1>8. [d \in Client |-> IF u.room[d] = r THEN None ELSE u.room[d]] = R
  <2>1. u.room = [m.room EXCEPT ![c] = None]
    BY <1>2, <1>5, <1>6
  <2>2. \A d \in Client : u.room[d] = IF d = c THEN None ELSE m.room[d]
    BY <1>1, <2>1
  <2>3. \A d \in Client : (IF u.room[d] = r THEN None ELSE u.room[d])
                        = (IF m.room[d] = r THEN None ELSE m.room[d])
    BY <1>1, <2>2
  <2>. QED
    BY <2>3
<1>9. R \in [Client -> RoomId \cup {None}] /\ <<>> \in Seq(Client)
  BY <1>1, EmptySeq
<1>10. t = [u EXCEPT !.room = R, !.members[r] = <<>>, !.started = u.started \ {r}]
  BY <1>7, <1>8
<1> HIDE DEF R, t
<1>11. /\ Typed(t) /\ t.live = u.live /\ t.name = u.name /\ t.byName = u.byName
       /\ t.room = R /\ t.members = [u.members EXCEPT ![r] = <<>>]
       /\ t.started = u.started \ {r} /\ t.crc = u.crc /\ t.sent = u.sent
       /\ t.fuse = u.fuse /\ t.autoGo = u.autoGo
  BY <1>1, <1>6, <1>9, <1>10 DEF Typed
<1>12. t.members = [m.members EXCEPT ![r] = <<>>]
  <2>1. u.members = [m.members EXCEPT ![r] = e]
    <3>1. s.members = m.members
      BY <1>2
    <3>2. u.members = l.members
      BY <1>6
    <3>3. l.members = [s.members EXCEPT ![r] = e]
      BY <1>5
    <3>. QED
      BY <3>1, <3>2, <3>3
  <2>2. t.members = [u.members EXCEPT ![r] = <<>>]
    BY <1>11
  <2>3. m.members \in [RoomId -> Seq(Client)] /\ r \in RoomId
    BY <1>1
  <2> HIDE DEF r
  <2>. QED
    BY <2>1, <2>2, <2>3
<1>13. Emptied(m, t, c)
  BY <1>2, <1>6, <1>11, <1>12 DEF Emptied, R, r
<1>14. Rooms(t)
  BY <1>1, <1>13, VacatedRooms
<1>15. Sending(t) /\ Silent(m, t, Client)
  <2>1. t.sent = s.sent /\ t.live = s.live
    BY <1>6, <1>11
  <2>. QED
    BY <1>2, <2>1 DEF Sending, Silent, Out
<1>16. Dict(t) /\ Few(t) /\ Tables(t)
  BY <1>2, <1>6, <1>11 DEF Dict, Few, Tables
<1>17. Good(t)
  BY <1>11, <1>14, <1>15, <1>16 DEF Good
<1>. QED
  BY <1>2, <1>5, <1>6, <1>11, <1>13, <1>15, <1>17 DEF Vacated, t, l

-----------------------------------------------------------------------------
(* The news of a drop, to the one who sat with the one that is dropped.    *)
News(w, f) ==
  f \in Frame /\ IF w.on THEN f[1] = "PEER_LEFT" ELSE f = <<"ROOM", 0, <<>>>>

(* A frame to one in no room: it goes out, or the connection is closed.    *)
Told(v, t, d, f) ==
  /\ Good(t) /\ t.name = v.name /\ t.autoGo = v.autoGo
  /\ t.room = v.room /\ t.members = v.members /\ t.started = v.started
  /\ t.live \subseteq v.live /\ v.live \ {d} \subseteq t.live
  /\ \A e \in Client : v.fuse[e] = -1 => t.fuse[e] = -1
  /\ Silent(v, t, Client \ {d})
  /\ v.fuse[d] = -1 => d \in t.live /\ Out(t, d) = Append(Out(v, d), f)

(* A closed connection that was in no room leaves the books right.         *)
LEMMA ClosedGood ==
  ASSUME NEW m, Good(m), NEW c \in m.live, m.room[c] = None, NEW t, Closed(m, t, c)
  PROVE  Good(t)
<1>1. Rooms(m) /\ m.live \subseteq Client
  BY DEF Good, Typed
<1>2. Rooms(t)
  BY <1>1 DEF Closed, Rooms, In
<1>. QED
  BY <1>2 DEF Good, Closed

(* _send to one in no room either sends the frame or drops the receiver.   *)
LEMMA SoloTells ==
  ASSUME NEW v, Good(v), NEW d \in v.live, v.room[d] = None, NEW f \in Frame
  PROVE  Told(v, SendSolo(v, d, f), d, f)
<1> DEFINE x == Shut(v, d, "send error")
           t == SendSolo(v, d, f)
<1>1. t = Push(v, d, f, x)
  BY DEF SendSolo
<1>2. CASE v.fuse[d] = 0
  <2>1. t = x
    BY <1>1, <1>2 DEF Push
  <2>2. Closed(v, t, d)
    BY <2>1, ShutCloses
  <2>3. Good(t)
    BY <2>2, ClosedGood
  <2> HIDE DEF t, x
  <2>. QED
    BY <1>2, <2>2, <2>3 DEF Told, Closed, Silent, t
<1>3. CASE v.fuse[d] # 0
  <2>1. Said(v, t, d, f) /\ Good(t)
    BY <1>1, <1>3, PushSays
  <2> HIDE DEF t
  <2>. QED
    BY <2>1 DEF Told, Said, Alike, t
<1>. QED
  BY <1>2, <1>3

(* A line of the log changes nothing of what one is told.                  *)
LEMMA ToldLog ==
  ASSUME NEW v, NEW t, NEW d \in Client, NEW f, Told(v, t, d, f), NEW x
  PROVE  Told(v, Log(t, x), d, f)
<1> DEFINE l == Log(t, x)
<1>1. Good(l) /\ Alike(t, l) /\ Silent(t, l, Client)
  BY LogGood DEF Told
<1> HIDE DEF l
<1>2. \A e \in Client : Out(l, e) = Out(t, e)
  BY <1>1 DEF Silent
<1>3. Told(v, l, d, f)
  BY <1>1, <1>2 DEF Told, Alike, Silent
<1>. QED
  BY <1>3 DEF l

-----------------------------------------------------------------------------
(* What a drop does, seen from the others: who sat with the one dropped is *)
(* in no room and has the news, if its own connection stands; for the rest *)
(* nothing has happened.                                                   *)
Mild(m, t) ==
  /\ t.name = m.name /\ t.autoGo = m.autoGo
  /\ \A d \in Client : m.fuse[d] = -1 => t.fuse[d] = -1

Unhurt(m, t, d) == Where(t, d) = Where(m, d) /\ Out(t, d) = Out(m, d)

Bereft(m, t, d) ==
  /\ Where(t, d) = Nowhere
  /\ \E f : News(Where(m, d), f) /\ Out(t, d) = Append(Out(m, d), f)

Quit(m, t, c) ==
  /\ Good(t) /\ Mild(m, t) /\ t.live \subseteq m.live \ {c}
  /\ Silent(m, t, (Client \ m.live) \cup {c})
  /\ m.room[c] # None => t.members[m.room[c]] = <<>>
  /\ \A d \in m.live \ {c} : IF Where(m, d).mate = c
                             THEN m.fuse[d] = -1 => d \in t.live /\ Bereft(m, t, d)
                             ELSE d \in t.live /\ Unhurt(m, t, d)

(* One in no room is the mate of nobody.                                   *)
LEMMA MateInRoom ==
  ASSUME NEW m, Good(m), NEW c \in Client, m.room[c] = None, NEW d \in Client
  PROVE  Where(m, d).mate # c
<1>1. CASE m.room[d] = None
  BY <1>1, ServerAssumption DEF Where, Nowhere
<1>2. CASE m.room[d] # None
  BY <1>2, SitsIn DEF Sits, Good
<1>. QED
  BY <1>1, <1>2

(* A drop of one in no room touches nobody else.                           *)
LEMMA SoloQuits ==
  ASSUME NEW m, Good(m), NEW c \in m.live, m.room[c] = None, NEW t, Closed(m, t, c)
  PROVE  Quit(m, t, c)
<1>1. c \in Client /\ m.live \subseteq Client
  BY DEF Good, Typed
<1>2. Good(t)
  BY ClosedGood
<1>3. \A d \in Client : Where(t, d) = Where(m, d)
  BY SamePlace DEF Closed
<1>4. \A d \in Client : Where(m, d).mate # c
  BY <1>1, MateInRoom
<1>. QED
  BY <1>1, <1>2, <1>3, <1>4 DEF Quit, Mild, Unhurt, Closed, Silent

(* A room that is over, and the news of it on its way or its receiver      *)
(* dropped too: the whole of a drop.                                       *)
LEMMA VacatedQuits ==
  ASSUME NEW m, Good(m), NEW c \in m.live, m.room[c] # None,
         NEW v, Vacated(m, v, c),
         NEW f, News(Where(m, Where(m, c).mate), f),
         NEW t, Told(v, t, Where(m, c).mate, f)
  PROVE  Quit(m, t, c)
<1> DEFINE d == Where(m, c).mate
           r == m.room[c]
<1>1. /\ Typed(m) /\ c \in Client /\ m.live \subseteq Client /\ Sits(m, c)
      /\ m.room \in [Client -> RoomId \cup {None}] /\ m.members \in [RoomId -> Seq(Client)]
  BY SitsIn DEF Good, Typed
<1>2. /\ r \in RoomId /\ d \in m.live /\ d # c /\ m.room[d] = r /\ d \in Client
      /\ \A e \in Client : m.room[e] = r => e \in {c, d}
  BY <1>1 DEF Sits
<1>3. Where(m, d).mate = c
  BY <1>1, <1>2, Opposite
<1>4. /\ Good(v) /\ v.live = m.live \ {c} /\ v.name = m.name /\ v.autoGo = m.autoGo
      /\ v.room = [e \in Client |-> IF m.room[e] = r THEN None ELSE m.room[e]]
      /\ v.members = [m.members EXCEPT ![r] = <<>>] /\ v.started = m.started \ {r}
      /\ v.fuse = m.fuse /\ \A e \in Client : Out(v, e) = Out(m, e)
  BY DEF Vacated, Emptied, Silent
<1>5. /\ Good(t) /\ t.name = v.name /\ t.autoGo = v.autoGo
      /\ t.room = v.room /\ t.members = v.members /\ t.started = v.started
      /\ t.live \subseteq v.live /\ v.live \ {d} \subseteq t.live
      /\ \A e \in Client : v.fuse[e] = -1 => t.fuse[e] = -1
      /\ \A e \in Client \ {d} : Out(t, e) = Out(v, e)
      /\ v.fuse[d] = -1 => d \in t.live /\ Out(t, d) = Append(Out(v, d), f)
  BY DEF Told, Silent
<1>6. News(Where(m, d), f)
  OBVIOUS
<1> HIDE DEF d, r
<1>7. t.members[r] = <<>>
  BY <1>1, <1>2, <1>4, <1>5
<1>8. ASSUME m.fuse[d] = -1
      PROVE  d \in t.live /\ Bereft(m, t, d)
  <2>1. t.room[d] = None
    BY <1>2, <1>4, <1>5
  <2>2. Where(t, d) = Nowhere
    BY <2>1 DEF Where
  <2>. QED
    BY <1>2, <1>4, <1>5, <1>6, <1>8, <2>2 DEF Bereft
<1>9. ASSUME NEW e \in m.live \ {c}, e # d
      PROVE  e \in t.live /\ Unhurt(m, t, e) /\ Where(m, e).mate # c
  <2>1. e \in Client /\ m.room[e] # r
    BY <1>1, <1>2, <1>9
  <2>2. t.room[e] = m.room[e]
    BY <1>4, <1>5, <2>1
  <2>3. ASSUME m.room[e] # None
        PROVE  /\ t.members[m.room[e]] = m.members[m.room[e]]
               /\ m.room[e] \in t.started <=> m.room[e] \in m.started
               /\ \A i \in DOMAIN m.members[m.room[e]] :
                    t.name[m.members[m.room[e]][i]] = m.name[m.members[m.room[e]][i]]
    BY <1>1, <1>4, <1>5, <2>1, <2>3
  <2>4. Where(t, e) = Where(m, e)
    BY <2>2, <2>3, SamePlace
  <2>5. e \in t.live /\ Out(t, e) = Out(m, e)
    BY <1>4, <1>5, <1>9, <2>1
  <2>6. Where(m, e).mate # c
    <3>1. CASE m.room[e] = None
      BY <1>1, <3>1, ServerAssumption DEF Where, Nowhere
    <3>2. CASE m.room[e] # None
      <4>1. Sits(m, e)
        BY <2>1, <3>2, SitsIn DEF Good
      <4>. QED
        BY <2>1, <4>1 DEF Sits, r
    <3>. QED
      BY <3>1, <3>2
  <2>. QED
    BY <2>4, <2>5, <2>6 DEF Unhurt
<1>10. Mild(m, t)
  BY <1>4, <1>5 DEF Mild
<1>11. t.live \subseteq m.live \ {c}
  BY <1>4, <1>5
<1>12. Silent(m, t, (Client \ m.live) \cup {c})
  BY <1>1, <1>2, <1>4, <1>5 DEF Silent
<1>13. ASSUME NEW e \in m.live \ {c}
       PROVE  IF Where(m, e).mate = c THEN m.fuse[e] = -1 => e \in t.live /\ Bereft(m, t, e)
              ELSE e \in t.live /\ Unhurt(m, t, e)
  BY <1>3, <1>8, <1>9, <1>13
<1>. QED
  BY <1>5, <1>7, <1>10, <1>11, <1>12, <1>13 DEF Quit, r

(* _drop, with the news it sends: the mate of the one dropped is told and  *)
(* in no room, and all others are where they were.                         *)
LEMMA DropQuits ==
  ASSUME NEW m, Good(m), NEW c \in m.live, NEW why
  PROVE  Quit(m, Drop(m, c, why), c)
<1> DEFINE s == Shut(m, c, why)
           r == m.room[c]
           seat == Seat(m, c)
           d == Where(m, c).mate
           l == Taken(s, c)
<1>1. Closed(m, s, c)
  BY ShutCloses
<1>2. CASE m.room[c] = None
  <2>1. Drop(m, c, why) = s
    BY <1>2 DEF Drop
  <2>. QED
    BY <1>1, <1>2, <2>1, SoloQuits
<1>3. CASE m.room[c] # None
  <2>1. /\ Typed(m) /\ Rooms(m) /\ c \in Client /\ Sits(m, c) /\ m.live \subseteq Client
        /\ m.name \in [Client -> Name \cup {None}]
        /\ m.room \in [Client -> RoomId \cup {None}]
    BY <1>3, SitsIn DEF Good, Typed
  <2>2. /\ s.room = m.room /\ s.members = m.members /\ s.started = m.started
        /\ s.name = m.name /\ Typed(s) /\ s.sent = s.sent /\ s.fuse = m.fuse
    BY <1>1 DEF Closed
  <2>3. Seat(s, c) = seat /\ seat \in {0, 1}
    BY <2>1, <2>2 DEF Seat, Sits
  <2>4. /\ m.members[r] \in Seq(Client) /\ Len(m.members[r]) = 2
        /\ m.members[r][2 - seat] = d /\ d \in Client /\ d \in m.live /\ d # c
        /\ m.room[d] = r /\ r \in RoomId
    BY <2>1 DEF Sits
  <2>5. m.name[c] \in Name
    BY <1>3, <2>1 DEF Rooms
  <2>6. l = [s EXCEPT !.room[c] = None, !.members[r] = RemoveAt(@, seat + 1)]
    BY <2>2, <2>3 DEF Taken
  <2>7. l.members[r][1] = d
    <3>1. RemoveAt(m.members[r], seat + 1)[1] = d
      BY <2>3, <2>4, RemoveOne
    <3>2. l.members = [s.members EXCEPT ![r] = RemoveAt(s.members[r], seat + 1)]
      BY <2>2, <2>6 DEF Typed
    <3>3. r \in DOMAIN s.members
      BY <2>2, <2>4 DEF Typed
    <3>. QED
      BY <2>2, <3>1, <3>2, <3>3
  <2>8. Drop(m, c, why) = Leave(s, c, r, seat)
    BY <1>3 DEF Drop
  <2>9. ASSUME NEW u, Alike(l, u), u.sent = s.sent, u.fuse = s.fuse,
               NEW f, News(Where(m, d), f), NEW t, Told(Vacate(u, r), t, d, f)
        PROVE  Quit(m, t, c)
    <3>1. Vacated(m, Vacate(u, r), c)
      BY <1>1, <1>3, <2>9, VacateDoes
    <3>. QED
      BY <1>3, <2>9, <3>1, VacatedQuits
  <2>10. ASSUME NEW u, Alike(l, u), u.sent = s.sent, u.fuse = s.fuse, NEW f \in Frame
         PROVE  Told(Vacate(u, r), SendSolo(Vacate(u, r), d, f), d, f)
    <3> DEFINE v == Vacate(u, r)
    <3>1. Vacated(m, v, c)
      BY <1>1, <1>3, <2>10, VacateDoes
    <3>2. Good(v) /\ v.live = m.live \ {c}
          /\ v.room = [e \in Client |-> IF m.room[e] = r THEN None ELSE m.room[e]]
      BY <3>1 DEF Vacated, Emptied
    <3> HIDE DEF v
    <3>3. d \in v.live /\ v.room[d] = None
      BY <2>4, <3>2
    <3>4. Told(v, SendSolo(v, d, f), d, f)
      BY <3>2, <3>3, SoloTells
    <3>. QED
      BY <3>4 DEF v
  <2>11. ASSUME NEW x
         PROVE  /\ Alike(l, Log(l, x)) /\ Log(l, x).sent = s.sent /\ Log(l, x).fuse = s.fuse
                /\ Alike(l, l) /\ l.sent = s.sent /\ l.fuse = s.fuse
    <3>0. Alike(s, s)
      BY <2>2 DEF Alike
    <3>1. Typed(l) /\ l.sent = s.sent /\ l.fuse = s.fuse
      <4> DEFINE e == RemoveAt(s.members[r], seat + 1)
      <4>1. e \in Seq(Client)
        BY <2>2, <2>3, <2>4, RemoveOne
      <4>2. l = [s EXCEPT !.room[c] = None, !.members[r] = e]
        BY <2>6
      <4> HIDE DEF e, s, l
      <4>. QED
        BY <2>2, <2>4, <4>1, <4>2 DEF Typed
    <3> HIDE DEF l
    <3>2. Log(l, x) = [l EXCEPT !.log = Append(l.log, x)]
      BY DEF Log
    <3>3. /\ Typed(Log(l, x)) /\ Log(l, x).live = l.live /\ Log(l, x).name = l.name
          /\ Log(l, x).byName = l.byName /\ Log(l, x).room = l.room
          /\ Log(l, x).members = l.members /\ Log(l, x).started = l.started
          /\ Log(l, x).crc = l.crc /\ Log(l, x).ok = l.ok /\ Log(l, x).autoGo = l.autoGo
          /\ Log(l, x).sent = l.sent /\ Log(l, x).fuse = l.fuse
      BY <3>1, <3>2 DEF Typed
    <3>. QED
      BY <3>1, <3>3 DEF Alike
  <2>12. (r \in m.started) = Where(m, d).on
    BY <1>3, <2>4 DEF Where
  <2>13. CASE r \in m.started
    <3> DEFINE f == <<"PEER_LEFT", seat, m.name[c]>>
               u == Log(l, <<"match ended", s.ok[r], s.name[c], seat>>)
               v == Vacate(u, r)
               t == SendSolo(v, d, f)
               x == <<"back to lobby", Who(v, d)>>
    <3>1. f \in Frame /\ News(Where(m, d), f)
      <4>1. f \in Frame
        BY <2>3, <2>5 DEF Frame
      <4>2. f[1] = "PEER_LEFT"
        OBVIOUS
      <4>. QED
        BY <2>12, <2>13, <4>1, <4>2 DEF News
    <3>2. Drop(m, c, why) = Log(t, x)
      <4>1. l.ok[r] = s.ok[r] /\ s.name = m.name
        BY <2>2, <2>6
      <4>2. Leave(s, c, r, seat) = BackToLobby(v, l.members[r][1], f)
        BY <2>2, <2>6, <2>13 DEF Leave
      <4>. QED
        BY <2>7, <2>8, <4>2 DEF BackToLobby
    <3>3. Told(v, t, d, f)
      BY <2>10, <2>11, <3>1
    <3>4. Told(v, Log(t, x), d, f)
      <4> HIDE DEF v, t, f, x
      <4>. QED
        BY <2>4, <3>3, ToldLog
    <3>. QED
      BY <2>9, <2>11, <3>1, <3>2, <3>4
  <2>14. CASE r \notin m.started
    <3> DEFINE f == <<"ROOM", 0, <<>>>>
               y == <<"dissolved", Roster(l, r)>>
    <3>1. f \in Frame /\ News(Where(m, d), f)
      <4>1. f \in Frame
        BY DEF Frame
      <4>2. ~Where(m, d).on
        BY <2>12, <2>14
      <4>. QED
        BY <4>1, <4>2 DEF News
    <3>2. \/ Drop(m, c, why) = SendSolo(Vacate(Log(l, y), r), d, f)
          \/ Drop(m, c, why) = SendSolo(Vacate(l, r), d, f)
      <4>1. l.members[r][1] = d
        BY <2>7
      <4>2. Leave(s, c, r, seat) = IF seat = 0 THEN Dissolve(Log(l, y), r, d)
                                   ELSE Dissolve(l, r, d)
        BY <2>2, <2>6, <2>14, <4>1 DEF Leave
      <4>. QED
        BY <2>8, <4>2 DEF Dissolve
    <3> HIDE DEF f, l
    <3>. QED
      BY <2>9, <2>10, <2>11, <3>1, <3>2
  <2>. QED
    BY <2>13, <2>14
<1>. QED
  BY <1>2, <1>3

-----------------------------------------------------------------------------
(* _send either sends the frame or drops the receiver.                     *)
LEMMA SendDoes ==
  ASSUME NEW m, Good(m), NEW c \in m.live, NEW f \in Frame
  PROVE  LET t == Send(m, c, f)
         IN  \/ m.fuse[c] = 0 /\ Quit(m, t, c)
             \/ Said(m, t, c, f) /\ Good(t)
<1> DEFINE w == Drop(m, c, "send error")
<1>1. Send(m, c, f) = Push(m, c, f, w)
  BY DEF Send
<1>2. CASE m.fuse[c] = 0
  <2>1. Send(m, c, f) = w
    BY <1>1, <1>2 DEF Push
  <2>. QED
    BY <1>2, <2>1, DropQuits
<1>3. CASE m.fuse[c] # 0
  <2> HIDE DEF w
  <2>. QED
    BY <1>1, <1>3, PushSays
<1>. QED
  BY <1>2, <1>3

(* The two of a room.                                                      *)
LEMMA RoomOfTwo ==
  ASSUME NEW m, Good(m), NEW r \in RoomId, m.members[r] # <<>>
  PROVE  LET a == m.members[r][1]
             b == m.members[r][2]
         IN  /\ Len(m.members[r]) = 2 /\ DOMAIN m.members[r] = 1 .. 2
             /\ a \in m.live /\ b \in m.live /\ a \in Client /\ b \in Client
             /\ a # b /\ m.room[a] = r /\ m.room[b] = r /\ r # None
             /\ m.name[a] # None /\ m.name[b] # None
             /\ Where(m, a).mate = b /\ Where(m, a).seat = 0
             /\ Where(m, b).mate = a /\ Where(m, b).seat = 1
             /\ \A d \in Client : m.room[d] = r => d \in {a, b}
             /\ \A d \in Client : Where(m, d).mate = a => d = b
             /\ \A d \in Client : Where(m, d).mate = b => d = a
<1> DEFINE p == m.members[r]
           a == p[1]
           b == p[2]
<1>1. /\ Typed(m) /\ Rooms(m) /\ p \in Seq(Client) /\ r # None
      /\ m.room \in [Client -> RoomId \cup {None}] /\ None \notin Client
  BY ServerAssumption DEF Good, Typed
<1>2. /\ Len(p) = 2 /\ a # b /\ m.room[a] = r /\ m.room[b] = r
      /\ \A d \in Client : m.room[d] = r => d \in {a, b}
  BY <1>1 DEF Rooms, In
<1>3. DOMAIN p = 1 .. 2 /\ a \in Client /\ b \in Client
  BY <1>1, <1>2
<1>4. /\ a \in m.live /\ b \in m.live /\ m.name[a] # None /\ m.name[b] # None
  BY <1>1, <1>2, <1>3 DEF Rooms
<1>5. Where(m, a).mate = b /\ Where(m, b).mate = a
  BY <1>1, <1>2, <1>3, Opposite
<1>6. Seat(m, a) = 0 /\ Seat(m, b) = 1
  BY <1>2, <1>3, SeatIs
<1>7. Where(m, a).seat = 0 /\ Where(m, b).seat = 1
  BY <1>1, <1>2, <1>6 DEF Where
<1>8. ASSUME NEW d \in Client, Where(m, d).mate \in {a, b}
      PROVE  d = IF Where(m, d).mate = a THEN b ELSE a
  <2>1. m.room[d] # None
    BY <1>1, <1>3, <1>8 DEF Where, Nowhere
  <2>2. Sits(m, d)
    BY <1>1, <2>1, SitsIn
  <2>3. m.room[d] = r /\ d # Where(m, d).mate
    BY <1>2, <1>8, <2>2 DEF Sits
  <2>. QED
    BY <1>2, <1>8, <2>3
<1>9. /\ \A d \in Client : Where(m, d).mate = a => d = b
      /\ \A d \in Client : Where(m, d).mate = b => d = a
  BY <1>2, <1>8
<1>. QED
  BY <1>1, <1>2, <1>3, <1>4, <1>5, <1>7, <1>9

(* A broadcast reaches both, or ends at the first broken connection, whose *)
(* drop takes the other out of the room.                                   *)
Spread(m, t, r, f, g) ==
  LET a == m.members[r][1]
      b == m.members[r][2]
  IN  \/ m.fuse[a] = 0 /\ Quit(m, t, a)
      \/ \E u : /\ Said(m, u, a, f) /\ Good(u)
                /\ \/ u.fuse[b] = 0 /\ Quit(u, t, b)
                   \/ Said(u, t, b, g) /\ Good(t)

(* A broadcast in a room is sent to both, or ends in the drop of one of    *)
(* them.                                                                   *)
LEMMA EachSpreads ==
  ASSUME NEW m, Good(m), NEW r \in RoomId, m.members[r] # <<>>,
         NEW f \in Frame, NEW g \in Frame
  PROVE  Spread(m, SendEach(m, r, <<f, g>>), r, f, g)
<1> DEFINE a == m.members[r][1]
           b == m.members[r][2]
           u == Send(m, a, f)
           t == SendEach(m, r, <<f, g>>)
<1>1. a \in m.live /\ b \in m.live /\ m.room[a] = r /\ r # None
  BY RoomOfTwo
<1>2. t = IF u.members[r] = <<>> THEN u ELSE Send(u, b, g)
  <2>1. <<f, g>>[1] = f /\ <<f, g>>[2] = g
    OBVIOUS
  <2>. QED
    BY <2>1 DEF SendEach
<1>3. \/ m.fuse[a] = 0 /\ Quit(m, u, a)
      \/ Said(m, u, a, f) /\ Good(u)
  BY <1>1, SendDoes
<1> HIDE DEF u, t
<1>4. CASE m.fuse[a] = 0 /\ Quit(m, u, a)
  <2>1. u.members[r] = <<>>
    BY <1>1, <1>4 DEF Quit
  <2>. QED
    BY <1>2, <1>4, <2>1 DEF Spread, t
<1>5. CASE Said(m, u, a, f) /\ Good(u)
  <2>1. u.members = m.members /\ u.live = m.live
    BY <1>5 DEF Said, Alike
  <2>2. t = Send(u, b, g)
    BY <1>2, <2>1
  <2>3. \/ u.fuse[b] = 0 /\ Quit(u, t, b)
        \/ Said(u, t, b, g) /\ Good(t)
    BY <1>1, <1>5, <2>1, <2>2, SendDoes
  <2>. QED
    BY <1>5, <2>3 DEF Spread, t
<1>. QED
  BY <1>3, <1>4, <1>5

-----------------------------------------------------------------------------
(* What one is told.  Frame x, sent to the one whose name is own while     *)
(* frame f of connection c is handled, takes its console from place w to   *)
(* place v.                                                                *)
Tell(w, x, v, own, c, f) ==
  /\ x \in Frame
  /\ \/ v = w /\ x[1] = "LOBBY"
     \/ v = w /\ w.on /\ w.mate = c /\ x = f /\ x[1] = "INPUT"
     \/ w = Nowhere /\ v.in /\ ~v.on /\ Fair(v, own) /\ x = <<"ROOM", 2, v.names>>
     \/ /\ w.in /\ ~w.on /\ Fair(w, own) /\ v = [w EXCEPT !.on = TRUE]
        /\ x = <<"START", w.seat, 2, Delay, w.names>>
     \/ v = Nowhere /\ (News(w, x) \/ x[1] = "PEER_LEFT")

(* One turn of the server sends a console two frames at most.              *)
Came(w, o, v, p, own, c, f) ==
  \/ v = w /\ p = o
  \/ \E x : Tell(w, x, v, own, c, f) /\ p = Append(o, x)
  \/ \E x, y : \E u \in Whereabouts :
       /\ Tell(w, x, u, own, c, f) /\ Tell(u, y, v, own, c, f)
       /\ p = Append(Append(o, x), y)

(* The others have been told all that has happened to them.                *)
FaresOne(m, t, d, c, f) ==
  IF d \in t.live
  THEN Came(Where(m, d), Out(m, d), Where(t, d), Out(t, d), m.name[d], c, f)
  ELSE Out(t, d) = Out(m, d)

Fares(m, t, c, f) ==
  /\ Good(t) /\ t.live \subseteq m.live /\ t.autoGo = m.autoGo
  /\ Silent(m, t, Client \ m.live)
  /\ \A d \in m.live : m.fuse[d] = -1 => FaresOne(m, t, d, c, f)

(* Who has lost his mate and who has lost nothing have been told.          *)
LEMMA BereftCame ==
  ASSUME NEW m, NEW t, NEW d, NEW own, NEW c, NEW f
  PROVE  /\ Unhurt(m, t, d) => Came(Where(m, d), Out(m, d), Where(t, d), Out(t, d), own, c, f)
         /\ Bereft(m, t, d) => Came(Where(m, d), Out(m, d), Where(t, d), Out(t, d), own, c, f)
<1>1. CASE Unhurt(m, t, d)
  BY <1>1 DEF Unhurt, Came
<1>2. CASE Bereft(m, t, d)
  <2>1. PICK x : News(Where(m, d), x) /\ Out(t, d) = Append(Out(m, d), x)
    BY <1>2 DEF Bereft
  <2>2. Tell(Where(m, d), x, Where(t, d), own, c, f)
    BY <1>2, <2>1 DEF Tell, Bereft, News
  <2>. QED
    BY <2>1, <2>2 DEF Came
<1>. QED
  BY <1>1, <1>2

(* Who is left by a drop has been told, whatever is being handled.         *)
LEMMA QuitFares ==
  ASSUME NEW m, Good(m), NEW c \in m.live, NEW t, Quit(m, t, c), NEW e, NEW f
  PROVE  Fares(m, t, e, f)
<1>1. m.live \subseteq Client
  BY DEF Good, Typed
<1>2. ASSUME NEW d \in m.live, m.fuse[d] = -1
      PROVE  FaresOne(m, t, d, e, f)
  <2>1. CASE d = c
    BY <1>1, <2>1 DEF FaresOne, Quit, Silent
  <2>2. CASE d # c
    <3>1. d \in t.live /\ (Bereft(m, t, d) \/ Unhurt(m, t, d))
      BY <1>2, <2>2 DEF Quit
    <3>. QED
      BY <3>1, BereftCame DEF FaresOne
  <2>. QED
    BY <2>1, <2>2
<1>. QED
  BY <1>2 DEF Fares, Quit, Mild, Silent

(* Who sits where is read from the books.                                  *)
LEMMA AlikePlaces ==
  ASSUME NEW m, NEW t, Alike(m, t), NEW d \in Client
  PROVE  Where(t, d) = Where(m, d)
BY SamePlace DEF Alike

(* One frame that leads its receiver to where he is leaves all informed.   *)
LEMMA SaidFares ==
  ASSUME NEW m, Good(m), NEW c \in m.live, NEW x, NEW t, Said(m, t, c, x), Good(t),
         NEW e, NEW f, Tell(Where(m, c), x, Where(m, c), m.name[c], e, f)
  PROVE  Fares(m, t, e, f)
<1>1. m.live \subseteq Client /\ Alike(m, t) /\ t.live = m.live /\ t.autoGo = m.autoGo
  BY DEF Good, Typed, Said, Alike
<1>2. ASSUME NEW d \in m.live
      PROVE  FaresOne(m, t, d, e, f)
  <2>1. Where(t, d) = Where(m, d)
    BY <1>1, AlikePlaces
  <2>2. CASE d = c
    <3>1. Out(t, d) = Append(Out(m, d), x)
      BY <2>2 DEF Said
    <3>2. Tell(Where(m, d), x, Where(t, d), m.name[d], e, f)
      BY <2>1, <2>2
    <3>. QED
      BY <1>1, <3>1, <3>2 DEF FaresOne, Came
  <2>3. CASE d # c
    <3>1. Out(t, d) = Out(m, d)
      BY <1>1, <2>3 DEF Said, Silent
    <3>. QED
      BY <1>1, <2>1, <3>1 DEF FaresOne, Came
  <2>. QED
    BY <2>2, <2>3
<1>. QED
  BY <1>1, <1>2 DEF Fares, Said, Silent

(* Where nothing happens there is nothing to tell.                         *)
LEMMA StillFares ==
  ASSUME NEW m, Good(m), NEW e, NEW f
  PROVE  Fares(m, m, e, f)
BY DEF Fares, Silent, FaresOne, Came

(* A line of the log changes nothing of who is informed.                   *)
LEMMA FaresLog ==
  ASSUME NEW m, Good(m), NEW t, NEW c, NEW f, Fares(m, t, c, f), NEW x
  PROVE  Fares(m, Log(t, x), c, f) /\ Log(t, x).name = t.name
<1> DEFINE l == Log(t, x)
<1>1. Good(l) /\ Alike(t, l) /\ Silent(t, l, Client)
  BY LogGood DEF Fares
<1> HIDE DEF l
<1>2. m.live \subseteq Client
  BY DEF Good, Typed
<1>3. \A d \in Client : Where(l, d) = Where(t, d) /\ Out(l, d) = Out(t, d)
  BY <1>1, AlikePlaces DEF Silent
<1>4. l.live = t.live /\ l.name = t.name /\ l.autoGo = t.autoGo
  BY <1>1 DEF Alike
<1>5. ASSUME NEW d \in m.live, m.fuse[d] = -1
      PROVE  FaresOne(m, l, d, c, f)
  <2>1. FaresOne(m, t, d, c, f)
    BY <1>5 DEF Fares
  <2>2. Where(l, d) = Where(t, d) /\ Out(l, d) = Out(t, d)
    BY <1>2, <1>3
  <2>. QED
    BY <1>4, <2>1, <2>2 DEF FaresOne
<1>6. Fares(m, l, c, f)
  BY <1>1, <1>3, <1>4, <1>5 DEF Fares, Silent
<1>. QED
  BY <1>4, <1>6 DEF l

-----------------------------------------------------------------------------
(* LIST and HELLO.                                                         *)

(* The first n of a sequence.                                              *)
LEMMA FrontOfSeq ==
  ASSUME NEW S, NEW p \in Seq(S), NEW n \in Nat, n <= Len(p)
  PROVE  LET s == SubSeq(p, 1, n)
         IN  /\ s \in Seq(S) /\ Len(s) = n /\ DOMAIN s = 1 .. n
             /\ \A i \in 1 .. n : s[i] = p[i]
<1> DEFINE s == SubSeq(p, 1, n)
<1>1. \A i \in 1 .. n : p[i] \in S
  <2>1. \A i \in 1 .. n : i \in 1 .. Len(p)
    OBVIOUS
  <2>. QED
    BY <2>1, ElementOfSeq
<1>2. /\ s \in Seq(S) /\ Len(s) = (IF 1 <= n THEN n - 1 + 1 ELSE 0)
      /\ \A i \in 1 .. n - 1 + 1 : s[i] = p[1 + i - 1]
  BY <1>1, SubSeqProperties
<1> HIDE DEF s
<1>3. Len(s) = n /\ \A i \in 1 .. n : s[i] = p[i]
  BY <1>2
<1>. QED
  BY <1>2, <1>3 DEF s

(* A list goes to the one it is for; nothing else is done.                 *)
Listed(m, t, c) ==
  \/ m.fuse[c] = 0 /\ Quit(m, t, c)
  \/ \E x \in Frame : x[1] = "LOBBY" /\ Said(m, t, c, x) /\ Good(t)

(* LIST is answered to the one who asked, with at most ListMax players, or *)
(* ends in his drop.                                                       *)
LEMMA ListDoes ==
  ASSUME NEW m, Good(m), NEW c \in m.live
  PROVE  Listed(m, OnList(m, c), c)
<1> DEFINE p == Others(m, c)
           n == IF Len(p) < ListMax THEN Len(p) ELSE ListMax
           s == SubSeq(p, 1, n)
           l == [i \in DOMAIN s |-> <<m.name[s[i].client], Status(m, s[i].client)>>]
           x == <<"LOBBY", l>>
<1>1. /\ Typed(m) /\ Dict(m) /\ ListMax \in Nat /\ m.live \subseteq Client
      /\ None \notin Name /\ m.members \in [RoomId -> Seq(Client)]
      /\ m.room \in [Client -> RoomId \cup {None}]
  BY ServerAssumption DEF Good, Typed
<1>2. /\ p \in Seq([name : Name, client : Client])
      /\ \A i \in DOMAIN p : \E k \in DOMAIN m.byName :
           p[i] = m.byName[k] /\ m.byName[k].client # c
  BY <1>1, OthersListed
<1> HIDE DEF p
<1>3. n \in Nat /\ n <= Len(p)
  BY <1>1, <1>2
<1> HIDE DEF n
<1>4. DOMAIN s = 1 .. n /\ \A i \in 1 .. n : s[i] = p[i] /\ i \in DOMAIN p
  <2>1. DOMAIN s = 1 .. n /\ \A i \in 1 .. n : s[i] = p[i]
    BY <1>2, <1>3, FrontOfSeq
  <2>2. \A i \in 1 .. n : i \in DOMAIN p
    BY <1>2, <1>3
  <2>. QED
    BY <2>1, <2>2
<1> HIDE DEF s
<1>5. ASSUME NEW i \in 1 .. n
      PROVE  <<m.name[s[i].client], Status(m, s[i].client)>> \in Name \X Nat
  <2>1. PICK k \in DOMAIN m.byName : s[i] = m.byName[k]
    BY <1>2, <1>4
  <2> DEFINE d == s[i].client
             r == m.room[d]
  <2>2. d \in m.live /\ m.name[d] = m.byName[k].name
    BY <1>1, <2>1 DEF Dict
  <2>3. m.byName[k].name \in Name
    <3>1. m.byName \in Seq([name : Name, client : Client])
      BY <1>1 DEF Typed
    <3>2. m.byName[k] \in [name : Name, client : Client]
      <4>1. k \in 1 .. Len(m.byName)
        BY <2>1, <3>1
      <4>. QED
        BY <3>1, <4>1, ElementOfSeq
    <3>. QED
      BY <3>2
  <2>4. Status(m, d) \in Nat
    <3>1. CASE r = None
      BY <3>1 DEF Status
    <3>2. CASE r # None
      <4>1. r \in RoomId /\ m.members[r] \in Seq(Client)
        BY <1>1, <2>2, <3>2
      <4>2. Len(m.members[r]) \in Nat
        BY <4>1, LenProperties
      <4>3. \/ Status(m, d) = Len(m.members[r]) + 128
            \/ Status(m, d) = Len(m.members[r]) + 0
        BY <3>2 DEF Status
      <4> HIDE DEF r
      <4>. QED
        BY <4>2, <4>3
    <3>. QED
      BY <3>1, <3>2
  <2>. QED
    BY <2>2, <2>3, <2>4
<1>6. l \in Seq(Name \X Nat)
  <2>1. l = [i \in 1 .. n |-> <<m.name[s[i].client], Status(m, s[i].client)>>]
    BY <1>4
  <2>2. l \in [1 .. n -> Name \X Nat]
    BY <1>5, <2>1
  <2>. QED
    BY <1>3, <2>2
<1>7. OnList(m, c) = Send(m, c, x)
  BY DEF OnList, p, n, s
<1> HIDE DEF l
<1>8. x \in Frame /\ x[1] = "LOBBY"
  BY <1>6 DEF Frame
<1> HIDE DEF x
<1>. QED
  BY <1>7, <1>8, SendDoes DEF Listed

(* The answer to LIST leaves all informed and changes no name.             *)
LEMMA ListedFares ==
  ASSUME NEW m, Good(m), NEW c \in m.live, NEW t, Listed(m, t, c), NEW e, NEW f
  PROVE  Fares(m, t, e, f) /\ t.name = m.name
<1>1. CASE Quit(m, t, c)
  BY <1>1, QuitFares DEF Quit, Mild
<1>2. ASSUME NEW x \in Frame, x[1] = "LOBBY", Said(m, t, c, x), Good(t)
      PROVE  Fares(m, t, e, f) /\ t.name = m.name
  <2>1. Tell(Where(m, c), x, Where(m, c), m.name[c], e, f)
    BY <1>2 DEF Tell
  <2>. QED
    BY <1>2, <2>1, SaidFares DEF Said, Alike
<1>. QED
  BY <1>1, <1>2 DEF Listed

(* A player with a name that nobody has is entered.                        *)
Entered(m, c, n) == [Enter(m, c, n) EXCEPT !.name[c] = n]

(* HELLO with a name that is free enters the player and moves nobody.      *)
LEMMA EnterDoes ==
  ASSUME NEW m, Good(m), NEW c \in m.live, m.name[c] = None, NEW n \in Name,
         Named(m, n) = {}
  PROVE  LET t == Entered(m, c, n)
         IN  /\ Good(t) /\ t.name = [m.name EXCEPT ![c] = n]
             /\ t.live = m.live /\ t.room = m.room /\ t.members = m.members
             /\ t.started = m.started /\ t.fuse = m.fuse /\ t.autoGo = m.autoGo
             /\ Silent(m, t, Client)
<1> DEFINE e == [name |-> n, client |-> c]
           q == m.byName
           p == Append(q, e)
           t == Entered(m, c, n)
           E == [name : Name, client : Client]
<1>1. /\ Typed(m) /\ Sending(m) /\ Rooms(m) /\ Dict(m) /\ Few(m) /\ Tables(m)
      /\ c \in Client /\ m.live \subseteq Client /\ q \in Seq(E) /\ None # n
      /\ m.name \in [Client -> Name \cup {None}]
  BY ServerAssumption DEF Good, Typed
<1>2. e \in E
  BY <1>1
<1>3. /\ p \in Seq(E) /\ Len(p) = Len(q) + 1 /\ p[Len(q) + 1] = e
      /\ \A i \in 1 .. Len(q) : p[i] = q[i]
  BY <1>1, <1>2, AppendProperties
<1>4. t = [m EXCEPT !.byName = p, !.name[c] = n]
  BY DEF Entered, Enter
<1> HIDE DEF t, p
<1>5. /\ Typed(t) /\ t.live = m.live /\ t.name = [m.name EXCEPT ![c] = n]
      /\ t.byName = p /\ t.room = m.room /\ t.members = m.members
      /\ t.started = m.started /\ t.crc = m.crc /\ t.sent = m.sent
      /\ t.fuse = m.fuse /\ t.autoGo = m.autoGo
  BY <1>1, <1>3, <1>4 DEF Typed
<1>6. Len(q) \in Nat /\ DOMAIN q = 1 .. Len(q) /\ DOMAIN p = 1 .. Len(q) + 1
  BY <1>1, <1>3
<1>7. \A i \in DOMAIN p : i = Len(q) + 1 \/ i \in DOMAIN q
  BY <1>6
<1>8. ASSUME NEW i \in DOMAIN q
      PROVE  q[i].name # n /\ q[i].client # c /\ q[i].client \in m.live
  <2>1. q[i].client \in m.live /\ m.name[q[i].client] = q[i].name
    BY <1>1 DEF Dict
  <2>2. q[i] \in E
    <3>1. i \in 1 .. Len(q)
      BY <1>1
    <3> HIDE DEF E, q
    <3>. QED
      BY <1>1, <3>1, ElementOfSeq
  <2>3. q[i].name \in Name
    BY <2>2
  <2>4. q[i].name # n
    BY DEF Named
  <2>5. q[i].client # c
    <3>1. None \notin Name
      BY ServerAssumption
    <3>. QED
      BY <2>1, <2>3, <3>1
  <2>. QED
    BY <2>1, <2>4, <2>5
<1>9. Dict(t)
  <2>1. \A i \in DOMAIN p : p[i].client \in t.live /\ t.name[p[i].client] = p[i].name
    <3>1. ASSUME NEW i \in DOMAIN q
          PROVE  p[i].client \in t.live /\ t.name[p[i].client] = p[i].name
      <4>1. p[i] = q[i] /\ q[i].client \in m.live /\ m.name[q[i].client] = q[i].name
        BY <1>1, <1>3, <1>6 DEF Dict
      <4>. QED
        BY <1>1, <1>5, <1>8, <4>1
    <3>2. p[Len(q) + 1].client \in t.live
          /\ t.name[p[Len(q) + 1].client] = p[Len(q) + 1].name
      BY <1>1, <1>3, <1>5
    <3>. QED
      BY <1>7, <3>1, <3>2
  <2>2. ASSUME NEW i \in DOMAIN p, NEW j \in DOMAIN p, p[i].name = p[j].name
        PROVE  i = j
    <3>1. \A k \in DOMAIN q : p[k] = q[k]
      BY <1>3, <1>6
    <3>2. p[Len(q) + 1].name = n
      BY <1>3
    <3>3. CASE i \in DOMAIN q /\ j \in DOMAIN q
      BY <1>1, <2>2, <3>1, <3>3 DEF Dict
    <3>. QED
      BY <1>7, <1>8, <2>2, <3>1, <3>2, <3>3
  <2>3. ASSUME NEW d \in t.live, t.name[d] # None
        PROVE  \E i \in DOMAIN p : p[i].client = d
    <3>1. CASE d = c
      BY <1>3, <1>6, <3>1
    <3>2. CASE d # c
      <4>1. d \in m.live /\ m.name[d] # None
        BY <1>1, <1>5, <2>3, <3>2
      <4>2. PICK i \in DOMAIN q : q[i].client = d
        BY <1>1, <4>1 DEF Dict
      <4>3. i \in DOMAIN p /\ p[i] = q[i]
        BY <1>3, <1>6, <4>2
      <4>. QED
        BY <4>2, <4>3
    <3>. QED
      BY <3>1, <3>2
  <2>. QED
    BY <1>5, <2>1, <2>2, <2>3 DEF Dict
<1>10. Rooms(t)
  <2>1. \A d \in Client : t.name[d] = None => m.name[d] = None
    BY <1>1, <1>5
  <2>. QED
    BY <1>1, <1>5, <2>1 DEF Rooms, In
<1>11. Sending(t) /\ Silent(m, t, Client)
  BY <1>1, <1>5, SameSending
<1>12. Few(t) /\ Tables(t)
  BY <1>1, <1>5 DEF Few, Tables
<1>13. Good(t)
  BY <1>5, <1>9, <1>10, <1>11, <1>12 DEF Good
<1>. QED
  BY <1>5, <1>11, <1>13 DEF t

(* Nothing happens to d.                                                   *)
Same(m, t, d) ==
  /\ d \in t.live <=> d \in m.live
  /\ d \in t.live => Where(t, d) = Where(m, d)
  /\ Out(t, d) = Out(m, d)

(* Who is informed and to whom nothing more happens is informed.           *)
LEMMA OneSame ==
  ASSUME NEW m, NEW u, NEW t, NEW d, NEW c, NEW f, FaresOne(m, u, d, c, f), Same(u, t, d)
  PROVE  FaresOne(m, t, d, c, f)
BY DEF FaresOne, Same

(* The player of a name that is taken over goes.                           *)
Freed(m, u, c, n) ==
  /\ Good(u) /\ Mild(m, u) /\ u.live \subseteq m.live /\ c \in u.live
  /\ Named(u, n) = {} /\ Same(m, u, c) /\ Silent(m, u, Client \ m.live)
  /\ \A f : \A d \in m.live : m.fuse[d] = -1 => FaresOne(m, u, d, c, f)

(* HELLO drops whoever has its name, and afterwards the name is free.      *)
LEMMA HelloFrees ==
  ASSUME NEW m, Good(m), NEW c \in m.live, m.name[c] = None, NEW n \in Name, NEW why
  PROVE  LET old == Named(m, n) \ {c}
             u == IF old = {} THEN m ELSE Drop(m, CHOOSE o \in old : TRUE, why)
         IN  Freed(m, u, c, n)
<1> DEFINE old == Named(m, n) \ {c}
           o == CHOOSE x \in old : TRUE
           u == IF old = {} THEN m ELSE Drop(m, o, why)
<1>1. /\ Typed(m) /\ Rooms(m) /\ Dict(m) /\ c \in Client /\ m.live \subseteq Client
      /\ None # n
  BY ServerAssumption DEF Good, Typed
<1>2. \A x \in Named(m, n) : x \in m.live /\ m.name[x] = n
  BY <1>1 DEF Named, Dict
<1>3. CASE old = {}
  <2>1. Named(m, n) = {}
    BY <1>1, <1>2, <1>3
  <2>2. Same(m, m, c) /\ Mild(m, m) /\ Silent(m, m, Client \ m.live)
    BY DEF Same, Mild, Silent
  <2>3. \A f : \A d \in m.live : m.fuse[d] = -1 => FaresOne(m, m, d, c, f)
    BY StillFares DEF Fares
  <2>. QED
    BY <1>3, <2>1, <2>2, <2>3 DEF Freed
<1>4. CASE old # {}
  <2>1. o \in old
    BY <1>4
  <2> HIDE DEF o
  <2>2. o \in m.live /\ m.name[o] = n /\ o # c
    BY <1>2, <2>1
  <2> HIDE DEF old
  <2>3. u = Drop(m, o, why)
    BY <1>4
  <2> HIDE DEF u
  <2>4. Quit(m, u, o)
    BY <2>2, <2>3, DropQuits
  <2>5. Good(u) /\ u.name = m.name /\ u.live \subseteq m.live \ {o} /\ Mild(m, u)
    BY <2>4 DEF Quit, Mild
  <2>6. Named(u, n) = {}
    <3>1. ASSUME NEW i \in DOMAIN u.byName, u.byName[i].name = n
          PROVE  FALSE
      <4>1. /\ u.byName[i].client \in u.live
            /\ u.name[u.byName[i].client] = u.byName[i].name
        BY <2>5 DEF Good, Dict
      <4>2. u.byName[i].client \in m.live \ {o} /\ m.name[u.byName[i].client] = n
        BY <2>5, <3>1, <4>1
      <4>. QED
        BY <1>1, <2>2, <4>2, NamesDiffer
    <3>. QED
      BY <3>1 DEF Named
  <2>7. Where(m, c).mate # o
    <3>1. m.room[c] = None
      BY <1>1 DEF Rooms
    <3>2. Where(m, c).mate = None /\ None \notin Client
      BY <3>1, ServerAssumption DEF Where, Nowhere
    <3>. QED
      BY <1>1, <2>2, <3>2
  <2>8. c \in u.live /\ Unhurt(m, u, c)
    BY <2>2, <2>4, <2>7 DEF Quit
  <2>9. Same(m, u, c)
    BY <2>8 DEF Same, Unhurt
  <2>10. Silent(m, u, Client \ m.live)
    BY <2>4 DEF Quit, Silent
  <2>11. \A f : \A d \in m.live : m.fuse[d] = -1 => FaresOne(m, u, d, c, f)
    BY <2>2, <2>4, QuitFares DEF Fares
  <2>12. Freed(m, u, c, n)
    BY <2>5, <2>6, <2>8, <2>9, <2>10, <2>11 DEF Freed
  <2>. QED
    BY <2>12 DEF u, old, o
<1>. QED
  BY <1>3, <1>4

(* A HELLO that is the first of its connection leaves all informed, and    *)
(* enters its name.                                                        *)
LEMMA HelloFares ==
  ASSUME NEW m, Good(m), NEW c \in m.live, m.name[c] = None, NEW n \in Name,
         NEW f, f = <<"HELLO", Version, n>>
  PROVE  LET t == OnHello(m, c, f)
         IN  Fares(m, t, c, f) /\ t.name = [m.name EXCEPT ![c] = n]
<1> DEFINE old == Named(m, n) \ {c}
           u == IF old = {} THEN m
                ELSE Drop(m, CHOOSE o \in old : TRUE, "replaced by new connection")
           e == Entered(u, c, n)
           l == Log(e, <<"hello", n>>)
           t == OnHello(m, c, f)
<1>1. f[2] = Version /\ f[3] = n /\ Len(f) = 3 /\ Version = 2
  BY DEF Version
<1>2. Freed(m, u, c, n)
  BY HelloFrees
<1>3. t = OnList(l, c)
  <2>1. u.name[c] = None
    BY <1>2 DEF Freed, Mild
  <2>2. Rename(u, c, n) = u
    <3> HIDE DEF u
    <3>. QED
      BY <2>1 DEF Rename
  <2>3. Entered(Rename(u, c, n), c, n) = e
    BY <2>2
  <2>4. ~(Len(f) < 3) /\ ~(f[2] # Version) /\ ~(f[3] \notin Name)
    BY <1>1
  <2>5. t = OnList(Log(Entered(Rename(u, c, n), c, n), <<"hello", n>>), c)
    <3>1. f[3] = n
      BY <1>1
    <3>. QED
      BY <2>4, <3>1 DEF OnHello, Entered
  <2>. QED
    BY <2>3, <2>5
<1> HIDE DEF u, t
<1>4. /\ Typed(m) /\ m.live \subseteq Client /\ c \in Client
      /\ Good(u) /\ u.name = m.name /\ u.autoGo = m.autoGo /\ u.live \subseteq m.live
      /\ c \in u.live /\ u.name[c] = None /\ Named(u, n) = {}
  BY <1>2 DEF Freed, Mild, Good, Typed
<1>5. /\ Good(e) /\ e.name = [u.name EXCEPT ![c] = n]
      /\ e.live = u.live /\ e.room = u.room /\ e.members = u.members
      /\ e.started = u.started /\ e.autoGo = u.autoGo
      /\ Silent(u, e, Client)
  BY <1>4, EnterDoes
<1> HIDE DEF e
<1>6. Good(l) /\ Alike(e, l) /\ Silent(e, l, Client)
  BY <1>5, LogGood
<1> HIDE DEF l
<1>7. u.room[c] = None /\ l.room[c] = None
  BY <1>4, <1>5, <1>6 DEF Good, Rooms, Alike
<1>8. \A d \in Client : Where(l, d) = Where(u, d)
  <2>1. SUFFICES ASSUME NEW d \in Client
                 PROVE  Where(l, d) = Where(u, d)
    OBVIOUS
  <2>2. Where(l, d) = Where(e, d)
    BY <1>6, AlikePlaces
  <2>3. ASSUME u.room[d] # None, NEW i \in DOMAIN u.members[u.room[d]]
        PROVE  e.name[u.members[u.room[d]][i]] = u.name[u.members[u.room[d]][i]]
    <3> DEFINE p == u.members[u.room[d]]
    <3>1. Sits(u, d) /\ Typed(u)
      BY <1>4, <2>3, SitsIn DEF Good
    <3>2. Len(p) = 2 /\ p \in Seq(Client) /\ u.room[p[1]] = u.room[d] /\ u.room[p[2]] = u.room[d]
      BY <3>1 DEF Sits
    <3>3. i = 1 \/ i = 2
      BY <2>3, <3>2
    <3>4. p[i] # c /\ p[i] \in Client
      BY <1>7, <2>3, <3>2, <3>3
    <3>. QED
      BY <1>5, <3>1, <3>4 DEF Typed
  <2>4. Where(e, d) = Where(u, d)
    BY <1>5, <2>3, SamePlace
  <2>. QED
    BY <2>2, <2>4
<1>9. \A d \in Client : Out(l, d) = Out(u, d)
  BY <1>5, <1>6 DEF Silent
<1>10. l.live = u.live /\ l.autoGo = m.autoGo /\ l.name = [m.name EXCEPT ![c] = n]
  BY <1>4, <1>5, <1>6 DEF Alike
<1>11. Listed(l, t, c)
  BY <1>3, <1>4, <1>6, <1>10, ListDoes
<1>12. Fares(l, t, c, f) /\ t.name = l.name
  BY <1>4, <1>6, <1>10, <1>11, ListedFares
<1>13. ASSUME NEW d \in Client \ {c}
       PROVE  Same(l, t, d)
  <2>1. CASE Quit(l, t, c)
    <3>1. CASE d \in l.live
      <4>1. Where(l, d).mate # c
        BY <1>4, <1>6, <1>7, MateInRoom
      <4>. QED
        BY <2>1, <3>1, <4>1 DEF Quit, Unhurt, Same
    <3>2. CASE d \notin l.live
      BY <2>1, <3>2 DEF Quit, Silent, Same
    <3>. QED
      BY <3>1, <3>2
  <2>2. ASSUME NEW x, Said(l, t, c, x)
        PROVE  Same(l, t, d)
    BY <2>2, AlikePlaces DEF Said, Same, Silent, Alike
  <2>. QED
    BY <1>11, <2>1, <2>2 DEF Listed
<1>14. ASSUME NEW d \in Client \ {c}
       PROVE  Same(u, t, d)
  BY <1>8, <1>9, <1>10, <1>13 DEF Same
<1>15. FaresOne(m, t, c, c, f)
  <2>1. Where(m, c) = Where(l, c) /\ Out(m, c) = Out(l, c)
    BY <1>2, <1>4, <1>8, <1>9 DEF Freed, Same
  <2>2. CASE Quit(l, t, c)
    BY <1>4, <2>1, <2>2 DEF Quit, Silent, FaresOne
  <2>3. ASSUME NEW x \in Frame, x[1] = "LOBBY", Said(l, t, c, x)
        PROVE  FaresOne(m, t, c, c, f)
    <3>1. Out(t, c) = Append(Out(m, c), x) /\ Where(t, c) = Where(m, c)
      BY <1>4, <2>1, <2>3, AlikePlaces DEF Said
    <3>2. t.live = l.live
      BY <2>3 DEF Said, Alike
    <3>3. Tell(Where(m, c), x, Where(t, c), m.name[c], c, f)
      BY <2>3, <3>1 DEF Tell
    <3>. QED
      BY <1>4, <1>10, <3>1, <3>2, <3>3 DEF FaresOne, Came
  <2>. QED
    BY <1>11, <2>2, <2>3 DEF Listed
<1>16. ASSUME NEW d \in m.live, m.fuse[d] = -1
       PROVE  FaresOne(m, t, d, c, f)
  <2>1. CASE d = c
    BY <1>15, <2>1
  <2>2. CASE d # c
    <3>1. FaresOne(m, u, d, c, f)
      BY <1>2, <1>16 DEF Freed
    <3>2. Same(u, t, d)
      BY <1>4, <1>14, <2>2
    <3>. QED
      BY <3>1, <3>2, OneSame
  <2>. QED
    BY <2>1, <2>2
<1>17. Silent(m, t, Client \ m.live)
  <2>1. \A d \in Client \ m.live : Out(u, d) = Out(m, d) /\ d # c
    BY <1>2, <1>4 DEF Freed, Silent
  <2>2. \A d \in Client \ m.live : Out(t, d) = Out(u, d)
    BY <1>14, <2>1 DEF Same
  <2>. QED
    BY <2>1, <2>2 DEF Silent
<1>18. Good(t) /\ t.live \subseteq m.live /\ t.autoGo = m.autoGo
  BY <1>4, <1>10, <1>12 DEF Fares
<1>. QED
  BY <1>10, <1>12, <1>16, <1>17, <1>18 DEF Fares, t

-----------------------------------------------------------------------------
(* There is always a room for two who are in none.                         *)
Seats(m) == [x \in RoomId \X {1, 2} |-> m.members[x[1]][x[2]]]

(* If no room is free, everybody sits but who is in none.                  *)
LEMMA SeatsTaken ==
  ASSUME NEW m, Good(m), FreeRooms(m) = {}, NEW c, NEW d, m.room[c] = None, m.room[d] = None
  PROVE  Seats(m) \in Injection(RoomId \X {1, 2}, (m.live \ {c}) \ {d})
<1> DEFINE S == RoomId \X {1, 2}
           T == (m.live \ {c}) \ {d}
           f == Seats(m)
<1>1. \A r \in RoomId : m.members[r] # <<>>
  BY DEF FreeRooms
<1>2. None \notin RoomId
  BY ServerAssumption
<1>3. ASSUME NEW r \in RoomId, NEW i \in {1, 2}
      PROVE  /\ m.members[r][i] \in T /\ m.room[m.members[r][i]] = r
             /\ m.members[r][1] # m.members[r][2]
  <2>1. /\ m.members[r][1] \in m.live /\ m.room[m.members[r][1]] = r
        /\ m.members[r][2] \in m.live /\ m.room[m.members[r][2]] = r
        /\ m.members[r][1] # m.members[r][2]
    BY <1>1, RoomOfTwo
  <2>2. i = 1 \/ i = 2
    OBVIOUS
  <2>3. m.members[r][i] \in m.live /\ m.room[m.members[r][i]] = r
    BY <2>1, <2>2
  <2>. QED
    BY <1>2, <2>1, <2>3
<1>4. \A x \in S : x[1] \in RoomId /\ x[2] \in {1, 2} /\ x = <<x[1], x[2]>>
  OBVIOUS
<1>5. \A x \in S : f[x] = m.members[x[1]][x[2]]
  BY DEF Seats
<1>6. \A x \in S : f[x] \in T /\ m.room[f[x]] = x[1]
  BY <1>3, <1>4, <1>5
<1>7. f \in [S -> T]
  <2>1. f = [x \in S |-> f[x]]
    BY DEF Seats
  <2> HIDE DEF f, S, T
  <2>. QED
    BY <1>6, <2>1
<1>8. ASSUME NEW x \in S, NEW y \in S, f[x] = f[y]
      PROVE  x = y
  <2>1. x[1] = y[1]
    BY <1>6, <1>8
  <2>2. m.members[x[1]][x[2]] = m.members[x[1]][y[2]]
    BY <1>5, <1>8, <2>1
  <2>3. /\ x[1] \in RoomId /\ m.members[x[1]][1] # m.members[x[1]][2]
        /\ (x[2] = 1 \/ x[2] = 2) /\ (y[2] = 1 \/ y[2] = 2)
    BY <1>3, <1>4
  <2>4. x[2] = y[2]
    BY <2>2, <2>3
  <2>. QED
    BY <1>4, <2>1, <2>4
<1> HIDE DEF f, S, T
<1>9. f \in Injection(S, T)
  BY <1>7, <1>8 DEF Injection, IsInjective
<1>. QED
  BY <1>9 DEF f, S, T

(* Two seats to a room.                                                    *)
LEMMA PairCardinality == IsFiniteSet({1, 2}) /\ Cardinality({1, 2}) = 2
<1>1. IsFiniteSet({1}) /\ Cardinality({1}) = 1
  BY FS_Singleton
<1>2. IsFiniteSet({1} \cup {2}) /\ Cardinality({1} \cup {2}) = Cardinality({1}) + 1
  BY <1>1, FS_AddElement
<1>3. {1} \cup {2} = {1, 2}
  OBVIOUS
<1>. QED
  BY <1>1, <1>2, <1>3

(* Two connected players who are in no room find one: no more connections  *)
(* are open than two for every room and one more, so the seats of the      *)
(* rooms cannot all be taken by the others.                                *)
THEOREM RoomIsFree ==
  ASSUME NEW m, Good(m), NEW c \in m.live, NEW d \in m.live, c # d,
         m.room[c] = None, m.room[d] = None
  PROVE  FreeRooms(m) # {}
<1> DEFINE S == RoomId \X {1, 2}
           T == (m.live \ {c}) \ {d}
           n == Cardinality(RoomId)
           k == Cardinality(m.live)
<1>1. SUFFICES ASSUME FreeRooms(m) = {}
               PROVE  FALSE
  OBVIOUS
<1>2. Seats(m) \in Injection(S, T)
  BY <1>1, SeatsTaken
<1>3. IsFiniteSet(m.live) /\ k <= MaxPerIp /\ k \in Nat
  BY FS_CardinalityType DEF Good, Few
<1>4. IsFiniteSet(m.live \ {c}) /\ Cardinality(m.live \ {c}) = k - 1
  BY <1>3, FS_RemoveElement
<1>5. IsFiniteSet(T) /\ Cardinality(T) = k - 2
  <2>1. d \in m.live \ {c}
    OBVIOUS
  <2>2. Cardinality(T) = Cardinality(m.live \ {c}) - 1 /\ IsFiniteSet(T)
    BY <1>4, <2>1, FS_RemoveElement
  <2>. QED
    BY <1>3, <1>4, <2>2
<1>6. n \in Nat /\ IsFiniteSet(RoomId) /\ MaxPerIp \in Nat /\ MaxPerIp <= 2 * n + 1
  BY ServerAssumption, FS_CardinalityType
<1>7. Cardinality(S) = n * 2
  BY <1>6, PairCardinality, FS_Product
<1>8. Cardinality(S) <= Cardinality(T)
  <2> HIDE DEF S, T
  <2>. QED
    BY <1>2, <1>5, FS_Injection
<1> HIDE DEF S, T, n, k
<1>. QED
  BY <1>3, <1>5, <1>6, <1>7, <1>8

-----------------------------------------------------------------------------
(* What a broadcast of x to the first and y to the second of a room comes  *)
(* to: each whose connection stands has his frame and is where he was, or  *)
(* has the news of the other's end, after the frame or instead of it.      *)
Reached(l, t, d, x) ==
  /\ d \in t.live
  /\ \/ Where(t, d) = Where(l, d) /\ Out(t, d) = Append(Out(l, d), x)
     \/ /\ Where(t, d) = Nowhere
        /\ \E g : /\ News(Where(l, d), g)
                  /\ \/ Out(t, d) = Append(Append(Out(l, d), x), g)
                     \/ Out(t, d) = Append(Out(l, d), g)

Reaches(l, t, a, b, x, y) ==
  /\ Good(t) /\ Mild(l, t) /\ t.live \subseteq l.live
  /\ Silent(l, t, Client \ l.live)
  /\ l.fuse[a] = -1 => Reached(l, t, a, x)
  /\ l.fuse[b] = -1 => Reached(l, t, b, y)
  /\ \A d \in l.live \ {a, b} : d \in t.live /\ Unhurt(l, t, d)

(* A broadcast reaches the two of the room, and nobody else.               *)
LEMMA SpreadReaches ==
  ASSUME NEW l, Good(l), NEW r \in RoomId, l.members[r] # <<>>,
         NEW x, NEW y, NEW t, Spread(l, t, r, x, y)
  PROVE  Reaches(l, t, l.members[r][1], l.members[r][2], x, y)
<1> DEFINE a == l.members[r][1]
           b == l.members[r][2]
<1>1. /\ a \in l.live /\ b \in l.live /\ a \in Client /\ b \in Client /\ a # b
      /\ Where(l, a).mate = b /\ Where(l, b).mate = a
      /\ \A d \in Client : Where(l, d).mate = a => d = b
      /\ \A d \in Client : Where(l, d).mate = b => d = a
  BY RoomOfTwo
<1>2. l.live \subseteq Client
  BY DEF Good, Typed
<1>3. \/ l.fuse[a] = 0 /\ Quit(l, t, a)
      \/ \E u : /\ Said(l, u, a, x) /\ Good(u)
                /\ \/ u.fuse[b] = 0 /\ Quit(u, t, b)
                   \/ Said(u, t, b, y) /\ Good(t)
  BY DEF Spread
<1> HIDE DEF a, b
<1>4. CASE l.fuse[a] = 0 /\ Quit(l, t, a)
  <2>1. /\ Good(t) /\ Mild(l, t) /\ t.live \subseteq l.live
        /\ Silent(l, t, Client \ l.live)
    BY <1>4 DEF Quit, Silent
  <2>2. l.fuse[b] = -1 => Reached(l, t, b, y)
    <3>1. l.fuse[b] = -1 => b \in t.live /\ Bereft(l, t, b)
      BY <1>1, <1>4 DEF Quit
    <3>. QED
      BY <3>1 DEF Bereft, Reached
  <2>3. \A d \in l.live \ {a, b} : d \in t.live /\ Unhurt(l, t, d)
    BY <1>1, <1>2, <1>4 DEF Quit
  <2>. QED
    BY <1>4, <2>1, <2>2, <2>3 DEF Reaches, a, b
<1>5. ASSUME NEW u, Said(l, u, a, x), Good(u)
      PROVE  /\ Alike(l, u) /\ u.live = l.live /\ \A d \in Client : Where(u, d) = Where(l, d)
             /\ Out(u, a) = Append(Out(l, a), x)
             /\ \A d \in Client \ {a} : Out(u, d) = Out(l, d)
             /\ \A d \in Client : l.fuse[d] = -1 => u.fuse[d] = -1
             /\ Mild(l, u)
  <2>1. Alike(l, u) /\ Silent(l, u, Client \ {a}) /\ Out(u, a) = Append(Out(l, a), x)
    BY <1>5 DEF Said
  <2>. QED
    BY <2>1, AlikePlaces DEF Alike, Silent, Mild
<1>6. ASSUME NEW u, Said(l, u, a, x), Good(u), u.fuse[b] = 0, Quit(u, t, b)
      PROVE  Reaches(l, t, a, b, x, y)
  <2>1. /\ u.live = l.live /\ \A d \in Client : Where(u, d) = Where(l, d)
        /\ Out(u, a) = Append(Out(l, a), x)
        /\ \A d \in Client \ {a} : Out(u, d) = Out(l, d)
        /\ \A d \in Client : l.fuse[d] = -1 => u.fuse[d] = -1
        /\ Mild(l, u)
    BY <1>5, <1>6
  <2>2. Good(t) /\ Mild(l, t) /\ t.live \subseteq l.live
    BY <1>6, <2>1 DEF Quit, Mild
  <2>3. Silent(l, t, Client \ l.live)
    BY <1>1, <1>6, <2>1 DEF Quit, Silent
  <2>4. l.fuse[a] = -1 => Reached(l, t, a, x)
    <3>1. l.fuse[a] = -1 => a \in t.live /\ Bereft(u, t, a)
      BY <1>1, <1>6, <2>1 DEF Quit
    <3>. QED
      BY <1>1, <2>1, <3>1 DEF Bereft, Reached
  <2>5. l.fuse[b] # -1
    BY <1>1, <1>6, <2>1
  <2>6. \A d \in l.live \ {a, b} : d \in t.live /\ Unhurt(l, t, d)
    <3>1. \A d \in l.live \ {a, b} : d \in t.live /\ Unhurt(u, t, d)
      BY <1>1, <1>2, <1>6, <2>1 DEF Quit
    <3>. QED
      BY <1>2, <2>1, <3>1 DEF Unhurt
  <2>. QED
    BY <2>2, <2>3, <2>4, <2>5, <2>6 DEF Reaches
<1>7. ASSUME NEW u, Said(l, u, a, x), Good(u), Said(u, t, b, y), Good(t)
      PROVE  Reaches(l, t, a, b, x, y)
  <2>1. /\ u.live = l.live /\ \A d \in Client : Where(u, d) = Where(l, d)
        /\ Out(u, a) = Append(Out(l, a), x)
        /\ \A d \in Client \ {a} : Out(u, d) = Out(l, d)
        /\ Mild(l, u)
    BY <1>5, <1>7
  <2>2. /\ Alike(u, t) /\ Out(t, b) = Append(Out(u, b), y)
        /\ \A d \in Client \ {b} : Out(t, d) = Out(u, d)
    BY <1>7 DEF Said, Silent
  <2>3. t.live = l.live /\ \A d \in Client : Where(t, d) = Where(l, d)
    BY <2>1, <2>2, AlikePlaces DEF Alike
  <2>4. Mild(l, t)
    BY <2>1, <2>2 DEF Alike, Mild
  <2>5. Silent(l, t, Client \ l.live)
    BY <1>1, <2>1, <2>2 DEF Silent
  <2>6. Reached(l, t, a, x) /\ Reached(l, t, b, y)
    BY <1>1, <2>1, <2>2, <2>3 DEF Reached
  <2>7. \A d \in l.live \ {a, b} : d \in t.live /\ Unhurt(l, t, d)
    BY <1>2, <2>1, <2>2, <2>3 DEF Unhurt
  <2>. QED
    BY <1>7, <2>3, <2>4, <2>5, <2>6, <2>7 DEF Reaches
<1>. QED
  BY <1>3, <1>4, <1>6, <1>7 DEF a, b

-----------------------------------------------------------------------------
(* JOIN.                                                                   *)
SeatedAt(m, a, b, r) ==
  [m EXCEPT !.room[a] = r, !.room[b] = r, !.members[r] = <<a, b>>]

SeatedBoth(m, t, a, b, r) ==
  /\ Good(t) /\ t.live = m.live /\ t.name = m.name /\ t.autoGo = m.autoGo
  /\ t.fuse = m.fuse /\ Silent(m, t, Client)
  /\ t.members[r] = <<a, b>> /\ r \notin t.started /\ t.room[a] = r /\ t.room[b] = r
  /\ \A d \in Client \ {a, b} : Where(t, d) = Where(m, d)

(* Two players in no room, seated in a room that is free.                  *)
LEMMA SeatDoes ==
  ASSUME NEW m, Good(m), NEW a \in m.live, NEW b \in m.live, a # b,
         m.room[a] = None, m.room[b] = None, m.name[a] # None, m.name[b] # None,
         NEW r \in FreeRooms(m)
  PROVE  SeatedBoth(m, SeatedAt(m, a, b, r), a, b, r)
<1> DEFINE t == SeatedAt(m, a, b, r)
           p == <<a, b>>
<1>1. /\ Typed(m) /\ Sending(m) /\ Rooms(m) /\ Dict(m) /\ Few(m) /\ Tables(m)
      /\ m.live \subseteq Client /\ a \in Client /\ b \in Client
      /\ r \in RoomId /\ m.members[r] = <<>> /\ None \notin RoomId
      /\ m.room \in [Client -> RoomId \cup {None}] /\ m.members \in [RoomId -> Seq(Client)]
  BY ServerAssumption DEF Good, Typed, FreeRooms
<1>2. p \in Seq(Client) /\ Len(p) = 2 /\ p[1] = a /\ p[2] = b
  BY <1>1
<1>3. t = [m EXCEPT !.room[a] = r, !.room[b] = r, !.members[r] = p]
  BY DEF SeatedAt
<1> HIDE DEF t, p
<1>4. /\ Typed(t) /\ t.live = m.live /\ t.name = m.name /\ t.byName = m.byName
      /\ t.room = [m.room EXCEPT ![a] = r, ![b] = r]
      /\ t.members = [m.members EXCEPT ![r] = p]
      /\ t.started = m.started /\ t.crc = m.crc /\ t.sent = m.sent
      /\ t.fuse = m.fuse /\ t.autoGo = m.autoGo
  BY <1>1, <1>2, <1>3 DEF Typed
<1>5. /\ t.room[a] = r /\ t.room[b] = r /\ t.members[r] = p
      /\ \A d \in Client \ {a, b} : t.room[d] = m.room[d]
      /\ \A q \in RoomId \ {r} : t.members[q] = m.members[q]
  BY <1>1, <1>4
<1>6. r \notin m.started /\ \A d \in Client : ~In(m, d, r)
  <2>1. ~(Len(m.members[r]) = 2)
    BY <1>1
  <2>. QED
    BY <1>1, <2>1 DEF Rooms
<1>7. \A d \in Client : \A q \in RoomId \ {r} : In(t, d, q) <=> In(m, d, q)
  BY <1>1, <1>5 DEF In
<1>8. ASSUME NEW q \in RoomId
      PROVE  LET s == t.members[q]
             IN  \/ s = <<>> /\ q \notin t.started /\ \A d \in Client : ~In(t, d, q)
                 \/ /\ Len(s) = 2 /\ s[1] # s[2]
                    /\ \A d \in Client : In(t, d, q) => d \in {s[1], s[2]}
                    /\ In(t, s[1], q) /\ In(t, s[2], q)
  <2>1. CASE q = r
    <3>1. \A d \in Client : In(t, d, r) => d \in {a, b}
      BY <1>5, <1>6 DEF In
    <3>. QED
      BY <1>2, <1>5, <2>1, <3>1 DEF In
  <2>2. CASE q # r
    <3> DEFINE s == m.members[q]
    <3>1. t.members[q] = s /\ t.started = m.started /\ s \in Seq(Client)
      BY <1>1, <1>4, <1>5, <2>2
    <3>2. \A d \in Client : In(t, d, q) <=> In(m, d, q)
      BY <1>7, <2>2
    <3>3. CASE s = <<>> /\ q \notin m.started /\ \A d \in Client : ~In(m, d, q)
      BY <3>1, <3>2, <3>3
    <3>4. CASE /\ Len(s) = 2 /\ s[1] # s[2]
               /\ \A d \in Client : In(m, d, q) => d \in {s[1], s[2]}
               /\ In(m, s[1], q) /\ In(m, s[2], q)
      <4>1. s[1] \in Client /\ s[2] \in Client
        BY <3>1, <3>4
      <4>. QED
        BY <3>1, <3>2, <3>4, <4>1
    <3>. QED
      BY <1>1, <3>3, <3>4 DEF Rooms
  <2>. QED
    BY <2>1, <2>2
<1>9. \A d \in Client : t.room[d] # None => d \in t.live /\ t.name[d] # None
  <2>1. SUFFICES ASSUME NEW d \in Client, t.room[d] # None
                 PROVE  d \in m.live /\ m.name[d] # None
    BY <1>4
  <2>2. CASE d \in {a, b}
    BY <2>2
  <2>3. CASE d \notin {a, b}
    BY <1>1, <1>5, <2>1, <2>3 DEF Rooms
  <2>. QED
    BY <2>2, <2>3
<1>10. Rooms(t)
  BY <1>8, <1>9 DEF Rooms
<1>11. Sending(t) /\ Silent(m, t, Client)
  BY <1>1, <1>4, SameSending
<1>12. Dict(t) /\ Few(t) /\ Tables(t)
  BY <1>1, <1>4 DEF Dict, Few, Tables
<1>13. Good(t)
  BY <1>4, <1>10, <1>11, <1>12 DEF Good
<1>14. ASSUME NEW d \in Client \ {a, b}
       PROVE  Where(t, d) = Where(m, d)
  <2>1. t.room[d] = m.room[d] /\ m.room[d] # r /\ m.room[d] \in RoomId \cup {None}
    BY <1>1, <1>5, <1>6 DEF In
  <2>2. m.room[d] # None => t.members[m.room[d]] = m.members[m.room[d]]
    BY <1>5, <2>1
  <2>3. t.name = m.name /\ t.started = m.started
    BY <1>4
  <2>4. \A i \in DOMAIN m.members[m.room[d]] :
          t.name[m.members[m.room[d]][i]] = m.name[m.members[m.room[d]][i]]
    BY <2>3
  <2>5. t.room[d] = m.room[d]
    BY <2>1
  <2>. QED
    BY <2>2, <2>3, <2>4, <2>5, SamePlace
<1>. QED
  BY <1>4, <1>5, <1>6, <1>11, <1>13, <1>14 DEF SeatedBoth, t, p

(* The frames that take a player from one place to the next.               *)
LEMMA FairFrames ==
  ASSUME NEW w, NEW own, Fair(w, own)
  PROVE  /\ <<"ROOM", 2, w.names>> \in Frame
         /\ <<"START", w.seat, 2, Delay, w.names>> \in Frame
<1>1. PICK a \in Name, b \in Name : w.names = <<a, b>>
  BY DEF Fair
<1>2. <<"ROOM", 2, <<a, b>>>> \in Frame
  BY DEF Frame
<1>3. w.seat \in {0, 1}
  BY DEF Fair
<1>4. <<"START", w.seat, 2, Delay, <<a, b>>>> \in Frame
  BY <1>3 DEF Frame
<1>. QED
  BY <1>1, <1>2, <1>4

(* A player who is told of his room, or of its end at once, is informed.   *)
LEMMA RoomCame ==
  ASSUME NEW m, NEW l, NEW t, NEW d, NEW own, NEW c, NEW f,
         Where(m, d) = Nowhere, Out(l, d) = Out(m, d), Where(l, d) \in Whereabouts,
         Where(l, d).in, ~Where(l, d).on, Fair(Where(l, d), own),
         NEW x, x = <<"ROOM", 2, Where(l, d).names>>, Reached(l, t, d, x)
  PROVE  Came(Where(m, d), Out(m, d), Where(t, d), Out(t, d), own, c, f)
<1> DEFINE w == Where(l, d)
<1>1. x \in Frame
  BY FairFrames
<1>2. Tell(Where(m, d), x, w, own, c, f)
  BY <1>1 DEF Tell
<1>3. CASE Where(t, d) = w /\ Out(t, d) = Append(Out(m, d), x)
  BY <1>2, <1>3 DEF Came
<1>4. ASSUME NEW g, Where(t, d) = Nowhere, News(w, g),
             \/ Out(t, d) = Append(Append(Out(m, d), x), g)
             \/ Out(t, d) = Append(Out(m, d), g)
      PROVE  Came(Where(m, d), Out(m, d), Where(t, d), Out(t, d), own, c, f)
  <2>1. g \in Frame /\ g = <<"ROOM", 0, <<>>>>
    BY <1>4 DEF News
  <2>2. News(Nowhere, g)
    BY <2>1 DEF News, Nowhere
  <2>3. Tell(w, g, Where(t, d), own, c, f) /\ Tell(Where(m, d), g, Where(t, d), own, c, f)
    BY <1>4, <2>1, <2>2 DEF Tell
  <2>. QED
    BY <1>2, <1>4, <2>3 DEF Came
<1>. QED
  BY <1>3, <1>4 DEF Reached

(* JOIN seats two who are in no room and tells them so, if it can.         *)
LEMMA JoinFares ==
  ASSUME NEW m, Good(m), m.autoGo = 0, NEW c \in m.live, NEW n, NEW f, f = <<"JOIN", n>>
  PROVE  LET t == OnJoin(m, c, f) IN Fares(m, t, c, f) /\ t.name = m.name
<1> DEFINE a == CHOOSE t \in Named(m, n) : TRUE
           target == IF Named(m, n) = {} THEN None ELSE a
           r == CHOOSE x \in FreeRooms(m) : TRUE
           s == SeatedAt(m, a, c, r)
           l == Log(s, <<"join", Who(m, c), Roster(s, r)>>)
           t == RoomBroadcast(l, r)
<1>1. Len(f) = 2 /\ f[2] = n
  OBVIOUS
<1>2. /\ Typed(m) /\ Rooms(m) /\ Dict(m) /\ m.live \subseteq Client /\ None \notin Client
      /\ None \notin Name
  BY ServerAssumption DEF Good, Typed
<1>3. CASE m.name[c] = None
  <2> DEFINE u == Drop(m, c, "join before hello")
  <2>1. OnJoin(m, c, f) = u
    BY <1>3 DEF OnJoin
  <2>2. Quit(m, u, c)
    BY DropQuits
  <2> HIDE DEF u
  <2>3. Fares(m, u, c, f)
    BY <2>2, QuitFares
  <2>. QED
    BY <2>1, <2>2, <2>3 DEF Quit, Mild
<1>4. CASE m.name[c] # None /\ m.room[c] # None
  <2>1. OnJoin(m, c, f) = m
    BY <1>4 DEF OnJoin
  <2>. QED
    BY <2>1, StillFares
<1>5. CASE m.name[c] # None /\ m.room[c] = None /\ ~Joinable(m, c, target)
  <2>1. OnJoin(m, c, f) = OnList(m, c)
    BY <1>1, <1>5 DEF OnJoin, Refresh
  <2>. QED
    BY <2>1, ListDoes, ListedFares
<1>6. CASE m.name[c] # None /\ m.room[c] = None /\ Joinable(m, c, target)
  <2>1. Named(m, n) # {} /\ target = a /\ a # c
    BY <1>6 DEF Joinable
  <2>2. a \in Named(m, n)
    BY <2>1
  <2>3. a \in m.live /\ a \in Client /\ m.name[a] # None
    <3>1. PICK i \in DOMAIN m.byName : m.byName[i].client = a
      BY <2>2 DEF Named
    <3>2. i \in 1 .. Len(m.byName) /\ m.byName \in Seq([name : Name, client : Client])
      BY <1>2, <3>1 DEF Typed
    <3>3. m.byName[i] \in [name : Name, client : Client]
      BY <3>2, ElementOfSeq
    <3>4. m.name[a] = m.byName[i].name /\ a \in m.live
      <4>1. /\ m.byName[i].client \in m.live
            /\ m.name[m.byName[i].client] = m.byName[i].name
        BY <1>2, <3>1 DEF Dict
      <4>. QED
        BY <3>1, <4>1
    <3>. QED
      BY <1>2, <3>3, <3>4
  <2>4. m.room[a] = None
    <3>1. SUFFICES ASSUME m.room[a] # None
                   PROVE  FALSE
      OBVIOUS
    <3>2. Len(m.members[m.room[a]]) = 2
      BY <1>2, <2>3, <3>1, SitsIn DEF Sits
    <3>3. Joinable(m, c, a)
      BY <1>6, <2>1
    <3>4. ~Full(m, m.room[a])
      BY <3>1, <3>3 DEF Joinable
    <3>. QED
      BY <3>2, <3>4 DEF Full, MaxSeats
  <2>5. FreeRooms(m) # {}
    BY <1>6, <2>1, <2>3, <2>4, RoomIsFree
  <2>6. r \in FreeRooms(m)
    BY <2>5
  <2>7. OnJoin(m, c, f) = t
    <3>1. (IF Len(f) < 2 \/ Named(m, f[2]) = {} THEN None
           ELSE CHOOSE x \in Named(m, f[2]) : TRUE) = a
      BY <1>1, <2>1
    <3>2. Joinable(m, c, a) /\ m.name[c] # None /\ m.room[c] = None /\ ~(m.autoGo > 0)
      BY <1>6, <2>1
    <3> HIDE DEF a
    <3>. QED
      BY <2>4, <3>1, <3>2 DEF OnJoin, SeatedAt
  <2> HIDE DEF a, r
  <2>8. SeatedBoth(m, s, a, c, r)
    BY <1>6, <2>1, <2>3, <2>4, <2>6, SeatDoes
  <2> HIDE DEF s
  <2>9. /\ Good(s) /\ s.live = m.live /\ s.name = m.name /\ s.autoGo = m.autoGo
        /\ s.fuse = m.fuse /\ \A d \in Client : Out(s, d) = Out(m, d)
        /\ s.members[r] = <<a, c>> /\ r \notin s.started /\ s.room[a] = r /\ s.room[c] = r
        /\ \A d \in Client \ {a, c} : Where(s, d) = Where(m, d)
    BY <2>8 DEF SeatedBoth, Silent
  <2>10. Good(l) /\ Alike(s, l) /\ Silent(s, l, Client)
    BY <2>9, LogGood
  <2> HIDE DEF l
  <2>11. /\ l.live = m.live /\ l.name = m.name /\ l.autoGo = m.autoGo
         /\ \A d \in Client : Out(l, d) = Out(m, d)
         /\ \A d \in Client : m.fuse[d] = -1 => l.fuse[d] = -1
         /\ l.members[r] = <<a, c>> /\ r \notin l.started /\ l.room[a] = r /\ l.room[c] = r
         /\ \A d \in Client \ {a, c} : Where(l, d) = Where(m, d)
    BY <2>9, <2>10, AlikePlaces DEF Alike, Silent
  <2>12. r \in RoomId /\ r # None /\ c \in Client
    BY <1>2, <2>6, ServerAssumption DEF FreeRooms
  <2> DEFINE x == <<"ROOM", 2, Roster(l, r)>>
  <2>13. t = SendEach(l, r, <<x, x>>)
    <3>1. Len(l.members[r]) = 2
      BY <2>11
    <3>. QED
      BY <3>1 DEF RoomBroadcast
  <2> HIDE DEF t
  <2>14. ASSUME NEW d \in {a, c}
         PROVE  /\ Where(l, d) \in Whereabouts /\ Where(l, d).in /\ ~Where(l, d).on
                /\ Fair(Where(l, d), m.name[d]) /\ x = <<"ROOM", 2, Where(l, d).names>>
    <3>1. d \in Client /\ l.room[d] = r
      BY <2>3, <2>11, <2>12, <2>14
    <3>2. Fair(Where(l, d), l.name[d]) /\ Roster(l, r) = Where(l, d).names
      BY <2>10, <2>12, <3>1, PlaceFair
    <3>3. Where(l, d).in /\ ~Where(l, d).on
      BY <2>11, <2>12, <3>1 DEF Where
    <3>4. Where(l, d) \in Whereabouts
      BY <2>10, <3>1, WhereIs
    <3>. QED
      BY <2>11, <3>2, <3>3, <3>4
  <2>15. x \in Frame
    BY <2>14, FairFrames
  <2>16. Reaches(l, t, a, c, x, x)
    <3>1. l.members[r] # <<>> /\ l.members[r][1] = a /\ l.members[r][2] = c
      BY <2>11
    <3> HIDE DEF x
    <3>2. Spread(l, t, r, x, x)
      BY <2>10, <2>12, <2>13, <2>15, <3>1, EachSpreads
    <3>. QED
      BY <2>10, <2>12, <3>1, <3>2, SpreadReaches
  <2> HIDE DEF x
  <2>17. ASSUME NEW d \in m.live, m.fuse[d] = -1
         PROVE  FaresOne(m, t, d, c, f)
    <3>1. d \in Client /\ l.fuse[d] = -1
      BY <1>2, <2>11, <2>17
    <3>2. CASE d \in {a, c}
      <4>1. Reached(l, t, d, x)
        BY <2>16, <3>1, <3>2 DEF Reaches
      <4>2. Where(m, d) = Nowhere
        BY <1>6, <2>4, <3>2 DEF Where
      <4>3. Out(l, d) = Out(m, d)
        BY <2>11, <3>1
      <4>4. Came(Where(m, d), Out(m, d), Where(t, d), Out(t, d), m.name[d], c, f)
        BY <2>14, <3>2, <4>1, <4>2, <4>3, RoomCame
      <4>. QED
        BY <4>1, <4>4 DEF Reached, FaresOne
    <3>3. CASE d \notin {a, c}
      <4>1. d \in t.live /\ Unhurt(l, t, d)
        BY <2>11, <2>16, <3>3 DEF Reaches
      <4>2. Where(t, d) = Where(m, d) /\ Out(t, d) = Out(m, d)
        BY <2>11, <3>1, <3>3, <4>1 DEF Unhurt
      <4>. QED
        BY <4>1, <4>2 DEF FaresOne, Came
    <3>. QED
      BY <3>2, <3>3
  <2>18. Good(t) /\ t.live \subseteq m.live /\ t.autoGo = m.autoGo /\ t.name = m.name
    BY <2>11, <2>16 DEF Reaches, Mild
  <2>19. Silent(m, t, Client \ m.live)
    BY <2>11, <2>16 DEF Reaches, Silent
  <2>. QED
    BY <2>7, <2>17, <2>18, <2>19 DEF Fares
<1>. QED
  BY <1>3, <1>4, <1>5, <1>6

-----------------------------------------------------------------------------
(* GO.                                                                     *)
Begun(m, r) == [m EXCEPT !.started = @ \cup {r}, !.crc[r] = {}, !.ok[r] = 0]

(* A match begins in a room of two: its players are in a match, and are    *)
(* where they were in everything else.                                     *)
LEMMA BegunDoes ==
  ASSUME NEW m, Good(m), NEW r \in RoomId, m.members[r] # <<>>
  PROVE  LET t == Begun(m, r)
         IN  /\ Good(t) /\ t.live = m.live /\ t.name = m.name /\ t.autoGo = m.autoGo
             /\ t.fuse = m.fuse /\ Silent(m, t, Client)
             /\ t.members = m.members /\ t.room = m.room
             /\ \A d \in Client :
                  Where(t, d) = IF m.room[d] = r THEN [Where(m, d) EXCEPT !.on = TRUE]
                                ELSE Where(m, d)
<1> DEFINE t == Begun(m, r)
<1>1. /\ Typed(m) /\ Sending(m) /\ Rooms(m) /\ Dict(m) /\ Few(m) /\ Tables(m)
      /\ m.crc \in [RoomId -> SUBSET Report] /\ None # r
  BY ServerAssumption DEF Good, Typed
<1>2. t = [m EXCEPT !.started = m.started \cup {r}, !.crc[r] = {}, !.ok[r] = 0]
  BY DEF Begun
<1> HIDE DEF t
<1>3. /\ Typed(t) /\ t.live = m.live /\ t.name = m.name /\ t.byName = m.byName
      /\ t.room = m.room /\ t.members = m.members /\ t.started = m.started \cup {r}
      /\ t.crc = [m.crc EXCEPT ![r] = {}] /\ t.sent = m.sent
      /\ t.fuse = m.fuse /\ t.autoGo = m.autoGo
  BY <1>1, <1>2 DEF Typed
<1>4. Rooms(t)
  <2>1. \A q \in RoomId \ {r} : q \in t.started <=> q \in m.started
    BY <1>3
  <2>2. ASSUME NEW q \in RoomId
        PROVE  LET p == m.members[q]
               IN  \/ p = <<>> /\ q \notin t.started /\ \A d \in Client : ~In(t, d, q)
                   \/ /\ Len(p) = 2 /\ p[1] # p[2]
                      /\ \A d \in Client : In(t, d, q) => d \in {p[1], p[2]}
                      /\ In(t, p[1], q) /\ In(t, p[2], q)
    BY <1>1, <1>3, <2>1 DEF Rooms, In
  <2>. QED
    BY <1>1, <1>3, <2>2 DEF Rooms
<1>5. Sending(t) /\ Silent(m, t, Client)
  BY <1>1, <1>3, SameSending
<1>6. Tables(t)
  <2>1. \A q \in RoomId : t.crc[q] = IF q = r THEN {} ELSE m.crc[q]
    BY <1>1, <1>3
  <2>. QED
    BY <1>1, <2>1, FS_EmptySet DEF Tables
<1>7. Dict(t) /\ Few(t)
  BY <1>1, <1>3 DEF Dict, Few
<1>8. Good(t)
  BY <1>3, <1>4, <1>5, <1>6, <1>7 DEF Good
<1>9. ASSUME NEW d \in Client
      PROVE  Where(t, d) = IF m.room[d] = r THEN [Where(m, d) EXCEPT !.on = TRUE]
                           ELSE Where(m, d)
  <2>1. CASE m.room[d] = r
    <3>1. Seat(t, d) = Seat(m, d)
      BY <1>3 DEF Seat
    <3>2. Roster(t, r) = Roster(m, r)
      BY <1>3 DEF Roster, Who
    <3>3. r \in t.started /\ t.room[d] = r /\ t.members = m.members
      BY <1>3, <2>1
    <3>4. Where(t, d) = [in |-> TRUE, on |-> TRUE, names |-> Roster(m, r),
                         seat |-> Seat(m, d), mate |-> m.members[r][2 - Seat(m, d)]]
      BY <1>1, <3>1, <3>2, <3>3 DEF Where
    <3>5. Where(m, d) = [in |-> TRUE, on |-> r \in m.started, names |-> Roster(m, r),
                         seat |-> Seat(m, d), mate |-> m.members[r][2 - Seat(m, d)]]
      BY <1>1, <2>1 DEF Where
    <3>6. ASSUME NEW w \in Whereabouts, NEW v \in Whereabouts, v.on, v.in = w.in,
                 v.names = w.names, v.seat = w.seat, v.mate = w.mate
          PROVE  v = [w EXCEPT !.on = TRUE]
      BY <3>6 DEF Whereabouts
    <3>7. Where(t, d) = [Where(m, d) EXCEPT !.on = TRUE]
      <4>1. Where(t, d) \in Whereabouts /\ Where(m, d) \in Whereabouts
        BY <1>8, WhereIs
      <4>2. /\ Where(t, d).on /\ Where(t, d).in = Where(m, d).in
            /\ Where(t, d).names = Where(m, d).names
            /\ Where(t, d).seat = Where(m, d).seat /\ Where(t, d).mate = Where(m, d).mate
        BY <3>4, <3>5
      <4>. QED
        BY <3>6, <4>1, <4>2
    <3>. QED
      BY <2>1, <3>7
  <2>2. CASE m.room[d] # r
    <3>1. t.room[d] = m.room[d] /\ t.members = m.members /\ t.name = m.name
      BY <1>3
    <3>2. m.room[d] \in t.started <=> m.room[d] \in m.started
      BY <1>3, <2>2
    <3>. QED
      BY <2>2, <3>1, <3>2, SamePlace
  <2>. QED
    BY <2>1, <2>2
<1>. QED
  BY <1>3, <1>5, <1>8, <1>9 DEF t

(* A player who is told of his match, or of its end at once, is informed.  *)
LEMMA StartCame ==
  ASSUME NEW m, NEW l, NEW t, NEW d, NEW own, NEW c, NEW f,
         Where(m, d).in, ~Where(m, d).on, Fair(Where(m, d), own),
         Where(m, d) \in Whereabouts, Where(l, d) = [Where(m, d) EXCEPT !.on = TRUE],
         Out(l, d) = Out(m, d),
         NEW x, x = <<"START", Where(m, d).seat, 2, Delay, Where(m, d).names>>,
         Reached(l, t, d, x)
  PROVE  Came(Where(m, d), Out(m, d), Where(t, d), Out(t, d), own, c, f)
<1> DEFINE w == Where(m, d)
           v == Where(l, d)
<1>1. x \in Frame
  BY FairFrames
<1>2. Tell(w, x, v, own, c, f)
  BY <1>1 DEF Tell
<1>3. v \in Whereabouts /\ v.on
  BY DEF Whereabouts
<1>4. CASE Where(t, d) = v /\ Out(t, d) = Append(Out(m, d), x)
  BY <1>2, <1>4 DEF Came
<1>5. ASSUME NEW g, Where(t, d) = Nowhere, News(v, g),
             \/ Out(t, d) = Append(Append(Out(m, d), x), g)
             \/ Out(t, d) = Append(Out(m, d), g)
      PROVE  Came(w, Out(m, d), Where(t, d), Out(t, d), own, c, f)
  <2> HIDE DEF w, v
  <2>1. g \in Frame /\ g[1] = "PEER_LEFT"
    BY <1>3, <1>5 DEF News
  <2>2. Tell(v, g, Where(t, d), own, c, f) /\ Tell(w, g, Where(t, d), own, c, f)
    BY <1>5, <2>1 DEF Tell
  <2>. QED
    BY <1>2, <1>3, <1>5, <2>2 DEF Came
<1>. QED
  BY <1>4, <1>5 DEF Reached

(* _start_room tells the two of a room their seats, if it can.             *)
LEMMA StartFares ==
  ASSUME NEW m, Good(m), NEW r \in RoomId, m.members[r] # <<>>, r \notin m.started,
         NEW c, NEW f
  PROVE  LET t == StartRoom(m, r) IN Fares(m, t, c, f) /\ t.name = m.name
<1> DEFINE a == m.members[r][1]
           b == m.members[r][2]
           l == Begun(m, r)
           x == <<"START", 0, 2, Delay, Roster(m, r)>>
           y == <<"START", 1, 2, Delay, Roster(m, r)>>
           u == SendEach(l, r, <<x, y>>)
           t == StartRoom(m, r)
<1>1. /\ Len(m.members[r]) = 2 /\ a \in m.live /\ b \in m.live /\ a \in Client /\ b \in Client
      /\ m.room[a] = r /\ m.room[b] = r /\ r # None /\ a # b
      /\ Where(m, a).seat = 0 /\ Where(m, b).seat = 1
      /\ \A d \in Client : m.room[d] = r => d \in {a, b}
  BY RoomOfTwo
<1>2. m.live \subseteq Client
  BY DEF Good, Typed
<1>3. t = Log(u, <<"match", Roster(u, r)>>)
  BY <1>1 DEF StartRoom, Begun
<1>4. /\ Good(l) /\ l.live = m.live /\ l.name = m.name /\ l.autoGo = m.autoGo
      /\ l.fuse = m.fuse /\ \A d \in Client : Out(l, d) = Out(m, d)
      /\ l.members = m.members
      /\ \A d \in Client :
           Where(l, d) = IF m.room[d] = r THEN [Where(m, d) EXCEPT !.on = TRUE]
                         ELSE Where(m, d)
  BY BegunDoes DEF Silent
<1> HIDE DEF t, l
<1>5. ASSUME NEW d \in {a, b}
      PROVE  /\ Where(m, d) \in Whereabouts /\ Where(m, d).in /\ ~Where(m, d).on
             /\ Fair(Where(m, d), m.name[d]) /\ Where(m, d).names = Roster(m, r)
  <2>1. d \in Client /\ m.room[d] = r
    BY <1>1, <1>5
  <2>2. Fair(Where(m, d), m.name[d]) /\ Where(m, d).names = Roster(m, r)
    BY <1>1, <2>1, PlaceFair
  <2>3. Where(m, d).in /\ ~Where(m, d).on
    BY <1>1, <2>1 DEF Where
  <2>. QED
    BY <2>1, <2>2, <2>3, WhereIs
<1>6. x \in Frame /\ y \in Frame
  <2>1. <<"START", Where(m, a).seat, 2, Delay, Where(m, a).names>> \in Frame
    BY <1>5, FairFrames
  <2>2. <<"START", Where(m, b).seat, 2, Delay, Where(m, b).names>> \in Frame
    BY <1>5, FairFrames
  <2>. QED
    BY <1>1, <1>5, <2>1, <2>2
<1>7. Reaches(l, u, a, b, x, y)
  <2> HIDE DEF x, y
  <2>1. Spread(l, u, r, x, y)
    BY <1>4, <1>6, EachSpreads
  <2> HIDE DEF u
  <2>2. Reaches(l, u, l.members[r][1], l.members[r][2], x, y)
    BY <1>4, <2>1, SpreadReaches
  <2>. QED
    BY <1>4, <2>2
<1> HIDE DEF u
<1>8. ASSUME NEW d \in m.live, m.fuse[d] = -1
      PROVE  FaresOne(m, u, d, c, f)
  <2>1. d \in Client /\ l.fuse[d] = -1 /\ Out(l, d) = Out(m, d)
    BY <1>2, <1>4, <1>8
  <2>2. ASSUME d \in {a, b},
               NEW z, z = <<"START", Where(m, d).seat, 2, Delay, Where(m, d).names>>,
               Reached(l, u, d, z)
        PROVE  FaresOne(m, u, d, c, f)
    <3>1. Where(l, d) = [Where(m, d) EXCEPT !.on = TRUE]
      BY <1>1, <1>4, <2>1, <2>2
    <3>2. Came(Where(m, d), Out(m, d), Where(u, d), Out(u, d), m.name[d], c, f)
      BY <1>5, <2>1, <2>2, <3>1, StartCame
    <3>. QED
      BY <2>2, <3>2 DEF Reached, FaresOne
  <2>3. CASE d = a
    <3>1. Reached(l, u, d, x)
      BY <1>7, <2>1, <2>3 DEF Reaches
    <3>2. x = <<"START", Where(m, d).seat, 2, Delay, Where(m, d).names>>
      BY <1>1, <1>5, <2>3
    <3>. QED
      BY <2>2, <2>3, <3>1, <3>2
  <2>4. CASE d = b
    <3>1. Reached(l, u, d, y)
      BY <1>7, <2>1, <2>4 DEF Reaches
    <3>2. y = <<"START", Where(m, d).seat, 2, Delay, Where(m, d).names>>
      BY <1>1, <1>5, <2>4
    <3>. QED
      BY <2>2, <2>4, <3>1, <3>2
  <2>5. CASE d \notin {a, b}
    <3>1. d \in u.live /\ Unhurt(l, u, d)
      BY <1>4, <1>7, <2>5 DEF Reaches
    <3>2. Where(l, d) = Where(m, d)
      BY <1>1, <1>4, <2>1, <2>5
    <3>. QED
      BY <2>1, <3>1, <3>2 DEF FaresOne, Came, Unhurt
  <2>. QED
    BY <2>3, <2>4, <2>5
<1>9. Good(u) /\ u.live \subseteq m.live /\ u.autoGo = m.autoGo /\ u.name = m.name
  BY <1>4, <1>7 DEF Reaches, Mild
<1>10. Silent(m, u, Client \ m.live)
  BY <1>4, <1>7 DEF Reaches, Silent
<1>11. Fares(m, u, c, f)
  BY <1>8, <1>9, <1>10 DEF Fares
<1>12. Fares(m, t, c, f) /\ t.name = u.name
  BY <1>3, <1>11, FaresLog
<1>. QED
  BY <1>9, <1>12 DEF t

-----------------------------------------------------------------------------
(* The whole turn.                                                         *)

(* A relayed INPUT goes to the one who sits opposite, in a match.          *)
LEMMA RelayFares ==
  ASSUME NEW m, Good(m), NEW c \in m.live, InMatch(m, c), NEW s \in {0, 1},
         NEW f, f = <<"INPUT", s>>
  PROVE  LET t == RelayOn(m, c, f) IN Fares(m, t, c, f) /\ t.name = m.name
<1> DEFINE d == Where(m, c).mate
           t == Send(m, d, f)
<1>1. /\ Typed(m) /\ m.live \subseteq Client /\ c \in Client /\ m.room[c] # None
      /\ m.room[c] \in m.started
  BY DEF Good, Typed, InMatch
<1>2. Sits(m, c)
  BY <1>1, SitsIn DEF Good
<1>3. /\ Seat(m, c) \in {0, 1} /\ m.members[m.room[c]] \in Seq(Client)
      /\ Len(m.members[m.room[c]]) = 2 /\ m.members[m.room[c]][2 - Seat(m, c)] = d
      /\ d \in m.live /\ d # c /\ m.room[d] = m.room[c] /\ d \in Client
  BY <1>1, <1>2 DEF Sits
<1> HIDE DEF d
<1>4. RelayOn(m, c, f) = t
  <2>1. RemoveAt(m.members[m.room[c]], Seat(m, c) + 1)[1] = d
    BY <1>3, RemoveOne
  <2>. QED
    BY <2>1 DEF RelayOn
<1>5. f \in Frame /\ f[1] = "INPUT"
  BY DEF Frame
<1>6. Where(m, d).mate = c /\ Where(m, d).on
  <2>1. Where(m, d).mate = c
    BY <1>1, <1>3, Opposite
  <2>. QED
    BY <1>1, <1>3, <2>1 DEF Where
<1>7. Tell(Where(m, d), f, Where(m, d), m.name[d], c, f)
  BY <1>5, <1>6 DEF Tell
<1>8. \/ Quit(m, t, d)
      \/ Said(m, t, d, f) /\ Good(t)
  BY <1>3, <1>5, SendDoes
<1> HIDE DEF t
<1>9. CASE Quit(m, t, d)
  BY <1>3, <1>4, <1>9, QuitFares DEF Quit, Mild
<1>10. CASE Said(m, t, d, f) /\ Good(t)
  BY <1>3, <1>4, <1>7, <1>10, SaidFares DEF Said, Alike
<1>. QED
  BY <1>8, <1>9, <1>10

(* Whatever a console sends, and whichever sends fail while it is handled, *)
(* the memory stays good, and everybody whose own connection stands has    *)
(* been sent the frames that lead from where he was to where he is.        *)
THEOREM HandleFares ==
  ASSUME NEW m, Good(m), m.autoGo = 0, NEW c \in m.live, NEW f \in Asked,
         f[1] = "HELLO" => m.name[c] = None
  PROVE  LET t == Handle(m, c, f)
         IN  /\ Fares(m, t, c, f)
             /\ t.name = IF f[1] = "HELLO" THEN [m.name EXCEPT ![c] = f[3]] ELSE m.name
<1> DEFINE t == Handle(m, c, f)
<1>1. ASSUME NEW n \in Name, f = <<"HELLO", Version, n>>
      PROVE  Fares(m, t, c, f) /\ t.name = [m.name EXCEPT ![c] = n]
  <2>1. f[1] = "HELLO" /\ m.name[c] = None
    BY <1>1
  <2>2. t = OnHello(m, c, f)
    BY <2>1 DEF Handle, Relayed
  <2>. QED
    BY <1>1, <2>1, <2>2, HelloFares
<1>2. CASE f = <<"LIST">>
  <2>1. f[1] = "LIST"
    BY <1>2
  <2>2. t = OnList(m, c)
    BY <2>1 DEF Handle, Relayed
  <2>. QED
    BY <2>1, <2>2, ListDoes, ListedFares
<1>3. CASE f = <<"GO">>
  <2>1. f[1] = "GO"
    BY <1>3
  <2>2. t = OnGo(m, c)
    BY <2>1 DEF Handle, Relayed
  <2>3. CASE t = m
    BY <2>1, <2>3, StillFares
  <2>4. CASE t # m
    <3> DEFINE r == m.room[c]
    <3>1. r # None /\ r \notin m.started /\ t = StartRoom(m, r)
      BY <2>2, <2>4 DEF OnGo
    <3>2. c \in Client /\ Typed(m) /\ Rooms(m)
      BY DEF Good, Typed
    <3>3. r \in RoomId /\ Len(m.members[r]) = 2
      BY <3>1, <3>2, SitsIn DEF Sits
    <3>4. m.members[r] # <<>>
      <4>1. m.members[r] \in Seq(Client)
        BY <3>2, <3>3 DEF Typed
      <4> DEFINE p == m.members[r]
      <4>2. p \in Seq(Client) /\ Len(p) = 2
        BY <3>3, <4>1
      <4> HIDE DEF p
      <4>3. p # <<>>
        BY <4>2
      <4>. QED
        BY <4>3 DEF p
    <3>. QED
      BY <2>1, <3>1, <3>3, <3>4, StartFares
  <2>. QED
    BY <2>3, <2>4
<1>4. ASSUME NEW n \in Name, f = <<"JOIN", n>>
      PROVE  Fares(m, t, c, f) /\ t.name = m.name
  <2>1. f[1] = "JOIN"
    BY <1>4
  <2>2. t = OnJoin(m, c, f)
    BY <2>1 DEF Handle, Relayed
  <2>. QED
    BY <1>4, <2>2, JoinFares
<1>5. ASSUME NEW s \in {0, 1}, f = <<"INPUT", s>>
      PROVE  Fares(m, t, c, f) /\ t.name = m.name
  <2>1. f[1] = "INPUT"
    BY <1>5
  <2>2. t = IF ~InMatch(m, c) THEN m ELSE RelayOn(m, c, f)
    BY <2>1 DEF Handle, Relayed
  <2>3. CASE ~InMatch(m, c)
    BY <2>2, <2>3, StillFares
  <2>4. CASE InMatch(m, c)
    BY <1>5, <2>2, <2>4, RelayFares
  <2>. QED
    BY <2>3, <2>4
<1> HIDE DEF t
<1>6. \/ \E n \in Name : f = <<"HELLO", Version, n>>
      \/ f = <<"LIST">> \/ f = <<"GO">>
      \/ \E n \in Name : f = <<"JOIN", n>>
      \/ \E s \in {0, 1} : f = <<"INPUT", s>>
  BY DEF Asked
<1>7. CASE \E n \in Name : f = <<"HELLO", Version, n>>
  <2>1. PICK n \in Name : f = <<"HELLO", Version, n>>
    BY <1>7
  <2>2. f[1] = "HELLO" /\ f[3] = n
    BY <2>1
  <2>. QED
    BY <1>1, <2>1, <2>2 DEF t
<1>8. CASE \E n \in Name : f = <<"JOIN", n>>
  BY <1>4, <1>8 DEF t
<1>9. CASE \E s \in {0, 1} : f = <<"INPUT", s>>
  BY <1>5, <1>9 DEF t
<1>. QED
  BY <1>2, <1>3, <1>6, <1>7, <1>8, <1>9 DEF t

(* The same of a connection that is dropped, for whatever reason.          *)
THEOREM DropFares ==
  ASSUME NEW m, Good(m), NEW c \in m.live, NEW why, NEW e, NEW f
  PROVE  LET t == Drop(m, c, why) IN Fares(m, t, e, f) /\ t.name = m.name
<1> DEFINE t == Drop(m, c, why)
<1>1. Quit(m, t, c)
  BY DropQuits
<1> HIDE DEF t
<1>2. Fares(m, t, e, f)
  BY <1>1, QuitFares
<1>. QED
  BY <1>1, <1>2 DEF Quit, Mild, t

-----------------------------------------------------------------------------
(* A new connection, and what the server forgets.                          *)
Accepted(m, t, c) ==
  /\ Good(t) /\ t.name = m.name /\ t.autoGo = m.autoGo /\ Silent(m, t, Client)
  /\ t.live = m.live \/ t.live = m.live \cup {c}
  /\ \A d \in Client : Where(t, d) = Where(m, d)

(* A connection is refused and closed, or taken, nameless and in no room,  *)
(* within the limit.                                                       *)
LEMMA AcceptDoes ==
  ASSUME NEW m, Good(m), NEW c \in Client \ m.live, m.name[c] = None, m.sent[c] = <<>>
  PROVE  Accepted(m, Accept(m, c), c)
<1>1. /\ Typed(m) /\ Sending(m) /\ Rooms(m) /\ Dict(m) /\ Few(m) /\ Tables(m)
      /\ m.live \subseteq Client /\ c \in Client
      /\ m.sent \in [Client -> Seq(Frame \cup {EOF})]
      /\ m.name \in [Client -> Name \cup {None}]
  BY DEF Good, Typed
<1>2. ASSUME NEW s, Good(s), s.live = m.live \/ s.live = m.live \cup {c}, s.name = m.name,
             s.autoGo = m.autoGo, Silent(m, s, Client),
             \A d \in Client : Where(s, d) = Where(m, d), NEW x
      PROVE  Accepted(m, Log(s, x), c)
  <2> DEFINE t == Log(s, x)
  <2>1. Good(t) /\ Alike(s, t) /\ Silent(s, t, Client)
    BY <1>2, LogGood
  <2> HIDE DEF t
  <2>2. \A d \in Client : Where(t, d) = Where(m, d)
    BY <1>2, <2>1, AlikePlaces
  <2>3. Silent(m, t, Client)
    BY <1>2, <2>1 DEF Silent
  <2>4. Accepted(m, t, c)
    BY <1>2, <2>1, <2>2, <2>3 DEF Accepted, Alike
  <2>. QED
    BY <2>4 DEF t
<1>3. ASSUME NEW why
      PROVE  Accepted(m, Refuse(m, c, why), c)
  <2> DEFINE q == Append(m.sent[c], EOF)
             s == [m EXCEPT !.sent[c] = q]
  <2>1. <<>> \in Seq(Frame)
    BY EmptySeq
  <2>2. Frames(q) = <<>> /\ Out(m, c) = <<>>
    BY <2>1, FramesOfClosed, FramesOfOpen DEF Out
  <2>3. q \in Seq(Frame \cup {EOF})
    BY <1>1
  <2>4. Refuse(m, c, why) = Log(s, <<"reject", why>>)
    BY DEF Refuse, EOF
  <2> HIDE DEF q
  <2>5. s = [m EXCEPT !.sent[c] = q]
    OBVIOUS
  <2> HIDE DEF s
  <2>6. /\ Typed(s) /\ s.live = m.live /\ s.name = m.name /\ s.byName = m.byName
        /\ s.room = m.room /\ s.members = m.members /\ s.started = m.started
        /\ s.crc = m.crc /\ s.ok = m.ok /\ s.autoGo = m.autoGo /\ s.fuse = m.fuse
        /\ s.sent = [m.sent EXCEPT ![c] = q]
    BY <1>1, <2>3, <2>5 DEF Typed
  <2>7. Alike(m, s)
    BY <2>6 DEF Alike
  <2>8. s.sent[c] = q /\ \A d \in Client \ {c} : s.sent[d] = m.sent[d]
    BY <1>1, <2>6
  <2>9. Out(s, c) = Out(m, c) /\ \A d \in Client \ {c} : Out(s, d) = Out(m, d)
    BY <2>2, <2>8 DEF Out
  <2>10. Sending(s) /\ Silent(m, s, Client)
    BY <1>1, <2>6, <2>8, <2>9 DEF Sending, Silent
  <2>11. Good(s)
    BY <2>7, <2>10, AlikeGood
  <2>12. \A d \in Client : Where(s, d) = Where(m, d)
    BY <2>7, AlikePlaces
  <2>. QED
    BY <1>2, <2>4, <2>6, <2>10, <2>11, <2>12
<1>4. ASSUME ~(Cardinality(m.live) >= MaxPerIp)
      PROVE  Accepted(m, Accept(m, c), c) \/ \E why : Accept(m, c) = Refuse(m, c, why)
  <2> DEFINE s == [m EXCEPT !.live = m.live \cup {c}, !.name[c] = None]
  <2>1. CASE Cardinality(m.live) >= MaxClients
    BY <2>1 DEF Accept
  <2>2. CASE ~(Cardinality(m.live) >= MaxClients)
    <3>1. Accept(m, c) = Log(s, <<"connect">>)
      BY <1>4, <2>2 DEF Accept
    <3>2. s = [m EXCEPT !.live = m.live \cup {c}, !.name[c] = None]
      OBVIOUS
    <3> HIDE DEF s
    <3>3. /\ Typed(s) /\ s.live = m.live \cup {c} /\ s.name = [m.name EXCEPT ![c] = None]
          /\ s.byName = m.byName /\ s.room = m.room /\ s.members = m.members
          /\ s.started = m.started /\ s.crc = m.crc /\ s.autoGo = m.autoGo
          /\ s.sent = m.sent /\ s.fuse = m.fuse
      BY <1>1, <3>2 DEF Typed
    <3>4. s.name = m.name
      BY <1>1, <3>3
    <3>5. Out(m, c) = <<>>
      <4>1. <<>> \in Seq(Frame)
        BY EmptySeq
      <4>. QED
        BY <4>1, FramesOfOpen DEF Out
    <3>6. Sending(s) /\ Silent(m, s, Client)
      BY <1>1, <3>3, <3>5 DEF Sending, Silent, Out
    <3>7. Rooms(s)
      BY <1>1, <3>3, <3>4 DEF Rooms, In
    <3>8. Dict(s)
      BY <1>1, <3>3, <3>4 DEF Dict
    <3>9. Few(s)
      <4>1. /\ IsFiniteSet(m.live \cup {c})
            /\ Cardinality(m.live \cup {c}) = Cardinality(m.live) + 1
        BY <1>1, FS_AddElement DEF Few
      <4>2. Cardinality(m.live) \in Nat /\ MaxPerIp \in Nat
        BY <1>1, FS_CardinalityType, ServerAssumption DEF Few
      <4>. QED
        BY <1>4, <3>3, <4>1, <4>2 DEF Few
    <3>10. Tables(s)
      BY <1>1, <3>3 DEF Tables
    <3>11. Good(s)
      BY <3>3, <3>6, <3>7, <3>8, <3>9, <3>10 DEF Good
    <3>12. \A d \in Client : Where(s, d) = Where(m, d)
      BY <3>3, <3>4, SamePlace
    <3>13. s.live = m.live \/ s.live = m.live \cup {c}
      BY <3>3
    <3>. QED
      BY <1>2, <3>1, <3>3, <3>4, <3>6, <3>11, <3>12, <3>13
  <2>. QED
    BY <2>1, <2>2
<1>5. CASE Cardinality(m.live) >= MaxPerIp
  <2>1. \E why : Accept(m, c) = Refuse(m, c, why)
    BY <1>5 DEF Accept
  <2>. QED
    BY <1>3, <2>1
<1>. QED
  BY <1>3, <1>4, <1>5

(* Between two turns: nothing is left to send, no send has failed yet, and *)
(* a client that is gone has no name.                                      *)
Cleared(m) ==
  [m EXCEPT !.fuse = Sound, !.log = <<>>, !.sent = [c \in Client |-> <<>>],
            !.name = [c \in Client |-> IF c \in m.live THEN @[c] ELSE None]]

Afresh(m, t) ==
  /\ Good(t) /\ t.live = m.live /\ t.room = m.room /\ t.started = m.started
  /\ t.autoGo = m.autoGo /\ t.fuse = Sound /\ t.sent = [c \in Client |-> <<>>]
  /\ \A c \in Client :
       /\ Out(t, c) = <<>> /\ Where(t, c) = Where(m, c)
       /\ t.name[c] = IF c \in m.live THEN m.name[c] ELSE None

(* That changes nothing of where anybody is.                               *)
LEMMA ClearedAfresh ==
  ASSUME NEW m, Good(m)
  PROVE  Afresh(m, Cleared(m))
<1> DEFINE t == Cleared(m)
           N == [c \in Client |-> IF c \in m.live THEN m.name[c] ELSE None]
           S == [c \in Client |-> <<>>]
<1>1. /\ Typed(m) /\ Sending(m) /\ Rooms(m) /\ Dict(m) /\ Few(m) /\ Tables(m)
      /\ m.live \subseteq Client /\ m.name \in [Client -> Name \cup {None}]
  BY DEF Good, Typed
<1>2. t = [m EXCEPT !.fuse = Sound, !.log = <<>>, !.sent = S, !.name = N]
  BY DEF Cleared
<1>3. N \in [Client -> Name \cup {None}]
  BY <1>1
<1>4. <<>> \in Seq(Frame \cup {EOF}) /\ <<>> \in Seq(Frame)
  BY EmptySeq
<1>5. S \in [Client -> Seq(Frame \cup {EOF})] /\ Sound \in [Client -> {-1, 0, 1}]
  BY <1>4 DEF Sound
<1>6. \A c \in Client : S[c] = <<>> /\ N[c] = IF c \in m.live THEN m.name[c] ELSE None
  OBVIOUS
<1>7. \A c \in Client : Sound[c] = -1
  BY DEF Sound
<1> HIDE DEF t, N, S
<1>8. /\ Typed(t) /\ t.live = m.live /\ t.name = N /\ t.byName = m.byName
      /\ t.room = m.room /\ t.members = m.members /\ t.started = m.started
      /\ t.crc = m.crc /\ t.sent = S /\ t.fuse = Sound /\ t.autoGo = m.autoGo
  BY <1>1, <1>2, <1>3, <1>5 DEF Typed
<1>9. \A c \in Client : Out(t, c) = <<>>
  BY <1>4, <1>6, <1>8, FramesOfOpen DEF Out
<1>10. Sending(t)
  BY <1>1, <1>4, <1>6, <1>8, <1>9 DEF Sending
<1>11. Rooms(t)
  BY <1>1, <1>6, <1>8 DEF Rooms, In
<1>12. Dict(t)
  <2>1. ASSUME NEW i \in DOMAIN m.byName
        PROVE  m.byName[i].client \in t.live /\ N[m.byName[i].client] = m.byName[i].name
    <3>1. m.byName[i].client \in m.live /\ m.name[m.byName[i].client] = m.byName[i].name
      BY <1>1 DEF Dict
    <3>. QED
      BY <1>1, <1>6, <1>8, <3>1
  <2>2. \A c \in m.live : N[c] = m.name[c]
    BY <1>1, <1>6
  <2>. QED
    BY <1>1, <1>8, <2>1, <2>2 DEF Dict
<1>13. Few(t) /\ Tables(t)
  BY <1>1, <1>8 DEF Few, Tables
<1>14. Good(t)
  BY <1>8, <1>10, <1>11, <1>12, <1>13 DEF Good
<1>15. ASSUME NEW c \in Client
       PROVE  Where(t, c) = Where(m, c)
  <2>1. ASSUME m.room[c] # None, NEW i \in DOMAIN m.members[m.room[c]]
        PROVE  N[m.members[m.room[c]][i]] = m.name[m.members[m.room[c]][i]]
    <3> DEFINE p == m.members[m.room[c]]
    <3>1. p \in Seq(Client) /\ Len(p) = 2 /\ p[1] \in m.live /\ p[2] \in m.live
      BY <1>1, <2>1, SitsIn DEF Sits
    <3>2. i = 1 \/ i = 2
      BY <2>1, <3>1
    <3>. QED
      BY <1>1, <1>6, <3>1, <3>2
  <2>. QED
    BY <1>8, <2>1, SamePlace
<1>. QED
  BY <1>6, <1>8, <1>9, <1>14, <1>15 DEF Afresh, t, S
=============================================================================
