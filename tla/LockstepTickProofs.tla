------------------------- MODULE LockstepTickProofs --------------------------
(***************************************************************************)
(* The history of a match, which the proof of WithinDelay and InputsAgree  *)
(* is about, and what each kind of change leaves fitting it.               *)
(*                                                                         *)
(* Tick cells wrap, rings are overwritten and frames carry no epoch, so    *)
(* the invariant speaks of a history: the ticks as they would be without   *)
(* a wrap, and for each frame in flight the epoch it was sent in and how   *)
(* far its sender had sampled.  It says that some history fits the state.  *)
(* Fits is about two consoles k, two lines ch and a room r, whichever they *)
(* are; LockstepAgreeProofs applies it to the steps of the specification.  *)
(***************************************************************************)
EXTENDS LockstepProofs

-----------------------------------------------------------------------------
(* Division with remainder: a is j times q and r.                          *)
Parted(a, q, j, r) == j \in Int /\ r \in 0 .. q - 1 /\ r = a - q * j

(* Every integer has a remainder,                                          *)
LEMMA DivMod ==
  ASSUME NEW a \in Int, NEW q \in Nat \ {0}
  PROVE  \E j \in Int : Parted(a, q, j, a % q)
<1>1. a % q = a - q * (a \div q)
  BY SMT
<1>2. a \div q \in Int /\ a % q \in 0 .. q - 1
  BY SMT
<1>. QED
  BY <1>1, <1>2, Zenon DEF Parted

(* only one,                                                               *)
LEMMA ModUnique ==
  ASSUME NEW q \in Nat \ {0}, NEW j, NEW r, NEW a \in Int, Parted(a, q, j, r)
  PROVE  a % q = r
BY SMT DEF Parted

(* Products are left alone below but for these laws.                       *)
LEMMA Times ==
  ASSUME NEW q \in Int, NEW i \in Int, NEW j \in Int
  PROVE  /\ q * (i - j) = q * i - q * j /\ q * i \in Int
         /\ q * (i * j) = (q * i) * j
BY SMT

(* A number moved and its remainder moved have the same remainder,         *)
LEMMA PartMoved ==
  ASSUME NEW q \in Nat \ {0}, NEW a \in Int, NEW n \in Int,
         NEW j, NEW r, NEW i, NEW s,
         Parted(a, q, j, r), Parted(a + n, q, i, s)
  PROVE  Parted(r + n, q, i - j, s)
<1>1. i \in Int /\ j \in Int /\ r \in Int /\ s \in Int
  BY DEF Parted
<1>2. q * (i - j) = q * i - q * j /\ q * i \in Int /\ q * j \in Int
  BY <1>1, Times
<1>3. s = (r + n) - q * (i - j)
  BY <1>1, <1>2 DEF Parted
<1>. QED
  BY <1>1, <1>3 DEF Parted

(* so a sum may be reduced early,                                          *)
LEMMA ModPlus ==
  ASSUME NEW q \in Nat \ {0}, NEW a \in Int, NEW n \in Int
  PROVE  ((a % q) + n) % q = (a + n) % q
<1>1. PICK j \in Int : Parted(a, q, j, a % q)
  BY DivMod
<1>2. a + n \in Int
  OBVIOUS
<1>3. PICK i \in Int : Parted(a + n, q, i, (a + n) % q)
  BY <1>2, DivMod, Zenon
<1>4. Parted((a % q) + n, q, i - j, (a + n) % q)
  BY <1>1, <1>3, PartMoved, Zenon
<1>5. (a % q) + n \in Int
  BY SMT
<1>. QED
  BY <1>4, <1>5, ModUnique, Zenon

(* and so may a number by a multiple of the divisor.                       *)
LEMMA PartCoarse ==
  ASSUME NEW q \in Nat \ {0}, NEW n \in Nat \ {0}, NEW a \in Int,
         NEW j, NEW r, NEW i, NEW s, NEW k,
         Parted(a, n, j, r), Parted(a, q, i, s), Parted(n, q, k, 0)
  PROVE  Parted(r, q, i - k * j, s)
<1>1. i \in Int /\ j \in Int /\ k \in Int /\ r \in Int /\ s \in Int
  BY DEF Parted
<1>2. n = q * k
  BY <1>1, Times DEF Parted
<1>3. /\ k * j \in Int /\ q * (i - k * j) = q * i - q * (k * j)
      /\ q * i \in Int /\ q * (k * j) \in Int
      /\ n * j = q * (k * j)
  BY <1>1, <1>2, Times
<1>4. r = a - q * (k * j) /\ s = a - q * i
  BY <1>3 DEF Parted
<1>5. s = r - q * (i - k * j)
  BY <1>1, <1>3, <1>4
<1>. QED
  BY <1>1, <1>3, <1>5 DEF Parted

(* A ring slot can be taken from a tick cell.                              *)
LEMMA ModMod ==
  ASSUME NEW q \in Nat \ {0}, NEW n \in Nat \ {0}, NEW a \in Int, n % q = 0
  PROVE  (a % n) % q = a % q
<1>1. PICK j \in Int : Parted(a, n, j, a % n)
  BY DivMod
<1>2. PICK i \in Int : Parted(a, q, i, a % q)
  BY DivMod
<1>3. PICK k \in Int : Parted(n, q, k, 0)
  BY DivMod
<1>4. Parted(a % n, q, i - k * j, a % q)
  BY <1>1, <1>2, <1>3, PartCoarse, Zenon
<1>5. a % n \in Int
  BY SMT
<1>. QED
  BY <1>4, <1>5, ModUnique, Zenon

(* Numbers with one remainder are apart by a multiple,                     *)
LEMMA PartSame ==
  ASSUME NEW q \in Nat \ {0}, NEW a \in Int, NEW b \in Int,
         NEW j, NEW i, NEW r,
         Parted(a, q, j, r), Parted(b, q, i, r), a - b < q, b - a < q
  PROVE  a = b
<1>1. i \in Int /\ j \in Int /\ r \in Int
  BY DEF Parted
<1>2. PICK d \in Int : /\ d = j - i /\ q * d = q * j - q * i
                       /\ q * i \in Int /\ q * j \in Int
  BY <1>1, Times
<1>3. a - b = q * d
  BY <1>1, <1>2 DEF Parted
<1>6. d >= 1 => q * d >= q
  BY SMT
<1>7. d <= -1 => q * d <= -q
  BY SMT
<1>8. d = 0 => q * d = 0
  BY SMT
<1>. QED
  BY <1>3, <1>6, <1>7, <1>8

(* so two within less than the divisor are the same.                       *)
LEMMA ModSame ==
  ASSUME NEW q \in Nat \ {0}, NEW a \in Int, NEW b \in Int,
         a % q = b % q, a - b < q, b - a < q
  PROVE  a = b
<1>1. PICK j \in Int : Parted(a, q, j, a % q)
  BY DivMod
<1>2. PICK i \in Int : Parted(b, q, i, b % q)
  BY DivMod
<1>. QED
  BY <1>1, <1>2, PartSame, Zenon

(* A difference may be reduced early as well.                              *)
LEMMA PartMinus ==
  ASSUME NEW q \in Nat \ {0}, NEW a \in Int, NEW b \in Int,
         NEW j, NEW r, NEW k, NEW p, NEW i, NEW s,
         Parted(a, q, j, r), Parted(b, q, k, p), Parted(a - b, q, i, s)
  PROVE  Parted(r - p, q, i - (j - k), s)
<1>1. /\ i \in Int /\ j \in Int /\ k \in Int
      /\ r \in Int /\ p \in Int /\ s \in Int
  BY DEF Parted
<1>2. PICK d \in Int : d = j - k /\ q * d = q * j - q * k
  BY <1>1, Times
<1>3. /\ q * (i - d) = q * i - q * d /\ q * i \in Int /\ q * d \in Int
      /\ q * j \in Int /\ q * k \in Int
  BY <1>1, Times
<1>4. s = (r - p) - q * (i - d)
  BY <1>1, <1>2, <1>3 DEF Parted
<1>. QED
  BY <1>1, <1>2, <1>4 DEF Parted

(* The same, of remainders.                                                *)
LEMMA ModMinus ==
  ASSUME NEW q \in Nat \ {0}, NEW a \in Int, NEW b \in Int
  PROVE  ((a % q) - (b % q)) % q = (a - b) % q
<1>1. PICK j \in Int : Parted(a, q, j, a % q)
  BY DivMod
<1>2. PICK k \in Int : Parted(b, q, k, b % q)
  BY DivMod
<1>3. a - b \in Int
  OBVIOUS
<1>4. PICK i \in Int : Parted(a - b, q, i, (a - b) % q)
  BY <1>3, DivMod, Zenon
<1>5. Parted((a % q) - (b % q), q, i - (j - k), (a - b) % q)
  BY <1>1, <1>2, <1>4, PartMinus, Zenon
<1>6. (a % q) - (b % q) \in Int
  BY SMT
<1>. QED
  BY <1>5, <1>6, ModUnique, Zenon

(* Small numbers, and small negative ones.                                 *)
LEMMA ModSmall ==
  ASSUME NEW q \in Nat \ {0}, NEW a \in Int
  PROVE  /\ 0 <= a /\ a < q => a % q = a
         /\ -q <= a /\ a < 0 => a % q = a + q
<1>1. 0 <= a /\ a < q => Parted(a, q, 0, a)
  BY DEF Parted
<1>2. -q <= a /\ a < 0 => Parted(a, q, -1, a + q)
  BY DEF Parted
<1>. QED
  BY <1>1, <1>2, ModUnique

-----------------------------------------------------------------------------
(* The cells of a tick t: of the 16-bit count and of the ring.             *)
Wrap(t) == t % TickSpan
Cell(t) == t % PageSize

(* What the constants need.  In the code they are 3, 16, 256 and 65536; a  *)
(* delay of 16 or more would let a push resume behind inputs in flight.    *)
Roomy ==
  /\ Delay >= 1 /\ Delay < ResumeAhead
  /\ 2 * Delay + 2 <= PageSize
  /\ 4 * (ResumeAhead + Delay) <= TickSpan
  /\ CrcEvery # 1

(* The sizes are numbers,                                                  *)
LEMMA Numbers ==
  /\ PageSize \in Nat \ {0} /\ TickSpan \in Nat \ {0} /\ CrcEvery \in Nat \ {0}
  /\ Delay \in Nat /\ ResumeAhead \in Nat
BY SizeAssumption

(* Plus adds,                                                              *)
LEMMA PlusTick ==
  ASSUME NEW a \in Int, NEW n \in Int
  PROVE  Plus(Wrap(a), n) = Wrap(a + n)
BY ModPlus, SizeAssumption DEF Plus, Wrap

(* Slot takes the ring cell,                                               *)
LEMMA SlotTick ==
  ASSUME NEW a \in Int
  PROVE  Slot(Wrap(a)) = Cell(a)
BY ModMod, SizeAssumption DEF Slot, Wrap, Cell

(* (half a span is exact)                                                  *)
LEMMA HalfSpan == TickSpan \div 2 \in Int /\ 2 * (TickSpan \div 2) = TickSpan
<1>1. PICK n \in Nat \ {0} : n = TickSpan /\ n % 4 = 0
  BY SizeAssumption
<1>2. n \div 2 \in Int /\ 2 * (n \div 2) = n
  BY <1>1
<1>. QED
  BY <1>1, <1>2, Zenon

(* and Delta is the true difference of ticks less than half a span apart.  *)
LEMMA DeltaTick ==
  ASSUME NEW a \in Int, NEW b \in Int,
         -TickSpan <= 2 * (a - b), 2 * (a - b) < TickSpan
  PROVE  Delta(Wrap(a), Wrap(b)) = a - b
<1>. DEFINE x == ((a % TickSpan) - (b % TickSpan)) % TickSpan
            d == a - b
            h == TickSpan \div 2
<1>1. x = d % TickSpan
  BY ModMinus, SizeAssumption
<1>2. d \in Int /\ TickSpan \in Nat \ {0}
  BY SizeAssumption
<1>3. /\ 0 <= d => x = d
      /\ d < 0 => x = d + TickSpan
  <2>1. /\ d < TickSpan /\ -TickSpan <= d /\ d \in Int
    BY <1>2
  <2>. HIDE DEF d
  <2>2. /\ 0 <= d => d % TickSpan = d
        /\ d < 0 => d % TickSpan = d + TickSpan
    BY <1>2, <2>1, ModSmall
  <2>. QED
    BY <1>1, <2>2, Zenon
<1>4. h \in Int /\ 2 * h = TickSpan
  BY HalfSpan
<1>5. Delta(Wrap(a), Wrap(b)) = IF x < h THEN x ELSE x - TickSpan
  BY DEF Delta, Wrap
<1>. HIDE DEF x, h
<1>6. d \in Int /\ -TickSpan <= 2 * d /\ 2 * d < TickSpan
  BY <1>2
<1>. HIDE DEF d
<1>7. (IF x < h THEN x ELSE x - TickSpan) = d
  BY <1>2, <1>3, <1>4, <1>6
<1>. QED
  BY <1>5, <1>7, SMT DEF d

(* Cells are cells,                                                        *)
LEMMA CellType ==
  ASSUME NEW a \in Int
  PROVE  Wrap(a) \in Tick /\ Cell(a) \in Slots
BY SizeAssumption DEF Wrap, Cell, Tick, Slots

(* and ticks less than a page, or a span, apart have different ones.       *)
LEMMA CellApart ==
  ASSUME NEW a \in Int, NEW b \in Int, a # b
  PROVE  /\ a - b < PageSize /\ b - a < PageSize => Cell(a) # Cell(b)
         /\ a - b < TickSpan /\ b - a < TickSpan => Wrap(a) # Wrap(b)
BY ModSame, SizeAssumption DEF Wrap, Cell

-----------------------------------------------------------------------------
(* A channel s with the tags g of its frames: of is the epoch a frame was  *)
(* sent in, at the last tick its sender had sampled by then.               *)
Tags == [Nat -> [of : Nat, at : Int]]

(* The tags of a line are numbers.                                         *)
LEMMA TagsType ==
  ASSUME NEW g \in Tags, NEW i \in Nat
  PROVE  g[i].of \in Nat /\ g[i].at \in Int
BY DEF Tags

(* INPUTs carry the tick they are sampled for,                             *)
Wired(s, g) ==
  \A i \in 1 .. Len(s) : s[i].type = "INPUT" => s[i].tick = Wrap(g[i].at)

(* in order; later reports come from later ticks.                          *)
Sorted(s, g, m) ==
  \A i, j \in 1 .. Len(s) :
    i < j /\ s[i].type = "INPUT" /\ g[i].of = g[j].of /\ g[i].of >= m =>
      /\ s[j].type = "INPUT" => g[i].at < g[j].at
      /\ s[j].type = "CRC" => g[i].at <= g[j].at

(* The frames of epoch e are newer than lo and not newer than hi.          *)
Dated(s, g, e, lo, hi) ==
  \A i \in 1 .. Len(s) : g[i].of = e =>
    /\ s[i].type = "INPUT" => lo < g[i].at /\ g[i].at <= hi
    /\ s[i].type = "CRC" => lo <= g[i].at /\ g[i].at <= hi

(* INPUTs of epoch e say what the sender has in its ring.                  *)
Told(s, g, e, ring) ==
  \A i \in 1 .. Len(s) : s[i].type = "INPUT" /\ g[i].of = e =>
    s[i].in = ring[Cell(g[i].at)]

(* Of the ticks after lo each has an INPUT of epoch e among the first n    *)
(* frames, but for those in skip.                                          *)
Carried(s, g, e, t, n) ==
  \E j \in 1 .. n : s[j].type = "INPUT" /\ g[j].of = e /\ g[j].at = t
Covered(s, g, e, lo, hi, n, skip) ==
  \A t \in lo + 1 .. hi : t \in skip \/ Carried(s, g, e, t, n)
Gapless(s, g, e, lo, skip) ==
  \A i \in 1 .. Len(s) : s[i].type = "INPUT" /\ g[i].of = e =>
    Covered(s, g, e, lo, g[i].at - 1, i - 1, skip)

(* One frame f more, or none if the relay drops it.                        *)
Added(s, g, s2, g2, f, e, a) ==
  /\ Len(s) \in Nat /\ Len(s2) \in {Len(s), Len(s) + 1}
  /\ \A i \in 1 .. Len(s) : s2[i] = s[i] /\ g2[i] = g[i]
  /\ Len(s2) = Len(s) + 1 =>
       s2[Len(s2)] = f /\ g2[Len(s2)].of = e /\ g2[Len(s2)].at = a

(* The first frame read.                                                   *)
Taken(s, g, s2, g2) ==
  /\ Len(s) \in Nat \ {0} /\ Len(s2) = Len(s) - 1
  /\ \A i \in 1 .. Len(s2) : s2[i] = s[i + 1] /\ g2[i] = g[i + 1]

-----------------------------------------------------------------------------
(* What a frame more leaves of this.                                       *)
LEMMA AddedWired ==
  ASSUME NEW s, NEW g, NEW s2, NEW g2, NEW f, NEW e, NEW a,
         Added(s, g, s2, g2, f, e, a), Wired(s, g),
         f.type = "INPUT" => f.tick = Wrap(a)
  PROVE  Wired(s2, g2)
BY DEF Added, Wired

(* Later frames come after earlier ones,                                   *)
LEMMA AddedSorted ==
  ASSUME NEW s, NEW g, NEW s2, NEW g2, NEW f, NEW e, NEW a, NEW m,
         Added(s, g, s2, g2, f, e, a), Sorted(s, g, m),
         \A i \in 1 .. Len(s) :
           s[i].type = "INPUT" /\ g[i].of = e /\ e >= m =>
             g[i].at <= a /\ (f.type = "INPUT" => g[i].at < a)
  PROVE  Sorted(s2, g2, m)
BY DEF Added, Sorted

(* and are no newer than the new bound.                                    *)
LEMMA AddedDated ==
  ASSUME NEW s, NEW g \in Tags, NEW s2, NEW g2, NEW f, NEW e, NEW a,
         NEW e0, NEW lo \in Int, NEW hi \in Int, NEW hi2 \in Int,
         Added(s, g, s2, g2, f, e, a), Dated(s, g, e0, lo, hi), hi <= hi2,
         e = e0 => /\ f.type = "INPUT" => lo < a /\ a <= hi2
                   /\ f.type = "CRC" => lo <= a /\ a <= hi2
  PROVE  Dated(s2, g2, e0, lo, hi2)
<1>1. \A i \in 1 .. Len(s) : g[i].at \in Int
  BY DEF Tags, Added
<1>. QED
  BY <1>1 DEF Added, Dated

(* The sender's ring may change where no frame in flight is about.         *)
LEMMA AddedTold ==
  ASSUME NEW s, NEW g, NEW s2, NEW g2, NEW f, NEW e, NEW a,
         NEW e0, NEW ring, NEW ring2,
         Added(s, g, s2, g2, f, e, a), Told(s, g, e0, ring),
         \A i \in 1 .. Len(s) : s[i].type = "INPUT" /\ g[i].of = e0 =>
           ring2[Cell(g[i].at)] = ring[Cell(g[i].at)],
         f.type = "INPUT" /\ e = e0 => f.in = ring2[Cell(a)]
  PROVE  Told(s2, g2, e0, ring2)
BY DEF Added, Told

(* What was carried still is,                                              *)
LEMMA AddedCarried ==
  ASSUME NEW s, NEW g, NEW s2, NEW g2, NEW f, NEW e, NEW a,
         Added(s, g, s2, g2, f, e, a),
         NEW e0, NEW t, NEW n \in 0 .. Len(s), NEW n2 \in n .. Len(s2),
         Carried(s, g, e0, t, n)
  PROVE  Carried(s2, g2, e0, t, n2)
<1>1. PICK j \in 1 .. n : s[j].type = "INPUT" /\ g[j].of = e0 /\ g[j].at = t
  BY DEF Carried
<1>2. j \in 1 .. Len(s) /\ j \in 1 .. n2
  BY <1>1 DEF Added
<1>. QED
  BY <1>1, <1>2 DEF Added, Carried

(* What covered the ticks up to hi still does with a frame more on the     *)
(* line.                                                                   *)
LEMMA AddedCovered ==
  ASSUME NEW s, NEW g, NEW s2, NEW g2, NEW f, NEW e, NEW a,
         Added(s, g, s2, g2, f, e, a),
         NEW e0, NEW lo \in Int, NEW hi \in Int, NEW skip, NEW skip2,
         NEW n \in 0 .. Len(s), NEW n2 \in n .. Len(s2),
         \A t \in lo + 1 .. hi : t \in skip => t \in skip2,
         Covered(s, g, e0, lo, hi, n, skip)
  PROVE  Covered(s2, g2, e0, lo, hi, n2, skip2)
BY AddedCarried DEF Covered

(* so no gap opens in front of an INPUT for the next tick,                 *)
LEMMA AddedGapless ==
  ASSUME NEW s, NEW g \in Tags, NEW s2, NEW g2, NEW f, NEW e, NEW a \in Int,
         Added(s, g, s2, g2, f, e, a),
         NEW e0, NEW lo \in Int, NEW hi \in Int, NEW skip, NEW skip2,
         Dated(s, g, e0, lo, hi), Gapless(s, g, e0, lo, skip),
         \A t \in lo + 1 .. hi : t \in skip => t \in skip2,
         f.type = "INPUT" /\ e = e0 /\ Len(s2) = Len(s) + 1 =>
           a = hi + 1 /\ Covered(s, g, e0, lo, hi, Len(s), skip)
  PROVE  Gapless(s2, g2, e0, lo, skip2)
<1>. SUFFICES ASSUME NEW i \in 1 .. Len(s2),
                     s2[i].type = "INPUT" /\ g2[i].of = e0
              PROVE  Covered(s2, g2, e0, lo, g2[i].at - 1, i - 1, skip2)
  BY DEF Gapless
<1>1. CASE i \in 1 .. Len(s)
  <2>1. s[i].type = "INPUT" /\ g[i].of = e0 /\ g2[i] = g[i] /\ g[i].at \in Int
    <3>1. i \in Nat
      BY <1>1 DEF Added
    <3>2. g[i].at \in Int
      BY <3>1 DEF Tags
    <3>. QED
      BY <1>1, <3>2 DEF Added
  <2>2. /\ Covered(s, g, e0, lo, g[i].at - 1, i - 1, skip)
        /\ g[i].at <= hi
    BY <1>1, <2>1 DEF Gapless, Dated
  <2>3. /\ i - 1 \in 0 .. Len(s) /\ i - 1 \in (i - 1) .. Len(s2)
        /\ g[i].at - 1 \in Int
        /\ \A t \in lo + 1 .. g[i].at - 1 : t \in lo + 1 .. hi
    BY <1>1, <2>1, <2>2 DEF Added
  <2>4. Covered(s2, g2, e0, lo, g[i].at - 1, i - 1, skip2)
    BY <2>2, <2>3, AddedCovered
  <2>. QED
    BY <2>1, <2>4
<1>2. CASE i \notin 1 .. Len(s)
  <2>1. /\ Len(s2) = Len(s) + 1 /\ i = Len(s2)
        /\ f.type = "INPUT" /\ e = e0 /\ g2[i].at = a
    BY <1>2 DEF Added
  <2>2. Covered(s, g, e0, lo, hi, Len(s), skip) /\ g2[i].at - 1 = hi
    BY <2>1
  <2>3. Len(s) \in 0 .. Len(s) /\ i - 1 \in Len(s) .. Len(s2) /\ i - 1 = Len(s)
    BY <2>1 DEF Added
  <2>. QED
    BY <2>2, <2>3, AddedCovered
<1>. QED
  BY <1>1, <1>2

(* which is carried from then on.                                          *)
LEMMA AddedNext ==
  ASSUME NEW s, NEW g, NEW s2, NEW g2, NEW f, NEW e, NEW a \in Int,
         Added(s, g, s2, g2, f, e, a),
         NEW lo \in Int, NEW skip, NEW skip2,
         Len(s2) = Len(s) + 1, f.type = "INPUT",
         \A t \in lo + 1 .. a - 1 : t \in skip => t \in skip2,
         Covered(s, g, e, lo, a - 1, Len(s), skip)
  PROVE  Covered(s2, g2, e, lo, a, Len(s2), skip2)
<1>1. Len(s) \in 0 .. Len(s) /\ Len(s2) \in Len(s) .. Len(s2)
  BY DEF Added
<1>2. Covered(s2, g2, e, lo, a - 1, Len(s2), skip2)
  BY <1>1, AddedCovered
<1>3. Carried(s2, g2, e, a, Len(s2))
  BY DEF Carried, Added
<1>. QED
  BY <1>2, <1>3 DEF Covered

-----------------------------------------------------------------------------
(* What reading the first frame leaves of it.                              *)
LEMMA TakenWired ==
  ASSUME NEW s, NEW g, NEW s2, NEW g2, Taken(s, g, s2, g2), Wired(s, g)
  PROVE  Wired(s2, g2)
BY DEF Taken, Wired

(* A line that has lost its first frame is in order still,                 *)
LEMMA TakenSorted ==
  ASSUME NEW s, NEW g, NEW s2, NEW g2, NEW m, Taken(s, g, s2, g2),
         Sorted(s, g, m)
  PROVE  Sorted(s2, g2, m)
<1>. SUFFICES ASSUME NEW i \in 1 .. Len(s2), NEW j \in 1 .. Len(s2),
                     i < j, s2[i].type = "INPUT",
                     g2[i].of = g2[j].of, g2[i].of >= m
              PROVE  /\ s2[j].type = "INPUT" => g2[i].at < g2[j].at
                     /\ s2[j].type = "CRC" => g2[i].at <= g2[j].at
  BY DEF Sorted
<1>1. /\ i + 1 \in 1 .. Len(s) /\ j + 1 \in 1 .. Len(s) /\ i + 1 < j + 1
      /\ s2[i] = s[i + 1] /\ g2[i] = g[i + 1]
      /\ s2[j] = s[j + 1] /\ g2[j] = g[j + 1]
  BY DEF Taken
<1>. QED
  BY <1>1 DEF Sorted

(* The watermark lo may have gone up to what was read.                     *)
LEMMA TakenDated ==
  ASSUME NEW s, NEW g, NEW s2, NEW g2, NEW m, NEW e,
         NEW lo, NEW lo2, NEW hi,
         Taken(s, g, s2, g2), Sorted(s, g, m), Dated(s, g, e, lo, hi),
         \/ lo2 = lo
         \/ s[1].type = "INPUT" /\ g[1].of = e /\ e >= m /\ lo2 = g[1].at
  PROVE  Dated(s2, g2, e, lo2, hi)
<1>. SUFFICES ASSUME NEW i \in 1 .. Len(s2), g2[i].of = e
              PROVE  /\ s2[i].type = "INPUT" =>
                          lo2 < g2[i].at /\ g2[i].at <= hi
                     /\ s2[i].type = "CRC" =>
                          lo2 <= g2[i].at /\ g2[i].at <= hi
  BY DEF Dated
<1>1. /\ i + 1 \in 1 .. Len(s) /\ 1 \in 1 .. Len(s) /\ 1 < i + 1
      /\ s2[i] = s[i + 1] /\ g2[i] = g[i + 1]
  BY DEF Taken
<1>2. /\ s2[i].type = "INPUT" => lo < g2[i].at /\ g2[i].at <= hi
      /\ s2[i].type = "CRC" => lo <= g2[i].at /\ g2[i].at <= hi
  BY <1>1 DEF Dated
<1>3. CASE lo2 = lo
  BY <1>2, <1>3
<1>4. CASE s[1].type = "INPUT" /\ g[1].of = e /\ e >= m /\ lo2 = g[1].at
  BY <1>1, <1>2, <1>4 DEF Sorted
<1>. QED
  BY <1>3, <1>4

(* tells the same ring,                                                    *)
LEMMA TakenTold ==
  ASSUME NEW s, NEW g, NEW s2, NEW g2, NEW e, NEW ring,
         Taken(s, g, s2, g2), Told(s, g, e, ring)
  PROVE  Told(s2, g2, e, ring)
BY DEF Taken, Told

(* covers what it did past the frame taken,                                *)
LEMMA TakenCovered ==
  ASSUME NEW s, NEW g, NEW s2, NEW g2, NEW e, NEW n \in 1 .. Len(s),
         NEW lo \in Int, NEW lo2 \in Int, NEW hi \in Int, NEW skip, NEW skip2,
         Taken(s, g, s2, g2), Covered(s, g, e, lo, hi, n, skip), lo <= lo2,
         s[1].type = "INPUT" /\ g[1].of = e => g[1].at \notin lo2 + 1 .. hi,
         \A t \in lo2 + 1 .. hi : t \in skip => t \in skip2
  PROVE  Covered(s2, g2, e, lo2, hi, n - 1, skip2)
<1>. SUFFICES ASSUME NEW t \in lo2 + 1 .. hi, t \notin skip2
              PROVE  Carried(s2, g2, e, t, n - 1)
  BY DEF Covered
<1>1. t \in lo + 1 .. hi /\ t \notin skip
  OBVIOUS
<1>2. Carried(s, g, e, t, n)
  BY <1>1 DEF Covered
<1>3. PICK j \in 1 .. n : s[j].type = "INPUT" /\ g[j].of = e /\ g[j].at = t
  BY <1>2 DEF Carried
<1>4. j # 1
  BY <1>3
<1>5. /\ j - 1 \in 1 .. n - 1 /\ j - 1 \in 1 .. Len(s2) /\ (j - 1) + 1 = j
  BY <1>3, <1>4 DEF Taken
<1>6. s2[j - 1] = s[j] /\ g2[j - 1] = g[j]
  BY <1>5 DEF Taken
<1>. QED
  BY <1>3, <1>5, <1>6 DEF Carried

(* and has no new gap.                                                     *)
LEMMA TakenGapless ==
  ASSUME NEW s, NEW g \in Tags, NEW s2, NEW g2, NEW e,
         NEW lo \in Int, NEW lo2 \in Int, NEW hi \in Int, NEW skip, NEW skip2,
         Taken(s, g, s2, g2), Gapless(s, g, e, lo, skip), lo <= lo2,
         Dated(s, g, e, lo, hi),
         s[1].type = "INPUT" /\ g[1].of = e => g[1].at \notin lo2 + 1 .. hi,
         \A t \in lo2 + 1 .. hi : t \in skip => t \in skip2
  PROVE  Gapless(s2, g2, e, lo2, skip2)
<1>. SUFFICES ASSUME NEW i \in 1 .. Len(s2),
                     s2[i].type = "INPUT" /\ g2[i].of = e
              PROVE  Covered(s2, g2, e, lo2, g2[i].at - 1, i - 1, skip2)
  BY DEF Gapless
<1>1. /\ i + 1 \in 1 .. Len(s) /\ i \in 1 .. Len(s) /\ i + 1 \in Nat
      /\ s2[i] = s[i + 1] /\ g2[i] = g[i + 1]
      /\ (i + 1) - 1 = i
  BY DEF Taken
<1>2. /\ Covered(s, g, e, lo, g2[i].at - 1, (i + 1) - 1, skip)
      /\ g2[i].at <= hi
  BY <1>1 DEF Gapless, Dated
<1>3. g2[i].at \in Int
  BY <1>1 DEF Tags
<1>4. Covered(s, g, e, lo, g2[i].at - 1, i, skip)
  BY <1>1, <1>2
<1>5. \A t \in lo2 + 1 .. g2[i].at - 1 : t \in lo2 + 1 .. hi
  BY <1>2, <1>3
<1>6. g2[i].at - 1 \in Int
  BY <1>3
<1>. QED
  BY <1>1, <1>4, <1>5, <1>6, TakenCovered

(* The first n frames kept and nothing added that carries a mark: a push,  *)
(* or the end of the room.                                                 *)
Kept(s, g, s2, g2, n) ==
  /\ Len(s) \in Nat /\ Len(s2) \in Nat /\ n \in 0 .. Len(s) /\ n <= Len(s2)
  /\ \A i \in 1 .. n : s2[i] = s[i] /\ g2[i] = g[i]
  /\ \A i \in n + 1 .. Len(s2) : s2[i].type \notin {"INPUT", "CRC"}

(* A line cut after n frames, with what is no INPUT or CRC put behind,     *)
(* says no more than it did,                                               *)
LEMMA KeptLine ==
  ASSUME NEW s, NEW g, NEW s2, NEW g2, NEW n, Kept(s, g, s2, g2, n)
  PROVE  /\ Wired(s, g) => Wired(s2, g2)
         /\ \A m : Sorted(s, g, m) => Sorted(s2, g2, m)
         /\ \A e, lo, hi : Dated(s, g, e, lo, hi) => Dated(s2, g2, e, lo, hi)
         /\ \A e, ring : Told(s, g, e, ring) => Told(s2, g2, e, ring)
<1>1. \A i \in 1 .. Len(s2) : s2[i].type \in {"INPUT", "CRC"} =>
        i \in 1 .. Len(s) /\ s2[i] = s[i] /\ g2[i] = g[i]
  BY DEF Kept
<1>2. \A i, j \in 1 .. Len(s2) :
        i < j /\ s2[j].type \in {"INPUT", "CRC"} => g2[i] = g[i] /\ s2[i] = s[i]
  BY DEF Kept
<1>3. Wired(s, g) => Wired(s2, g2)
  BY <1>1 DEF Wired
<1>4. ASSUME NEW m, Sorted(s, g, m)
      PROVE  Sorted(s2, g2, m)
  BY <1>1, <1>2, <1>4 DEF Sorted
<1>5. ASSUME NEW e, NEW lo, NEW hi, Dated(s, g, e, lo, hi)
      PROVE  Dated(s2, g2, e, lo, hi)
  BY <1>1, <1>5 DEF Dated
<1>6. ASSUME NEW e, NEW ring, Told(s, g, e, ring)
      PROVE  Told(s2, g2, e, ring)
  BY <1>1, <1>6 DEF Told
<1>. QED
  BY <1>3, <1>4, <1>5, <1>6

(* what the frames kept covered is covered,                                *)
LEMMA KeptCovered ==
  ASSUME NEW s, NEW g, NEW s2, NEW g2, NEW n, Kept(s, g, s2, g2, n),
         NEW e, NEW lo, NEW hi, NEW skip, NEW k \in 0 .. n, NEW k2 \in k .. Len(s2),
         Covered(s, g, e, lo, hi, k, skip)
  PROVE  Covered(s2, g2, e, lo, hi, k2, skip)
<1>1. \A j \in 1 .. k : j \in 1 .. n /\ j \in 1 .. k2
  BY DEF Kept
<1>. QED
  BY <1>1 DEF Kept, Covered, Carried

(* and no gap opens.                                                       *)
LEMMA KeptGapless ==
  ASSUME NEW s, NEW g, NEW s2, NEW g2, NEW n, Kept(s, g, s2, g2, n),
         NEW e, NEW lo, NEW skip, Gapless(s, g, e, lo, skip)
  PROVE  Gapless(s2, g2, e, lo, skip)
<1>. SUFFICES ASSUME NEW i \in 1 .. Len(s2),
                     s2[i].type = "INPUT" /\ g2[i].of = e
              PROVE  Covered(s2, g2, e, lo, g2[i].at - 1, i - 1, skip)
  BY DEF Gapless
<1>1. i \in 1 .. n /\ i \in 1 .. Len(s) /\ s2[i] = s[i] /\ g2[i] = g[i]
  BY DEF Kept
<1>2. Covered(s, g, e, lo, g2[i].at - 1, i - 1, skip)
  BY <1>1 DEF Gapless
<1>3. i - 1 \in 0 .. n /\ i - 1 \in (i - 1) .. Len(s2)
  BY <1>1 DEF Kept
<1>. QED
  BY <1>2, <1>3, KeptCovered

(* Another ring or watermark only where it is Idle already, or more of it. *)
LEMMA SkipMore ==
  ASSUME NEW s, NEW g, NEW e, NEW lo, NEW hi, NEW n, NEW skip, NEW skip2,
         \A t \in lo + 1 .. hi : t \in skip => t \in skip2
  PROVE  Covered(s, g, e, lo, hi, n, skip) => Covered(s, g, e, lo, hi, n, skip2)
BY DEF Covered

(* The same, up to each INPUT on the line.                                 *)
LEMMA GaplessMore ==
  ASSUME NEW s, NEW g \in Tags, NEW e, NEW lo \in Int, NEW hi \in Int,
         NEW skip, NEW skip2, Len(s) \in Nat, Dated(s, g, e, lo, hi),
         \A t \in lo + 1 .. hi : t \in skip => t \in skip2,
         Gapless(s, g, e, lo, skip)
  PROVE  Gapless(s, g, e, lo, skip2)
<1>. SUFFICES ASSUME NEW i \in 1 .. Len(s), s[i].type = "INPUT" /\ g[i].of = e
              PROVE  Covered(s, g, e, lo, g[i].at - 1, i - 1, skip2)
  BY DEF Gapless
<1>1. i \in Nat
  OBVIOUS
<1>2. g[i].at \in Int
  BY <1>1 DEF Tags
<1>3. g[i].at <= hi /\ Covered(s, g, e, lo, g[i].at - 1, i - 1, skip)
  BY DEF Dated, Gapless
<1>4. \A t \in lo + 1 .. g[i].at - 1 : t \in lo + 1 .. hi
  BY <1>2, <1>3
<1>. QED
  BY <1>3, <1>4, SkipMore

-----------------------------------------------------------------------------
(* The history: ticks that do not wrap, per seat and epoch the last tick   *)
(* sampled for, per epoch the tick it starts at, and the tags in flight.   *)
History ==
  [tick : [Seat -> Int], heard : [Seat -> Int], epoch : [Seat -> Nat],
   last : [Seat -> [Nat -> Int]], start : [Nat -> Int], tag : [Seat -> Tags]]

First(h, e) == h.start[e] + Delay - 1     \* pinned by the rebase
Mark(h, c) == h.last[c][h.epoch[c]]
Known(h, c, e) == IF e = h.epoch[c] THEN h.heard[c] ELSE First(h, e)

(* The guest is behind the host, by two pushes at most; a push resumes     *)
(* past what its sender has sampled.                                       *)
Ages(h) ==
  /\ h.epoch[1] <= h.epoch[0] /\ h.epoch[0] <= h.epoch[1] + 2
  /\ First(h, h.epoch[0]) <= Mark(h, 0)
  /\ \A e \in 0 .. h.epoch[0] - 1 :
       /\ First(h, e) < h.last[0][e]
       /\ h.start[e + 1] = h.last[0][e] + ResumeAhead + 1 - Delay

(* The cells of a console that plays.                                      *)
Clock(m, h, c) ==
  /\ m.tick = Wrap(h.tick[c]) /\ m.wm = Wrap(h.heard[c])
  /\ m.epoch = h.epoch[c]
  /\ h.start[h.epoch[c]] <= h.tick[c]
  /\ First(h, h.epoch[c]) <= h.heard[c]
  /\ h.tick[c] <= h.heard[c] + 1
  /\ Mark(h, c) \in {h.tick[c] + Delay - 1, h.tick[c] + Delay}

Timed(m, h, c) ==
  Mark(h, c) = h.tick[c] + (IF m.pc = "stall" THEN Delay ELSE Delay - 1)

-----------------------------------------------------------------------------
(* The guest m, and the line s to it.  Of the epochs it is behind the host *)
(* ran few ticks: nothing is heard there.                                  *)
GuestSpan(m, h) ==
  /\ h.heard[1] <= h.last[0][h.epoch[1]]
  /\ h.last[0][h.epoch[1]] <= Mark(h, 1) + Delay + 1
  /\ \A e \in h.epoch[1] + 1 .. h.epoch[0] :
       h.last[0][e] <= h.start[e] + 2 * Delay
  /\ m.hold => /\ h.epoch[1] < h.epoch[0]
               /\ m.resume = Wrap(h.start[h.epoch[1] + 1])

(* Epochs lo to hi follow each other on the line, an END between them.     *)
Passed(s, g, i) == IF s[i].type = "END" THEN g[i].of + 1 ELSE g[i].of
Labelled(s, g, lo, hi, start) ==
  /\ \A i \in 1 .. Len(s) : s[i].type # "LEFT" =>
       /\ g[i].of \in lo .. hi
       /\ s[i].type \in {"BEGIN", "END"} => g[i].of < hi
       /\ s[i].type = "BEGIN" => s[i].tick = Wrap(start[g[i].of + 1])
       /\ g[i].of = IF i = 1 THEN lo ELSE Passed(s, g, i - 1)
  /\ \A i, j \in 1 .. Len(s) :
       i < j /\ s[i].type # "LEFT" /\ s[j].type # "LEFT" =>
         Passed(s, g, i) <= g[j].of
Reached(s, g, lo, hi) == hi = IF Len(s) = 0 THEN lo ELSE Passed(s, g, Len(s))

GuestLine(s, g, h) ==
  /\ Wired(s, g) /\ Sorted(s, g, h.epoch[1])
  /\ Labelled(s, g, h.epoch[1], h.epoch[0], h.start)
  /\ \A e \in h.epoch[1] .. h.epoch[0] :
       Dated(s, g, e, Known(h, 1, e), h.last[0][e])

-----------------------------------------------------------------------------
(* The host, with a push pending (b = 1) or not, and the line s to it.     *)
(* What the guest sent before a push is no newer than where it resumed.    *)
Bit(b) == IF b THEN 1 ELSE 0
Reach == ResumeAhead + Delay
Lag(d) == IF d = 1 THEN Reach ELSE 2 * Reach

Behindhand(h, a, e) ==       \* a is a mark of epoch e, gone by for the host
  /\ h.heard[0] = First(h, h.epoch[0])
  /\ h.heard[0] - Lag(h.epoch[0] - e) <= a /\ a <= h.heard[0]

HostSpan(k, h) ==
  LET b == Bit(k[0].pend)
  IN  /\ h.epoch[0] + b <= h.epoch[1] + 2
      /\ ~k[1].dropped /\ ~k[1].pend => h.epoch[0] + b <= h.epoch[1] + 1
      /\ h.epoch[0] = h.epoch[1] =>
           h.heard[0] <= Mark(h, 1) /\ Mark(h, 1) <= Mark(h, 0) + Delay + 1
      /\ h.epoch[1] < h.epoch[0] => Behindhand(h, Mark(h, 1), h.epoch[1])
      /\ \A e \in h.epoch[1] + 1 .. h.epoch[0] - 1 :
           h.start[e + 1] <= h.start[e] + Reach

Alarms(k, s, g, h) ==
  \A i \in 1 .. Len(s) : s[i].type # "LEFT" =>
    LET b == Bit(k[0].pend)
    IN  /\ s[i].type \in {"INPUT", "CRC", "REQ"}
        /\ g[i].of <= h.epoch[1] /\ h.epoch[0] + b <= g[i].of + 2
        /\ s[i].type = "REQ" =>
             /\ h.epoch[0] + b <= g[i].of + 1
             /\ g[i].of = h.epoch[1] /\ ~k[1].dropped => k[1].pend
        /\ s[i].type = "CRC" =>
             s[i].tick = Wrap(g[i].at - Delay) /\ CrcDue(s[i].tick)
        /\ g[i].of < h.epoch[0] /\ s[i].type # "REQ" =>
             Behindhand(h, g[i].at, g[i].of)

Ranked(s, g) ==
  \A i, j \in 1 .. Len(s) :
    i < j /\ s[i].type # "LEFT" /\ s[j].type # "LEFT" =>
      /\ g[i].of <= g[j].of
      /\ s[i].type = "REQ" /\ s[j].type = "REQ" => g[i].of < g[j].of

HostLine(k, s, g, h) ==
  /\ Wired(s, g) /\ Sorted(s, g, h.epoch[0])
  /\ Alarms(k, s, g, h) /\ Ranked(s, g)
  /\ Dated(s, g, h.epoch[0], h.heard[0], h.last[1][h.epoch[0]])

(* The host's checksum records are of this epoch.                          *)
Records(m, h) ==
  \A x \in CrcSlots :
    \/ m.crc[x].t = TickSpan - 1
    \/ \E t \in h.start[h.epoch[0]] .. h.tick[0] - 1 : m.crc[x].t = Wrap(t)

-----------------------------------------------------------------------------
(* Two consoles that play: each has, or will be sent, the other's inputs.  *)
Alike(k, p, t) == k[0].ring[p][Cell(t)] = k[1].ring[p][Cell(t)]
Skip(k, h, p) ==
  {t \in Int : /\ h.epoch[0] = h.epoch[1]
               /\ \A c \in Seat : k[c].ring[p][Cell(t)] = Idle}

Agree(k, s, g, r, h, c) ==
  LET p == Peer(c)
      e == h.epoch[0]
  IN  /\ Told(s, g, e, k[p].ring[p])
      /\ Gapless(s, g, e, Known(h, c, e), Skip(k, h, p))
      /\ r /\ h.epoch[p] = e =>
           Covered(s, g, e, Known(h, c, e), Mark(h, p), Len(s), Skip(k, h, p))
      /\ h.epoch[1] = e =>
           \A t \in Mark(h, p) - PageSize + 1 .. h.heard[c] : Alike(k, p, t)

(* A host ahead of the guest has idle rings but for its own new inputs.    *)
Fresh(k, h) ==
  h.epoch[1] < h.epoch[0] =>
    /\ k[0].ring[1] = IdleRings[1]
    /\ \A t \in Mark(h, 0) - PageSize + 1 .. First(h, h.epoch[0]) :
         k[0].ring[0][Cell(t)] = Idle

(* The history h fits consoles k, lines ch and room r.                     *)
Fits(k, ch, r, h) ==
  /\ Ages(h)
  /\ \A c \in Seat : ~k[c].dropped => Clock(k[c], h, c)
  /\ ~k[1].dropped =>
       /\ GuestSpan(k[1], h) /\ GuestLine(ch[1], h.tag[1], h)
       /\ r => Reached(ch[1], h.tag[1], h.epoch[1], h.epoch[0])
  /\ ~k[0].dropped =>
       /\ HostSpan(k, h) /\ HostLine(k, ch[0], h.tag[0], h)
       /\ Records(k[0], h)
  /\ ~k[0].dropped /\ ~k[1].dropped =>
       /\ \A c \in Seat : Agree(k, ch[c], h.tag[c], r, h, c)
       /\ Fresh(k, h)

-----------------------------------------------------------------------------
(* The numbers of a history are numbers.                                   *)
LEMMA Typed ==
  ASSUME NEW h \in History
  PROVE  /\ \A c \in Seat : /\ h.tick[c] \in Int /\ h.heard[c] \in Int
                            /\ h.epoch[c] \in Nat /\ h.tag[c] \in Tags
                            /\ Mark(h, c) \in Int
         /\ \A c \in Seat, e \in Nat : /\ h.last[c][e] \in Int
                                       /\ Known(h, c, e) \in Int
         /\ \A e \in Nat : h.start[e] \in Int /\ First(h, e) \in Int
<1>1. /\ \A c \in Seat : /\ h.tick[c] \in Int /\ h.heard[c] \in Int
                         /\ h.epoch[c] \in Nat /\ h.tag[c] \in Tags
      /\ \A c \in Seat, e \in Nat : h.last[c][e] \in Int
      /\ \A e \in Nat : h.start[e] \in Int
  BY DEF History
<1>2. \A c \in Seat : Mark(h, c) \in Int
  BY <1>1 DEF Mark
<1>3. \A e \in Nat : First(h, e) \in Int
  BY <1>1, Numbers DEF First
<1>4. \A c \in Seat, e \in Nat : Known(h, c, e) \in Int
  BY <1>1, <1>3 DEF Known
<1>. QED
  BY <1>1, <1>2, <1>3, <1>4

(* The seats are two.                                                      *)
LEMMA Seats ==
  /\ 0 \in Seat /\ 1 \in Seat /\ Peer(0) = 1 /\ Peer(1) = 0
  /\ \A c \in Seat : c \in {0, 1} /\ Peer(c) \in Seat /\ Peer(Peer(c)) = c
                     /\ Peer(c) # c
BY DEF Seat, Peer

(* A push puts the host's next epoch past all that the guest can sample in *)
(* this one.                                                               *)
LEMMA Resumed ==
  ASSUME NEW h \in History, Ages(h)
  PROVE  /\ \A e \in 0 .. h.epoch[0] - 1 :
              First(h, e + 1) = h.last[0][e] + ResumeAhead
         /\ h.epoch[1] < h.epoch[0] =>
              First(h, h.epoch[0]) >= h.last[0][h.epoch[1]] + ResumeAhead
<1>. /\ h.epoch[0] \in Nat /\ h.epoch[1] \in Nat
     /\ \A e \in Nat : h.start[e] \in Int /\ h.last[0][e] \in Int
  BY Typed, Seats
<1>1. \A e \in 0 .. h.epoch[0] - 1 :
        First(h, e + 1) = h.last[0][e] + ResumeAhead
  BY Numbers DEF Ages, First
<1>2. \A e \in 0 .. h.epoch[0] - 1 : First(h, e) < h.last[0][e]
  BY DEF Ages
<1>3. ASSUME h.epoch[1] < h.epoch[0]
      PROVE  First(h, h.epoch[0]) >= h.last[0][h.epoch[1]] + ResumeAhead
  <2>. DEFINE e == h.epoch[1]
  <2>1. e \in 0 .. h.epoch[0] - 1 /\ e \in Nat /\ e + 1 \in Nat
    BY <1>3
  <2>2. First(h, e + 1) = h.last[0][e] + ResumeAhead
    BY <1>1, <2>1
  <2>3. CASE h.epoch[0] = e + 1
    BY <2>2, <2>3, <2>1, Numbers
  <2>4. CASE h.epoch[0] # e + 1
    <3>1. h.epoch[0] = (e + 1) + 1 /\ e + 1 \in 0 .. h.epoch[0] - 1
      BY <1>3, <2>4 DEF Ages
    <3>2. First(h, (e + 1) + 1) = h.last[0][e + 1] + ResumeAhead
      BY <1>1, <3>1
    <3>3. First(h, e + 1) < h.last[0][e + 1]
      BY <1>2, <3>1
    <3>. QED
      BY <2>1, <2>2, <3>1, <3>2, <3>3, Numbers
  <2>. QED
    BY <2>3, <2>4
<1>. QED
  BY <1>1, <1>3

-----------------------------------------------------------------------------
(* A frame f of kind INPUT, CRC or REQ sent by c.  An INPUT moves the mark *)
(* and is in the ring; a REQ is the guest's, who then waits for a push.    *)
Looks(m, n) ==
  /\ n.dropped = m.dropped /\ n.tick = m.tick /\ n.wm = m.wm
  /\ n.epoch = m.epoch /\ n.hold = m.hold /\ n.resume = m.resume
  /\ n.crc = m.crc

SpeaksInput(m, n, h, h2, c, f) ==
  LET t == Mark(h, c) + 1
  IN  /\ f.type = "INPUT" /\ f.tick = Wrap(t)
      /\ Mark(h, c) = h.tick[c] + Delay - 1 /\ Mark(h2, c) = t
      /\ n.ring = [m.ring EXCEPT ![c][Cell(t)] = f.in] /\ n.pend = m.pend

SpeaksCrc(m, n, h, h2, c, f) ==
  /\ f.type = "CRC" /\ f.tick = Wrap(Mark(h, c) - Delay) /\ CrcDue(f.tick)
  /\ Mark(h2, c) = Mark(h, c) /\ n.ring = m.ring /\ n.pend = m.pend

SpeaksReq(m, n, h, h2, c, f) ==
  /\ f.type = "REQ" /\ c = 1 /\ ~m.pend
  /\ Mark(h2, c) = Mark(h, c) /\ n.ring = m.ring /\ n.pend

SameTimes(h, h2) ==
  /\ h2.tick = h.tick /\ h2.heard = h.heard /\ h2.epoch = h.epoch
  /\ h2.start = h.start

Speaks(k, ch, r, h, k2, ch2, h2, c, f) ==
  LET p == Peer(c)
  IN  /\ ~k[c].dropped /\ k2[p] = k[p] /\ Looks(k[c], k2[c])
      /\ \/ SpeaksInput(k[c], k2[c], h, h2, c, f)
         \/ SpeaksCrc(k[c], k2[c], h, h2, c, f)
         \/ SpeaksReq(k[c], k2[c], h, h2, c, f)
      /\ SameTimes(h, h2)
      /\ h2.last[p] = h.last[p]
      /\ \A e \in Nat : e # h.epoch[c] => h2.last[c][e] = h.last[c][e]
      /\ ch2[c] = ch[c] /\ h2.tag[c] = h.tag[c]
      /\ Added(ch[p], h.tag[p], ch2[p], h2.tag[p], f, h.epoch[c], Mark(h2, c))
      /\ Len(ch2[p]) = IF r THEN Len(ch[p]) + 1 ELSE Len(ch[p])

(* The epochs on the line to the guest stay in order.                      *)
LEMMA AddedLabelled ==
  ASSUME NEW s, NEW g, NEW s2, NEW g2, NEW f, NEW a,
         NEW lo \in Nat, NEW hi \in Nat, NEW start, lo <= hi,
         Added(s, g, s2, g2, f, hi, a), Labelled(s, g, lo, hi, start),
         Len(s2) = Len(s) + 1 => Reached(s, g, lo, hi),
         f.type \in {"INPUT", "CRC"}
  PROVE  /\ Labelled(s2, g2, lo, hi, start)
         /\ Reached(s, g, lo, hi) => Reached(s2, g2, lo, hi)
<1>1. ASSUME NEW i \in 1 .. Len(s2), s2[i].type # "LEFT"
      PROVE  /\ g2[i].of \in lo .. hi
             /\ s2[i].type \in {"BEGIN", "END"} => g2[i].of < hi
             /\ s2[i].type = "BEGIN" => s2[i].tick = Wrap(start[g2[i].of + 1])
             /\ g2[i].of = IF i = 1 THEN lo ELSE Passed(s2, g2, i - 1)
  <2>1. CASE i \in 1 .. Len(s)
    <3>1. /\ s2[i] = s[i] /\ g2[i] = g[i]
          /\ i # 1 => s2[i - 1] = s[i - 1] /\ g2[i - 1] = g[i - 1]
      BY <2>1 DEF Added
    <3>2. i # 1 => Passed(s2, g2, i - 1) = Passed(s, g, i - 1)
      BY <3>1 DEF Passed
    <3>. QED
      BY <1>1, <2>1, <3>1, <3>2 DEF Labelled
  <2>2. CASE i \notin 1 .. Len(s)
    <3>1. /\ Len(s2) = Len(s) + 1 /\ i = Len(s) + 1 /\ Len(s) \in Nat
          /\ s2[i] = f /\ g2[i].of = hi
          /\ i # 1 => s2[i - 1] = s[i - 1] /\ g2[i - 1] = g[i - 1]
      BY <2>2 DEF Added
    <3>2. /\ i = 1 => hi = lo
          /\ i # 1 => hi = Passed(s2, g2, i - 1)
      BY <3>1 DEF Reached, Passed
    <3>. QED
      BY <3>1, <3>2
  <2>. QED
    BY <2>1, <2>2
<1>2. ASSUME Reached(s, g, lo, hi)
      PROVE  Reached(s2, g2, lo, hi)
  <2>1. CASE Len(s2) = Len(s) + 1
    BY <2>1 DEF Added, Reached, Passed
  <2>2. CASE Len(s2) = Len(s)
    <3>1. Len(s) # 0 => s2[Len(s)] = s[Len(s)] /\ g2[Len(s)] = g[Len(s)]
      BY DEF Added
    <3>. QED
      BY <1>2, <2>2, <3>1 DEF Reached, Passed
  <2>. QED
    BY <2>1, <2>2 DEF Added
<1>3. ASSUME NEW i \in 1 .. Len(s2), NEW j \in 1 .. Len(s2), i < j,
             s2[i].type # "LEFT", s2[j].type # "LEFT"
      PROVE  Passed(s2, g2, i) <= g2[j].of
  <2>1. /\ Len(s) \in Nat /\ i \in 1 .. Len(s)
        /\ s2[i] = s[i] /\ g2[i] = g[i]
        /\ j \in 1 .. Len(s) \/ (j = Len(s2) /\ Len(s2) = Len(s) + 1)
    <3>1. Len(s) \in Nat /\ Len(s2) \in {Len(s), Len(s) + 1}
      BY DEF Added
    <3>2. /\ i \in 1 .. Len(s)
          /\ j \in 1 .. Len(s) \/ (j = Len(s2) /\ Len(s2) = Len(s) + 1)
      BY <1>3, <3>1
    <3>. QED
      BY <3>1, <3>2 DEF Added
  <2>2. Passed(s2, g2, i) = Passed(s, g, i)
    BY <2>1 DEF Passed
  <2>3. CASE j \in 1 .. Len(s)
    <3>1. s2[j] = s[j] /\ g2[j] = g[j]
      BY <2>3 DEF Added
    <3>. QED
      BY <1>3, <2>1, <2>2, <2>3, <3>1 DEF Labelled
  <2>4. CASE j = Len(s2) /\ Len(s2) = Len(s) + 1
    <3>1. g2[j].of = hi
      BY <2>4 DEF Added
    <3>2. Passed(s, g, i) <= hi
      BY <1>3, <2>1 DEF Labelled, Passed
    <3>. QED
      BY <2>2, <3>1, <3>2
  <2>. QED
    BY <2>1, <2>3, <2>4
<1>. QED
  BY <1>1, <1>2, <1>3 DEF Labelled

(* The mark of a console that speaks, against what the other has heard.    *)
LEMMA SpeaksMark ==
  ASSUME NEW k, NEW ch, NEW r, NEW h \in History, NEW k2, NEW ch2,
         NEW h2 \in History, NEW c \in Seat, NEW f, Roomy,
         Fits(k, ch, r, h), Speaks(k, ch, r, h, k2, ch2, h2, c, f)
  PROVE  /\ Mark(h2, c) \in {Mark(h, c), Mark(h, c) + 1}
         /\ Mark(h2, c) <= h.heard[c] + 1 + Delay
         /\ Mark(h2, Peer(c)) = Mark(h, Peer(c))
         /\ f.type \in {"INPUT", "CRC", "REQ"}
         /\ f.type = "INPUT" => Mark(h2, c) = Mark(h, c) + 1
         /\ f.type # "INPUT" => Mark(h2, c) = Mark(h, c)
         /\ h2.last[c][h.epoch[c]] = Mark(h2, c)
         /\ Ages(h2) /\ \A e \in Nat : First(h2, e) = First(h, e)
         /\ \A x \in Seat, e \in Nat : Known(h2, x, e) = Known(h, x, e)
<1>. DEFINE p == Peer(c)
<1>0. c \in {0, 1} /\ p \in Seat /\ p # c
  BY Seats
<1>1. /\ h.tick[c] \in Int /\ h.heard[c] \in Int /\ Mark(h, c) \in Int
      /\ Mark(h2, c) \in Int
      /\ \A e \in Nat : h.last[0][e] \in Int /\ First(h, e) \in Int
      /\ \A x \in Seat : h.epoch[x] \in Nat
  BY Typed, Seats
<1>2. Clock(k[c], h, c)
  BY DEF Fits, Speaks
<1>3. /\ Mark(h2, c) \in {Mark(h, c), Mark(h, c) + 1}
      /\ f.type \in {"INPUT", "CRC", "REQ"}
      /\ f.type = "INPUT" => Mark(h2, c) = Mark(h, c) + 1
      /\ f.type # "INPUT" => Mark(h2, c) = Mark(h, c)
  BY <1>1 DEF Speaks, SpeaksInput, SpeaksCrc, SpeaksReq
<1>4. Mark(h2, c) <= h.heard[c] + 1 + Delay
  <2>1. h.tick[c] <= h.heard[c] + 1 /\ Mark(h, c) <= h.tick[c] + Delay
    BY <1>1, <1>2, Numbers DEF Clock
  <2>2. Mark(h2, c) <= h.tick[c] + Delay
    BY SMTT(30), <1>1, <2>1, Numbers
    DEF Speaks, SpeaksInput, SpeaksCrc, SpeaksReq
  <2>. QED
    BY <1>1, <2>1, <2>2, Numbers
<1>5. Mark(h2, p) = Mark(h, p) /\ h2.last[c][h.epoch[c]] = Mark(h2, c)
  BY DEF Speaks, SameTimes, Mark
<1>6. /\ \A e \in Nat : First(h2, e) = First(h, e)
      /\ \A x \in Seat, e \in Nat : Known(h2, x, e) = Known(h, x, e)
  BY DEF Speaks, SameTimes, First, Known
<1>7. Ages(h2)
  <2>1. Mark(h2, 0) >= Mark(h, 0)
    BY <1>0, <1>1, <1>3, <1>5, Typed, Seats
  <2>2. \A e \in 0 .. h.epoch[0] - 1 : h2.last[0][e] = h.last[0][e]
    <3>1. CASE c = 0
      <4>1. \A e \in Nat : e # h.epoch[c] => h2.last[c][e] = h.last[c][e]
        BY DEF Speaks
      <4>2. \A e \in 0 .. h.epoch[0] - 1 : e \in Nat /\ e # h.epoch[0]
        BY <1>1, Seats
      <4>. QED
        BY <3>1, <4>1, <4>2
    <3>2. CASE c = 1
      <4>1. p = 0
        BY <3>2, Seats
      <4>2. h2.last[p] = h.last[p]
        BY DEF Speaks
      <4>. QED
        BY <4>1, <4>2
    <3>. QED
      BY <1>0, <3>1, <3>2
  <2>3. /\ h2.epoch = h.epoch /\ h2.start = h.start
        /\ First(h2, h.epoch[0]) = First(h, h.epoch[0])
        /\ \A e \in 0 .. h.epoch[0] - 1 : First(h2, e) = First(h, e)
    BY <1>1, <1>6, Seats DEF Speaks, SameTimes
  <2>4. /\ Mark(h2, 0) \in Int /\ Mark(h, 0) \in Int
        /\ First(h, h.epoch[0]) \in Int
    BY <1>1, Typed, Seats
  <2>5. Ages(h)
    BY DEF Fits
  <2>6. First(h, h.epoch[0]) <= Mark(h2, 0)
    BY <2>1, <2>4, <2>5 DEF Ages
  <2>. QED
    BY <2>2, <2>3, <2>5, <2>6 DEF Ages
<1>. QED
  BY <1>3, <1>4, <1>5, <1>6, <1>7

(* Both spans and the clocks outlast it.                                   *)
LEMMA SpeaksSpan ==
  ASSUME NEW k, NEW ch, NEW r, NEW h \in History, NEW k2, NEW ch2,
         NEW h2 \in History, NEW c \in Seat, NEW f, Roomy,
         Fits(k, ch, r, h), Speaks(k, ch, r, h, k2, ch2, h2, c, f)
  PROVE  /\ \A x \in Seat : ~k2[x].dropped => Clock(k2[x], h2, x)
         /\ ~k2[1].dropped => GuestSpan(k2[1], h2)
         /\ ~k2[0].dropped => HostSpan(k2, h2) /\ Records(k2[0], h2)
<1>. DEFINE p == Peer(c)
            a == Mark(h, c)
            b == Mark(h2, c)
<1>0. /\ c \in {0, 1} /\ p \in Seat /\ p # c /\ Peer(0) = 1 /\ Peer(1) = 0
      /\ k2[p] = k[p] /\ Looks(k[c], k2[c])
      /\ h2.tick = h.tick /\ h2.heard = h.heard /\ h2.epoch = h.epoch
      /\ h2.start = h.start
  BY Seats DEF Speaks, SameTimes
<1>1. /\ b \in {a, a + 1} /\ b <= h.heard[c] + 1 + Delay
      /\ Mark(h2, p) = Mark(h, p)
      /\ f.type = "INPUT" => b = a + 1
      /\ f.type # "INPUT" => b = a
      /\ \A e \in Nat : First(h2, e) = First(h, e)
      /\ h2.last[c][h.epoch[c]] = b /\ h2.last[p] = h.last[p]
      /\ \A e \in Nat : e # h.epoch[c] => h2.last[c][e] = h.last[c][e]
  <2>1. /\ h2.last[p] = h.last[p]
        /\ \A e \in Nat : e # h.epoch[c] => h2.last[c][e] = h.last[c][e]
    BY DEF Speaks
  <2>. QED
    BY ZenonT(40), <2>1, SpeaksMark
<1>2. /\ \A x \in Seat : /\ h.tick[x] \in Int /\ h.heard[x] \in Int
                         /\ h.epoch[x] \in Nat /\ Mark(h, x) \in Int
                         /\ Mark(h2, x) \in Int
      /\ \A e \in Nat : /\ First(h, e) \in Int /\ h.start[e] \in Int
                        /\ h.last[0][e] \in Int
      /\ Delay \in Nat /\ ResumeAhead \in Nat
  BY Typed, Numbers, Seats
<1>3. /\ Ages(h)
      /\ \A x \in Seat : ~k[x].dropped => Clock(k[x], h, x)
      /\ ~k[1].dropped => GuestSpan(k[1], h)
      /\ ~k[0].dropped => HostSpan(k, h) /\ Records(k[0], h)
  BY Seats DEF Fits
<1>4. ~k[c].dropped /\ ~k2[c].dropped
  BY DEF Speaks, Looks
<1>5. ASSUME NEW x \in Seat, ~k2[x].dropped
      PROVE  Clock(k2[x], h2, x)
  <2>1. CASE x = p
    BY <2>1, <1>0, <1>1, <1>2, <1>3, <1>5 DEF Clock
  <2>2. CASE x = c
    <3>1. Clock(k[c], h, c)
      BY <1>3, <1>4
    <3>2. Mark(h2, c) \in {h.tick[c] + Delay - 1, h.tick[c] + Delay}
      <4>1. a \in {h.tick[c] + Delay - 1, h.tick[c] + Delay}
        BY <3>1 DEF Clock
      <4>2. b = a \/ (b = a + 1 /\ a = h.tick[c] + Delay - 1)
        BY DEF Speaks, SpeaksInput, SpeaksCrc, SpeaksReq
      <4>3. h.tick[c] \in Int /\ a \in Int /\ b \in Int
        BY <1>2
      <4>. HIDE DEF a, b
      <4>4. b \in {h.tick[c] + Delay - 1, h.tick[c] + Delay}
        BY <4>1, <4>2, <4>3, <1>2
      <4>. QED
        BY <4>4 DEF b
    <3>. QED
      BY <2>2, <3>1, <3>2, <1>0, <1>1, <1>2 DEF Clock, Looks
  <2>. QED
    BY <2>1, <2>2, <1>0, Seats
<1>6. ASSUME ~k2[1].dropped
      PROVE  GuestSpan(k2[1], h2)
  <2>1. GuestSpan(k[1], h) /\ ~k[1].dropped
    BY <1>0, <1>3, <1>4, <1>6
  <2>2. CASE c = 1
    <3>1. /\ h2.last[0] = h.last[0] /\ Mark(h2, 1) >= Mark(h, 1)
      BY <2>2, <1>0, <1>1, <1>2
    <3>. QED
      BY <2>1, <2>2, <3>1, <1>0, <1>2, Seats DEF GuestSpan, Looks
  <2>3. CASE c = 0
    <3>1. /\ HostSpan(k, h) /\ k2[1] = k[1] /\ Mark(h2, 1) = Mark(h, 1)
          /\ h2.last[0][h.epoch[0]] = b
      BY <2>3, <1>0, <1>1, <1>3, <1>4
    <3>2. h.epoch[0] = h.epoch[1] => b <= Mark(h, 1) + Delay + 1
      BY <2>3, <3>1, <1>1, <1>2, Seats DEF HostSpan
    <3>3. h.epoch[1] < h.epoch[0] =>
            b <= h.start[h.epoch[0]] + 2 * Delay
      BY <2>3, <3>1, <1>1, <1>2, Seats DEF HostSpan, Behindhand, First
    <3>4. h.last[0][h.epoch[0]] = Mark(h, 0)
      BY DEF Mark
    <3>5. h.heard[1] <= h2.last[0][h.epoch[1]]
      BY <2>1, <2>3, <3>4, <1>1, <1>2, Seats DEF GuestSpan
    <3>6. h2.last[0][h.epoch[1]] <= Mark(h, 1) + Delay + 1
      <4>1. CASE h.epoch[0] = h.epoch[1]
        BY <4>1, <3>1, <3>2
      <4>2. CASE h.epoch[0] # h.epoch[1]
        BY <2>1, <2>3, <4>2, <1>1, <1>2, Seats DEF GuestSpan
      <4>. QED
        BY <4>1, <4>2
    <3>7. ASSUME NEW e \in h.epoch[1] + 1 .. h.epoch[0]
          PROVE  h2.last[0][e] <= h.start[e] + 2 * Delay
      <4>1. e \in Nat
        BY <1>2, Seats
      <4>2. CASE e = h.epoch[0]
        BY <4>1, <4>2, <3>1, <3>3, <1>2, Seats
      <4>3. CASE e # h.epoch[0]
        BY <2>1, <2>3, <4>1, <4>3, <1>1 DEF GuestSpan
      <4>. QED
        BY <4>2, <4>3
    <3>. QED
      BY <2>1, <3>1, <3>5, <3>6, <3>7, <1>0 DEF GuestSpan
  <2>. QED
    BY <2>2, <2>3, <1>0
<1>7. ASSUME ~k2[0].dropped
      PROVE  HostSpan(k2, h2) /\ Records(k2[0], h2)
  <2>1. HostSpan(k, h) /\ Records(k[0], h) /\ ~k[0].dropped
    BY <1>0, <1>3, <1>4, <1>7
  <2>2. Records(k2[0], h2)
    BY <2>1, <1>0 DEF Records, Looks
  <2>3. CASE c = 0
    <3>1. /\ k2[1] = k[1] /\ k2[0].pend = k[0].pend
          /\ Mark(h2, 1) = Mark(h, 1) /\ Mark(h2, 0) >= Mark(h, 0)
      BY <2>3, <1>0, <1>1, <1>2
      DEF Speaks, SpeaksInput, SpeaksCrc, SpeaksReq
    <3>. QED
      BY <2>1, <2>2, <3>1, <1>0, <1>1, <1>2, Seats DEF HostSpan, Behindhand
  <2>4. CASE c = 1
    <3>1. /\ k2[0] = k[0] /\ k2[1].dropped = k[1].dropped
          /\ k[1].pend => k2[1].pend
          /\ Mark(h2, 0) = Mark(h, 0) /\ Mark(h2, 1) >= Mark(h, 1)
      BY SMTT(30), <2>4, <1>0, <1>1, <1>2
      DEF Speaks, SpeaksInput, SpeaksCrc, SpeaksReq, Looks
    <3>2. GuestSpan(k[1], h)
      BY <2>4, <1>3, <1>4
    <3>3. h.epoch[0] = h.epoch[1] => Mark(h2, 1) <= Mark(h, 0) + Delay + 1
      BY <2>4, <3>2, <1>1, <1>2, Seats DEF GuestSpan, Mark
    <3>4. h.epoch[1] < h.epoch[0] => Mark(h2, 1) <= First(h, h.epoch[0])
      <4>. SUFFICES ASSUME h.epoch[1] < h.epoch[0]
                    PROVE  Mark(h2, 1) <= First(h, h.epoch[0])
        OBVIOUS
      <4>1. First(h, h.epoch[0]) >= h.last[0][h.epoch[1]] + ResumeAhead
        BY <1>3, Resumed
      <4>. QED
        BY <2>4, <3>2, <4>1, <1>1, <1>2, Seats DEF GuestSpan, Roomy
    <3>5. h.epoch[1] < h.epoch[0] => Behindhand(h2, Mark(h2, 1), h.epoch[1])
      <4>. SUFFICES ASSUME h.epoch[1] < h.epoch[0]
                    PROVE  Behindhand(h2, Mark(h2, 1), h.epoch[1])
        OBVIOUS
      <4>1. Behindhand(h, Mark(h, 1), h.epoch[1])
        BY <2>1 DEF HostSpan
      <4>2. Lag(h.epoch[0] - h.epoch[1]) \in Int
        BY <1>2, Seats DEF Lag, Reach
      <4>. QED
        BY <3>1, <3>4, <4>1, <4>2, <1>0, <1>1, <1>2, Seats DEF Behindhand
    <3>6. h.epoch[0] = h.epoch[1] => h.heard[0] <= Mark(h2, 1)
      BY <2>1, <3>1, <1>2, Seats DEF HostSpan
    <3>7. HostSpan(k2, h2)
      BY <2>1, <3>1, <3>3, <3>5, <3>6, <1>0 DEF HostSpan
    <3>. QED
      BY <2>2, <3>7
  <2>. QED
    BY <2>2, <2>3, <2>4, <1>0
<1>. QED
  BY <1>5, <1>6, <1>7

(* What the host says joins the line to the guest.                         *)
LEMMA SpeaksGuestLine ==
  ASSUME NEW k, NEW ch, NEW r \in BOOLEAN, NEW h \in History, NEW k2, NEW ch2,
         NEW h2 \in History, NEW c \in Seat, NEW f, Roomy,
         Fits(k, ch, r, h), Speaks(k, ch, r, h, k2, ch2, h2, c, f),
         ~k2[1].dropped
  PROVE  /\ GuestLine(ch2[1], h2.tag[1], h2)
         /\ r => Reached(ch2[1], h2.tag[1], h2.epoch[1], h2.epoch[0])
<1>. DEFINE s == ch[1]
            g == h.tag[1]
            s2 == ch2[1]
            g2 == h2.tag[1]
            lo == h.epoch[1]
            hi == h.epoch[0]
<1>0. c \in {0, 1} /\ Peer(0) = 1 /\ Peer(1) = 0 /\ 0 \in Seat /\ 1 \in Seat
  BY Seats
<1>1. ~k[1].dropped
  BY <1>0 DEF Speaks, Looks
<1>2. /\ GuestLine(s, g, h) /\ GuestSpan(k[1], h) /\ Ages(h)
      /\ r => Reached(s, g, lo, hi)
  BY <1>1 DEF Fits
<1>3. /\ h2.epoch = h.epoch /\ h2.start = h.start
      /\ \A e \in Nat : Known(h2, 1, e) = Known(h, 1, e)
  <2>1. h2.epoch = h.epoch /\ h2.start = h.start
    BY DEF Speaks, SameTimes
  <2>. QED
    BY <1>0, <2>1, SpeaksMark
<1>4. /\ lo \in Nat /\ hi \in Nat /\ lo <= hi
      /\ g \in Tags /\ g2 \in Tags
      /\ \A e \in Nat : /\ h.last[0][e] \in Int /\ h2.last[0][e] \in Int
                        /\ Known(h, 1, e) \in Int
      /\ Mark(h, 0) \in Int /\ Mark(h2, 0) \in Int
  BY <1>0, <1>2, Typed DEF Ages
<1>5. CASE c = 1
  <2>1. s2 = s /\ g2 = g /\ h2.last[0] = h.last[0]
    BY <1>0, <1>5 DEF Speaks
  <2>2. \A e \in lo .. hi : Dated(s, g, e, Known(h2, 1, e), h2.last[0][e])
    BY <1>2, <1>3, <1>4, <2>1 DEF GuestLine
  <2>. QED
    BY <1>2, <1>3, <2>1, <2>2 DEF GuestLine
<1>6. CASE c = 0
  <2>. DEFINE a == Mark(h2, 0)
  <2>1. /\ Added(s, g, s2, g2, f, hi, a)
        /\ Len(s2) = IF r THEN Len(s) + 1 ELSE Len(s)
        /\ f.type \in {"INPUT", "CRC"}
        /\ f.type = "INPUT" => f.tick = Wrap(a)
        /\ \A e \in Nat : e # hi => h2.last[0][e] = h.last[0][e]
    <3>1. /\ Added(s, g, s2, g2, f, hi, a)
          /\ Len(s2) = IF r THEN Len(s) + 1 ELSE Len(s)
          /\ \A e \in Nat : e # hi => h2.last[0][e] = h.last[0][e]
          /\ \/ SpeaksInput(k[0], k2[0], h, h2, 0, f)
             \/ SpeaksCrc(k[0], k2[0], h, h2, 0, f)
             \/ SpeaksReq(k[0], k2[0], h, h2, 0, f)
      BY <1>0, <1>6 DEF Speaks
    <3>2. f.type \in {"INPUT", "CRC"} /\ (f.type = "INPUT" => f.tick = Wrap(a))
      BY <3>1 DEF SpeaksInput, SpeaksCrc, SpeaksReq
    <3>. QED
      BY <3>1, <3>2
  <2>2. /\ a >= Mark(h, 0) /\ (f.type = "INPUT" => a > Mark(h, 0))
        /\ h2.last[0][hi] = a
    <3>1. /\ Mark(h2, c) \in {Mark(h, c), Mark(h, c) + 1}
          /\ f.type = "INPUT" => Mark(h2, c) = Mark(h, c) + 1
          /\ h2.last[c][h.epoch[c]] = Mark(h2, c)
      BY SpeaksMark
    <3>. QED
      BY <3>1, <1>4, <1>6
  <2>3. h.last[0][hi] = Mark(h, 0)
    BY DEF Mark
  <2>4. Wired(s2, g2)
    <3>1. Wired(s, g)
      BY <1>2 DEF GuestLine
    <3>. HIDE DEF s, g, s2, g2, hi, a
    <3>. QED
      BY <2>1, <3>1, AddedWired
  <2>5. Sorted(s2, g2, lo)
    <3>1. Sorted(s, g, lo) /\ Dated(s, g, hi, Known(h, 1, hi), Mark(h, 0))
      BY <1>2, <1>4, <2>3 DEF GuestLine
    <3>2. Len(s) \in Nat
      BY <2>1 DEF Added
    <3>3. Mark(h, 0) \in Int /\ a \in Int
      BY <1>4
    <3>. HIDE DEF s, g, s2, g2, lo, hi, a
    <3>4. \A i \in 1 .. Len(s) : s[i].type = "INPUT" /\ g[i].of = hi /\ hi >= lo =>
            g[i].at <= a /\ (f.type = "INPUT" => g[i].at < a)
      <4>. SUFFICES ASSUME NEW i \in 1 .. Len(s), s[i].type = "INPUT",
                           g[i].of = hi
                    PROVE  g[i].at <= a /\ (f.type = "INPUT" => g[i].at < a)
        OBVIOUS
      <4>1. i \in Nat
        BY <3>2
      <4>2. g[i].at \in Int
        BY <1>4, <4>1 DEF Tags
      <4>3. g[i].at <= Mark(h, 0)
        BY <3>1 DEF Dated
      <4>. QED
        BY <2>2, <3>3, <4>2, <4>3
    <3>. QED
      BY <2>1, <3>1, <3>4, AddedSorted
  <2>6. Labelled(s2, g2, lo, hi, h.start) /\ (r => Reached(s2, g2, lo, hi))
    <3>1. Labelled(s, g, lo, hi, h.start) /\ Len(s) \in Nat
      BY <1>2, <2>1 DEF GuestLine, Added
    <3>2. Len(s2) = Len(s) + 1 => Reached(s, g, lo, hi)
      BY <1>2, <2>1, <3>1
    <3>. HIDE DEF s, g, s2, g2, lo, hi, a
    <3>. QED
      BY <1>2, <1>4, <2>1, <3>1, <3>2, AddedLabelled
  <2>7. ASSUME NEW e \in lo .. hi
        PROVE  Dated(s2, g2, e, Known(h, 1, e), h2.last[0][e])
    <3>1. e \in Nat /\ Dated(s, g, e, Known(h, 1, e), h.last[0][e])
      BY <1>2, <1>4 DEF GuestLine
    <3>2. h.last[0][e] <= h2.last[0][e]
      <4>1. CASE e = hi
        BY <4>1, <2>2, <2>3
      <4>2. CASE e # hi
        BY <4>2, <1>4, <2>1, <3>1
      <4>. QED
        BY <4>1, <4>2
    <3>3. Known(h, 1, hi) <= Mark(h, 0)
      BY <1>2, <1>4, <2>3, Typed, Seats DEF Known, GuestSpan, Ages
    <3>4. hi = e => /\ f.type = "INPUT" => Known(h, 1, e) < a
                    /\ f.type = "CRC" => Known(h, 1, e) <= a
                    /\ a <= h2.last[0][e]
      BY <1>4, <2>2, <3>3
    <3>5. /\ Known(h, 1, e) \in Int /\ h.last[0][e] \in Int
          /\ h2.last[0][e] \in Int
      BY <1>4, <3>1
    <3>. HIDE DEF s, g, s2, g2, lo, hi, a
    <3>. QED
      BY <1>4, <2>1, <3>1, <3>2, <3>4, <3>5, AddedDated
  <2>. QED
    BY <1>3, <1>4, <2>4, <2>5, <2>6, <2>7 DEF GuestLine
<1>. QED
  BY <1>0, <1>5, <1>6

(* What the guest says joins the line to the host.                         *)
LEMMA SpeaksHostLine ==
  ASSUME NEW k, NEW ch, NEW r \in BOOLEAN, NEW h \in History, NEW k2, NEW ch2,
         NEW h2 \in History, NEW c \in Seat, NEW f, Roomy,
         Fits(k, ch, r, h), Speaks(k, ch, r, h, k2, ch2, h2, c, f),
         ~k2[0].dropped
  PROVE  HostLine(k2, ch2[0], h2.tag[0], h2)
<1>. DEFINE s == ch[0]
            g == h.tag[0]
            s2 == ch2[0]
            g2 == h2.tag[0]
            e0 == h.epoch[0]
            e1 == h.epoch[1]
<1>0. c \in {0, 1} /\ Peer(0) = 1 /\ Peer(1) = 0 /\ 0 \in Seat /\ 1 \in Seat
  BY Seats
<1>1. ~k[0].dropped
  BY <1>0 DEF Speaks, Looks
<1>2. HostLine(k, s, g, h) /\ HostSpan(k, h) /\ HostSpan(k2, h2) /\ Ages(h)
  BY <1>1, SpeaksSpan DEF Fits
<1>3. /\ h2.epoch = h.epoch /\ h2.heard = h.heard
      /\ First(h2, e0) = First(h, e0)
      /\ \A a, e : Behindhand(h2, a, e) = Behindhand(h, a, e)
  <2>1. h2.epoch = h.epoch /\ h2.heard = h.heard /\ h2.start = h.start
    BY DEF Speaks, SameTimes
  <2>2. First(h2, e0) = First(h, e0)
    BY <2>1 DEF First
  <2>. QED
    BY <2>1, <2>2 DEF Behindhand
<1>4. /\ e0 \in Nat /\ e1 \in Nat /\ e1 <= e0
      /\ g \in Tags /\ g2 \in Tags /\ h.heard[0] \in Int
      /\ \A e \in Nat : h.last[1][e] \in Int /\ h2.last[1][e] \in Int
      /\ Mark(h, 1) \in Int /\ Mark(h2, 1) \in Int
  BY <1>0, <1>2, Typed DEF Ages
<1>5. CASE c = 0
  <2>1. s2 = s /\ g2 = g /\ h2.last[1] = h.last[1] /\ k2[1] = k[1]
    BY <1>0, <1>5 DEF Speaks
  <2>2. k2[0].pend = k[0].pend
    BY <1>5 DEF Speaks, SpeaksInput, SpeaksCrc, SpeaksReq
  <2>3. Alarms(k2, s2, g2, h2)
    BY <1>2, <1>3, <2>1, <2>2 DEF HostLine, Alarms
  <2>. QED
    BY <1>2, <1>3, <2>1, <2>3 DEF HostLine
<1>6. CASE c = 1
  <2>. DEFINE a == Mark(h2, 1)
  <2>1. /\ Added(s, g, s2, g2, f, e1, a)
        /\ Len(s2) = IF r THEN Len(s) + 1 ELSE Len(s)
        /\ k2[0] = k[0] /\ k2[1].dropped = k[1].dropped /\ ~k[1].dropped
        /\ \/ SpeaksInput(k[1], k2[1], h, h2, 1, f)
           \/ SpeaksCrc(k[1], k2[1], h, h2, 1, f)
           \/ SpeaksReq(k[1], k2[1], h, h2, 1, f)
    BY <1>0, <1>6 DEF Speaks, Looks
  <2>2. /\ f.type \in {"INPUT", "CRC", "REQ"}
        /\ f.type = "INPUT" => f.tick = Wrap(a)
        /\ f.type = "CRC" => f.tick = Wrap(a - Delay) /\ CrcDue(f.tick)
        /\ f.type = "REQ" => ~k[1].pend /\ k2[1].pend
        /\ k[1].pend => k2[1].pend
    BY <2>1 DEF SpeaksInput, SpeaksCrc, SpeaksReq
  <2>3. /\ a >= Mark(h, 1) /\ (f.type = "INPUT" => a > Mark(h, 1))
        /\ h2.last[1][e1] = a
    <3>1. /\ Mark(h2, c) \in {Mark(h, c), Mark(h, c) + 1}
          /\ f.type = "INPUT" => Mark(h2, c) = Mark(h, c) + 1
          /\ h2.last[c][h.epoch[c]] = Mark(h2, c)
      BY SpeaksMark
    <3>. QED
      BY <3>1, <1>4, <1>6
  <2>4. Wired(s2, g2)
    <3>1. Wired(s, g)
      BY <1>2 DEF HostLine
    <3>. HIDE DEF s, g, s2, g2, e1, a
    <3>. QED
      BY <2>1, <2>2, <3>1, AddedWired
  <2>5. /\ Len(s) \in Nat /\ Len(s2) \in Nat
        /\ \A i \in 1 .. Len(s) : i \in Nat /\ g[i].at \in Int /\ g[i].of \in Int
    <3>1. Len(s) \in Nat /\ Len(s2) \in Nat
      BY <2>1 DEF Added
    <3>2. g \in [Nat -> [of : Nat, at : Int]]
      BY <1>4 DEF Tags
    <3>. HIDE DEF g, s
    <3>3. \A i \in Nat : g[i].at \in Int /\ g[i].of \in Int
      BY <3>2
    <3>. QED
      BY <3>1, <3>3
  <2>6. Dated(s, g, e0, h.heard[0], h.last[1][e0])
    BY <1>2 DEF HostLine
  <2>7. e0 = e1 => /\ h.last[1][e0] = Mark(h, 1) /\ h2.last[1][e0] = a
                   /\ h.heard[0] <= Mark(h, 1)
    BY <1>2, <2>3 DEF Mark, HostSpan
  <2>8. Sorted(s2, g2, e0)
    <3>1. Sorted(s, g, e0)
      BY <1>2 DEF HostLine
    <3>2. \A i \in 1 .. Len(s) : s[i].type = "INPUT" /\ g[i].of = e1 /\ e1 >= e0 =>
            g[i].at <= a /\ (f.type = "INPUT" => g[i].at < a)
      <4>. SUFFICES ASSUME NEW i \in 1 .. Len(s), s[i].type = "INPUT",
                           g[i].of = e1, e1 >= e0
                    PROVE  g[i].at <= a /\ (f.type = "INPUT" => g[i].at < a)
        OBVIOUS
      <4>1. e1 = e0
        BY <1>4
      <4>2. g[i].at <= Mark(h, 1)
        BY <2>6, <2>7, <4>1 DEF Dated
      <4>3. a \in Int /\ Mark(h, 1) \in Int /\ g[i].at \in Int
        BY <1>4, <2>5
      <4>. QED
        BY <2>3, <4>2, <4>3
    <3>. HIDE DEF s, g, s2, g2, e1, e0, a
    <3>. QED
      BY <2>1, <3>1, <3>2, AddedSorted
  <2>9. Dated(s2, g2, e0, h.heard[0], h2.last[1][e0])
    <3>1. h.last[1][e0] <= h2.last[1][e0]
      <4>1. CASE e0 = e1
        BY <4>1, <2>3, <2>7
      <4>2. CASE e0 # e1
        BY <4>2, <1>0, <1>4, <1>6 DEF Speaks
      <4>. QED
        BY <4>1, <4>2
    <3>2. e1 = e0 => /\ f.type = "INPUT" => h.heard[0] < a
                     /\ f.type = "CRC" => h.heard[0] <= a
                     /\ a <= h2.last[1][e0]
      BY <1>4, <2>3, <2>7
    <3>3. h.last[1][e0] \in Int /\ h2.last[1][e0] \in Int
      BY <1>4
    <3>. HIDE DEF s, g, s2, g2, e1, e0, a
    <3>. QED
      BY <1>4, <2>1, <2>6, <3>1, <3>2, <3>3, AddedDated
  <2>10. Alarms(k2, s2, g2, h2)
    <3>. SUFFICES ASSUME NEW i \in 1 .. Len(s2), s2[i].type # "LEFT"
                  PROVE  LET b == Bit(k[0].pend)
                         IN /\ s2[i].type \in {"INPUT", "CRC", "REQ"}
                            /\ g2[i].of <= e1 /\ e0 + b <= g2[i].of + 2
                            /\ s2[i].type = "REQ" =>
                                 /\ e0 + b <= g2[i].of + 1
                                 /\ g2[i].of = e1 => k2[1].pend
                            /\ s2[i].type = "CRC" =>
                                 /\ s2[i].tick = Wrap(g2[i].at - Delay)
                                 /\ CrcDue(s2[i].tick)
                            /\ g2[i].of < e0 /\ s2[i].type # "REQ" =>
                                 Behindhand(h, g2[i].at, g2[i].of)
      BY <1>3, <2>1 DEF Alarms
    <3>1. CASE i \in 1 .. Len(s)
      <4>1. s2[i] = s[i] /\ g2[i] = g[i]
        BY <3>1, <2>1 DEF Added
      <4>2. Alarms(k, s, g, h)
        BY <1>2 DEF HostLine
      <4>. QED
        BY <2>1, <2>2, <3>1, <4>1, <4>2 DEF Alarms
    <3>2. CASE i \notin 1 .. Len(s)
      <4>1. s2[i] = f /\ g2[i].of = e1 /\ g2[i].at = a
        BY <3>2, <2>1 DEF Added
      <4>2. /\ e0 + Bit(k[0].pend) <= e1 + 2
            /\ f.type = "REQ" => e0 + Bit(k[0].pend) <= e1 + 1
        BY <1>2, <2>1, <2>2 DEF HostSpan
      <4>3. e1 < e0 => Behindhand(h, a, e1)
        BY <1>2, <1>3 DEF HostSpan
      <4>. QED
        BY <1>4, <2>2, <4>1, <4>2, <4>3
    <3>. QED
      BY <3>1, <3>2
  <2>11. Ranked(s2, g2)
    <3>. SUFFICES ASSUME NEW i \in 1 .. Len(s2), NEW j \in 1 .. Len(s2),
                         i < j, s2[i].type # "LEFT", s2[j].type # "LEFT"
                  PROVE  /\ g2[i].of <= g2[j].of
                         /\ s2[i].type = "REQ" /\ s2[j].type = "REQ" =>
                              g2[i].of < g2[j].of
      BY DEF Ranked
    <3>1. Ranked(s, g) /\ Alarms(k, s, g, h)
      BY <1>2 DEF HostLine
    <3>2. i \in 1 .. Len(s) /\ s2[i] = s[i] /\ g2[i] = g[i]
      BY <2>1 DEF Added
    <3>3. CASE j \in 1 .. Len(s)
      BY <2>1, <3>1, <3>2, <3>3 DEF Added, Ranked
    <3>4. CASE j \notin 1 .. Len(s)
      <4>1. s2[j] = f /\ g2[j].of = e1 /\ Len(s2) = Len(s) + 1
        BY <3>4, <2>1 DEF Added
      <4>2. s[i].type # "LEFT"
        BY <3>2
      <4>3. g[i].of <= e1 /\ (s[i].type = "REQ" /\ g[i].of = e1 => k[1].pend)
        BY <2>1, <3>1, <3>2, <4>2 DEF Alarms
      <4>. QED
        BY <1>4, <2>2, <2>5, <3>2, <4>1, <4>3
    <3>. QED
      BY <3>3, <3>4
  <2>. QED
    BY <1>3, <2>4, <2>8, <2>9, <2>10, <2>11 DEF HostLine
<1>. QED
  BY <1>0, <1>5, <1>6

(* While both play: what is on the line from c is between what the other   *)
(* has heard and the mark of c, which are not far apart.                   *)
LEMMA Between ==
  ASSUME NEW k, NEW ch, NEW r, NEW h \in History, NEW c \in Seat, Roomy,
         Fits(k, ch, r, h), ~k[0].dropped, ~k[1].dropped
  PROVE  LET p == Peer(c)
             e == h.epoch[0]
         IN  /\ h.epoch[c] = e =>
                  /\ Known(h, p, e) <= Mark(h, c)
                  /\ h.heard[c] <= Known(h, p, e) + Delay + 1
             /\ Dated(ch[p], h.tag[p], e, Known(h, p, e), h.last[c][e])
             /\ h.epoch[c] # e => \A i \in 1 .. Len(ch[p]) :
                  ch[p][i].type = "INPUT" => h.tag[p][i].of # e
<1>. DEFINE e == h.epoch[0]
<1>0. c \in {0, 1} /\ Peer(0) = 1 /\ Peer(1) = 0 /\ 0 \in Seat /\ 1 \in Seat
  BY Seats
<1>1. /\ \A x \in Seat : /\ h.tick[x] \in Int /\ h.heard[x] \in Int
                         /\ h.epoch[x] \in Nat /\ Mark(h, x) \in Int
      /\ \A x \in Nat : First(h, x) \in Int
      /\ Delay \in Nat
  BY Typed, Numbers
<1>2. /\ Ages(h) /\ HostSpan(k, h) /\ GuestSpan(k[1], h)
      /\ GuestLine(ch[1], h.tag[1], h) /\ HostLine(k, ch[0], h.tag[0], h)
      /\ Clock(k[0], h, 0) /\ Clock(k[1], h, 1)
  BY <1>0 DEF Fits
<1>3. \A x \in Seat : h.heard[x] >= h.tick[x] - 1 /\ Mark(h, x) <= h.tick[x] + Delay
  BY <1>0, <1>1, <1>2, Seats DEF Clock
<1>4. CASE c = 0
  <2>1. Known(h, 1, e) <= Mark(h, 0)
    BY <1>0, <1>1, <1>2 DEF Known, GuestSpan, Ages, Mark
  <2>2. h.heard[0] <= Known(h, 1, e) + Delay + 1
    <3>1. CASE h.epoch[1] = e
      <4>1. h.heard[0] <= Mark(h, 1)
        BY <3>1, <1>2 DEF HostSpan
      <4>2. Known(h, 1, e) = h.heard[1]
        BY <3>1 DEF Known
      <4>. QED
        BY <4>1, <4>2, <1>0, <1>1, <1>3
    <3>2. CASE h.epoch[1] # e
      <4>1. h.heard[0] = First(h, e) /\ Known(h, 1, e) = First(h, e)
        BY <3>2, <1>0, <1>1, <1>2 DEF HostSpan, Ages, Behindhand, Known
      <4>. QED
        BY <4>1, <1>0, <1>1
    <3>. QED
      BY <3>1, <3>2
  <2>3. Dated(ch[1], h.tag[1], e, Known(h, 1, e), h.last[0][e])
    BY <1>0, <1>1, <1>2 DEF GuestLine, Ages
  <2>. QED
    BY <1>0, <1>4, <2>1, <2>2, <2>3
<1>5. CASE c = 1
  <2>1. Known(h, 0, e) = h.heard[0]
    BY DEF Known
  <2>2. h.epoch[1] = e => /\ h.heard[0] <= Mark(h, 1)
                          /\ h.heard[1] <= h.heard[0] + Delay + 1
    <3>. SUFFICES ASSUME h.epoch[1] = e
                  PROVE  /\ h.heard[0] <= Mark(h, 1)
                         /\ h.heard[1] <= h.heard[0] + Delay + 1
      OBVIOUS
    <3>1. h.heard[0] <= Mark(h, 1)
      BY <1>2 DEF HostSpan
    <3>2. h.heard[1] <= Mark(h, 0)
      BY <1>2 DEF GuestSpan, Mark
    <3>. QED
      BY <3>1, <3>2, <1>0, <1>1, <1>3
  <2>3. Dated(ch[0], h.tag[0], e, h.heard[0], h.last[1][e])
    BY <1>2 DEF HostLine
  <2>4. h.epoch[1] # e => \A i \in 1 .. Len(ch[0]) :
          ch[0][i].type = "INPUT" => h.tag[0][i].of # e
    <3>. SUFFICES ASSUME h.epoch[1] # e, NEW i \in 1 .. Len(ch[0]),
                         ch[0][i].type = "INPUT"
                  PROVE  h.tag[0][i].of # e
      OBVIOUS
    <3>1. Alarms(k, ch[0], h.tag[0], h) /\ h.epoch[1] <= e
      BY <1>2 DEF HostLine, Ages
    <3>2. h.tag[0][i].of <= h.epoch[1]
      BY <3>1 DEF Alarms
    <3>. QED
      BY <3>1, <3>2, <1>0, <1>1
  <2>. QED
    BY <1>0, <1>5, <2>1, <2>2, <2>3, <2>4
<1>. QED
  BY <1>0, <1>4, <1>5

(* Rings and lines still agree after it.                                   *)
LEMMA SpeaksAgree ==
  ASSUME NEW k \in [Seat -> Console], NEW ch, NEW r \in BOOLEAN,
         NEW h \in History, NEW k2, NEW ch2,
         NEW h2 \in History, NEW c \in Seat, NEW f, Roomy,
         Fits(k, ch, r, h), Speaks(k, ch, r, h, k2, ch2, h2, c, f),
         ~k2[0].dropped, ~k2[1].dropped
  PROVE  /\ \A x \in Seat : Agree(k2, ch2[x], h2.tag[x], r, h2, x)
         /\ Fresh(k2, h2)
<1>. DEFINE p == Peer(c)
            e == h.epoch[0]
            a == Mark(h2, c)
            s == ch[p]
            g == h.tag[p]
            s2 == ch2[p]
            g2 == h2.tag[p]
            lo == Known(h, p, e)
            hi == h.last[c][e]
            skip == Skip(k, h, c)
            skip2 == Skip(k2, h2, c)
<1>0. /\ c \in {0, 1} /\ p \in Seat /\ p # c /\ Peer(p) = c
      /\ Peer(0) = 1 /\ Peer(1) = 0 /\ 0 \in Seat /\ 1 \in Seat
  BY Seats
<1>1. ~k[0].dropped /\ ~k[1].dropped
  BY <1>0 DEF Speaks, Looks
<1>2. /\ Agree(k, ch[p], h.tag[p], r, h, p) /\ Agree(k, ch[c], h.tag[c], r, h, c)
      /\ Fresh(k, h) /\ Ages(h)
  BY <1>0, <1>1 DEF Fits
<1>3. /\ h2.epoch = h.epoch /\ h2.heard = h.heard
      /\ k2[p] = k[p]
      /\ ch2[c] = ch[c] /\ h2.tag[c] = h.tag[c]
      /\ Added(s, g, s2, g2, f, h.epoch[c], a)
      /\ Len(s2) = IF r THEN Len(s) + 1 ELSE Len(s)
  BY DEF Speaks, SameTimes
<1>4. /\ a \in {Mark(h, c), Mark(h, c) + 1}
      /\ Mark(h2, p) = Mark(h, p)
      /\ f.type = "INPUT" => a = Mark(h, c) + 1
      /\ f.type # "INPUT" => a = Mark(h, c)
      /\ \A x \in Seat, n \in Nat : Known(h2, x, n) = Known(h, x, n)
      /\ \A n \in Nat : First(h2, n) = First(h, n)
  BY ZenonT(40), SpeaksMark
<1>5. /\ a \in Int /\ lo \in Int /\ hi \in Int /\ Mark(h, c) \in Int
      /\ e \in Nat /\ g \in Tags /\ g2 \in Tags /\ Len(s) \in Nat
      /\ h.heard[p] \in Int /\ h.heard[c] \in Int /\ h.tick[c] \in Int
      /\ First(h, e) \in Int /\ Mark(h, 0) \in Int
      /\ PageSize \in Nat \ {0} /\ Delay \in Nat
  BY <1>0, <1>3, Typed, Numbers DEF Added
<1>6. /\ h.epoch[c] = e => lo <= Mark(h, c) /\ h.heard[c] <= lo + Delay + 1
      /\ Dated(s, g, e, lo, hi)
      /\ h.epoch[c] # e => \A i \in 1 .. Len(s) :
           s[i].type = "INPUT" => g[i].of # e
      /\ h.epoch[c] = e => hi = Mark(h, c)
  BY <1>1, Between DEF Mark
<1>7. /\ k2[c].ring[p] = k[c].ring[p]
      /\ f.type # "INPUT" => k2[c].ring = k[c].ring
      /\ f.type = "INPUT" =>
           /\ k2[c].ring[c][Cell(a)] = f.in
           /\ \A t \in Int : Cell(t) # Cell(a) =>
                k2[c].ring[c][Cell(t)] = k[c].ring[c][Cell(t)]
  <2>1. k[c].ring \in [Seat -> [Slots -> Inputs]]
    BY DEF Console
  <2>2. \A t \in Int : Cell(t) \in Slots
    BY CellType
  <2>3. f.type # "INPUT" => k2[c].ring = k[c].ring
    BY DEF Speaks, SpeaksInput, SpeaksCrc, SpeaksReq
  <2>4. f.type = "INPUT" =>
          k2[c].ring = [k[c].ring EXCEPT ![c][Cell(a)] = f.in]
    BY DEF Speaks, SpeaksInput, SpeaksCrc, SpeaksReq
  <2>. HIDE DEF a
  <2>. QED
    BY <1>0, <1>5, <2>1, <2>2, <2>3, <2>4
<1>8. /\ f.type = "INPUT" =>
           /\ Mark(h, c) <= h.heard[c] + Delay
           /\ \A t \in a - PageSize + 1 .. a - 1 :
                k2[c].ring[c][Cell(t)] = k[c].ring[c][Cell(t)]
      /\ f.type # "INPUT" => k2[c].ring[c] = k[c].ring[c]
  <2>. SUFFICES ASSUME f.type = "INPUT"
                PROVE  /\ Mark(h, c) <= h.heard[c] + Delay
                       /\ \A t \in a - PageSize + 1 .. a - 1 :
                            k2[c].ring[c][Cell(t)] = k[c].ring[c][Cell(t)]
    BY <1>7
  <2>1. Mark(h, c) <= h.heard[c] + Delay
    <3>1. Mark(h, c) = h.tick[c] + Delay - 1
      BY DEF Speaks, SpeaksInput, SpeaksCrc, SpeaksReq
    <3>2. h.tick[c] <= h.heard[c] + 1
      BY <1>0, <1>1 DEF Fits, Clock
    <3>3. /\ Mark(h, c) \in Int /\ h.heard[c] \in Int /\ h.tick[c] \in Int
          /\ Delay \in Nat
      BY <1>5
    <3>. HIDE DEF a, s, g, s2, g2, lo, hi, e, skip, skip2
    <3>. QED
      BY <3>1, <3>2, <3>3
  <2>2. \A t \in a - PageSize + 1 .. a - 1 : t \in Int /\ Cell(t) # Cell(a)
    <3>. HIDE DEF a
    <3>. QED
      BY <1>5, CellApart
  <2>. QED
    BY <1>7, <2>1, <2>2
<1>9. Agree(k2, ch2[c], h2.tag[c], r, h2, c)
  <2>1. \A t : Alike(k2, p, t) = Alike(k, p, t)
    BY <1>0, <1>3, <1>7 DEF Alike
  <2>2. Skip(k2, h2, p) = Skip(k, h, p)
    BY <1>0, <1>3, <1>7 DEF Skip
  <2>3. Known(h2, c, e) = Known(h, c, e)
    BY <1>4, <1>5
  <2>. QED
    BY <1>2, <1>3, <1>4, <2>1, <2>2, <2>3 DEF Agree
<1>. HIDE DEF a, s, g, s2, g2, lo, skip, skip2, e, hi
<1>10. /\ Told(s, g, e, k[c].ring[c]) /\ Gapless(s, g, e, lo, skip)
       /\ r /\ h.epoch[c] = e => Covered(s, g, e, lo, Mark(h, c), Len(s), skip)
       /\ h.epoch[1] = e => \A t \in Mark(h, c) - PageSize + 1 .. h.heard[p] :
            Alike(k, c, t)
  BY <1>0, <1>2 DEF Agree, s, g, e, lo, skip
<1>11. /\ Told(s2, g2, e, k2[c].ring[c]) /\ Gapless(s2, g2, e, lo, skip2)
       /\ r /\ h.epoch[c] = e => Covered(s2, g2, e, lo, a, Len(s2), skip2)
       /\ h.epoch[1] = e => \A t \in a - PageSize + 1 .. h.heard[p] :
            Alike(k2, c, t)
  <2>1. CASE h.epoch[c] = e
    <3>1. \A t \in lo + 1 .. Mark(h, c) :
            k2[c].ring[c][Cell(t)] = k[c].ring[c][Cell(t)]
      <4>1. CASE f.type = "INPUT"
        <5>1. Mark(h, c) <= lo + 2 * Delay + 1 /\ a = Mark(h, c) + 1
          BY <2>1, <4>1, <1>4, <1>5, <1>6, <1>8
        <5>2. \A t \in lo + 1 .. Mark(h, c) : t \in a - PageSize + 1 .. a - 1
          BY <5>1, <1>5 DEF Roomy
        <5>. QED
          BY <4>1, <5>2, <1>8
      <4>2. CASE f.type # "INPUT"
        BY <4>2, <1>8
      <4>. QED
        BY <4>1, <4>2
    <3>2. \A t \in lo + 1 .. Mark(h, c) : t \in skip => t \in skip2
      <4>1. \A t \in lo + 1 .. Mark(h, c) :
              k2[p].ring[c][Cell(t)] = k[p].ring[c][Cell(t)]
        BY <1>3
      <4>2. \A x \in Seat : x = c \/ x = p
        BY <1>0, Seats
      <4>. QED
        BY <1>3, <3>1, <4>1, <4>2 DEF skip, skip2, Skip
    <3>3. Told(s2, g2, e, k2[c].ring[c])
      <4>1. \A i \in 1 .. Len(s) : s[i].type = "INPUT" /\ g[i].of = e =>
              g[i].at \in lo + 1 .. Mark(h, c)
        <5>. SUFFICES ASSUME NEW i \in 1 .. Len(s), s[i].type = "INPUT",
                             g[i].of = e
                      PROVE  g[i].at \in lo + 1 .. Mark(h, c)
          OBVIOUS
        <5>1. i \in Nat
          BY <1>5
        <5>2. g[i].at \in Int
          BY <1>5, <5>1 DEF Tags
        <5>3. lo < g[i].at /\ g[i].at <= Mark(h, c)
          BY <1>6, <2>1 DEF Dated
        <5>. QED
          BY <1>5, <5>2, <5>3
      <4>2. \A i \in 1 .. Len(s) : s[i].type = "INPUT" /\ g[i].of = e =>
              k2[c].ring[c][Cell(g[i].at)] = k[c].ring[c][Cell(g[i].at)]
        BY <3>1, <4>1
      <4>3. f.type = "INPUT" => f.in = k2[c].ring[c][Cell(a)]
        BY <1>7
      <4>. QED
        BY <1>3, <1>10, <4>2, <4>3, AddedTold
    <3>4. Len(s2) = Len(s) + 1 => Covered(s, g, e, lo, Mark(h, c), Len(s), skip)
      BY <1>3, <1>5, <1>10, <2>1
    <3>5. Gapless(s2, g2, e, lo, skip2)
      <4>1. f.type = "INPUT" /\ e = e /\ Len(s2) = Len(s) + 1 =>
              /\ a = Mark(h, c) + 1
              /\ Covered(s, g, e, lo, Mark(h, c), Len(s), skip)
        BY <1>4, <3>4
      <4>2. /\ Dated(s, g, e, lo, Mark(h, c))
            /\ Added(s, g, s2, g2, f, e, a)
        BY <1>3, <1>6, <2>1
      <4>3. /\ a \in Int /\ lo \in Int /\ Mark(h, c) \in Int /\ g \in Tags
            /\ Gapless(s, g, e, lo, skip)
        BY <1>5, <1>10
      <4>. QED
        BY <3>2, <4>1, <4>2, <4>3, AddedGapless
    <3>6. ASSUME r
          PROVE  Covered(s2, g2, e, lo, a, Len(s2), skip2)
      <4>1. Covered(s, g, e, lo, Mark(h, c), Len(s), skip) /\ Len(s2) = Len(s) + 1
        BY <1>3, <1>10, <2>1, <3>6
      <4>2. CASE f.type = "INPUT"
        <5>1. Mark(h, c) = a - 1
          BY <4>2, <1>4, <1>5
        <5>2. Added(s, g, s2, g2, f, e, a)
          BY <1>3, <2>1
        <5>. QED
          BY <4>1, <4>2, <5>1, <5>2, <1>5, <3>2, AddedNext
      <4>3. CASE f.type # "INPUT"
        <5>1. a = Mark(h, c) /\ Len(s) \in 0 .. Len(s) /\ Len(s2) \in Len(s) .. Len(s2)
          BY <4>1, <4>3, <1>4, <1>5
        <5>. QED
          BY <4>1, <5>1, <1>3, <1>5, <3>2, AddedCovered
      <4>. QED
        BY <4>2, <4>3
    <3>7. ASSUME h.epoch[1] = e, NEW t \in a - PageSize + 1 .. h.heard[p]
          PROVE  Alike(k2, c, t)
      <4>1. h.heard[p] <= Mark(h, c)
        BY <1>6, <2>1, <3>7, <1>0 DEF lo, e, Known
      <4>2. t \in Mark(h, c) - PageSize + 1 .. h.heard[p]
        BY <1>4, <1>5
      <4>3. Alike(k, c, t)
        BY <1>10, <3>7, <4>2
      <4>4. k2[c].ring[c][Cell(t)] = k[c].ring[c][Cell(t)]
        <5>1. CASE f.type = "INPUT"
          <6>1. t \in a - PageSize + 1 .. a - 1
            BY <5>1, <4>1, <1>4, <1>5
          <6>. QED
            BY <5>1, <6>1, <1>8
        <5>2. CASE f.type # "INPUT"
          BY <5>2, <1>8
        <5>. QED
          BY <5>1, <5>2
      <4>5. k2[p].ring[c][Cell(t)] = k[p].ring[c][Cell(t)]
        BY <1>3
      <4>. QED
        BY <4>3, <4>4, <4>5, <1>0 DEF Alike
    <3>. QED
      BY <3>3, <3>5, <3>6, <3>7
  <2>2. CASE h.epoch[c] # e
    <3>1. h.epoch[1] # e
      BY <2>2, <1>0 DEF e
    <3>2. Told(s2, g2, e, k2[c].ring[c])
      BY <1>3, <1>6, <1>10, <2>2, AddedTold
    <3>3. Gapless(s2, g2, e, lo, skip2)
      <4>1. \A t \in lo + 1 .. hi : t \in skip => t \in skip2
        BY <3>1 DEF skip, Skip, e
      <4>. DEFINE n == h.epoch[c]
      <4>2. f.type = "INPUT" /\ n = e /\ Len(s2) = Len(s) + 1 =>
              /\ a = hi + 1
              /\ Covered(s, g, e, lo, hi, Len(s), skip)
        BY <2>2
      <4>3. /\ a \in Int /\ lo \in Int /\ hi \in Int /\ g \in Tags
            /\ Gapless(s, g, e, lo, skip) /\ Dated(s, g, e, lo, hi)
            /\ Added(s, g, s2, g2, f, n, a)
        BY <1>3, <1>5, <1>6, <1>10
      <4>. HIDE DEF n
      <4>. QED
        BY <4>1, <4>2, <4>3, AddedGapless
    <3>. QED
      BY <2>2, <3>1, <3>2, <3>3
  <2>. QED
    BY <2>1, <2>2
<1>12. Agree(k2, ch2[p], h2.tag[p], r, h2, p)
  <2>1. Known(h2, p, e) = lo
    BY <1>0, <1>4, <1>5 DEF lo
  <2>2. Mark(h2, c) = a
    BY DEF a
  <2>. QED
    BY <1>0, <1>3, <1>11, <2>1, <2>2 DEF Agree, s2, g2, e, skip2
<1>13. Fresh(k2, h2)
  <2>. SUFFICES ASSUME h.epoch[1] < e
                PROVE  /\ k2[0].ring[1] = IdleRings[1]
                       /\ \A t \in Mark(h2, 0) - PageSize + 1 .. First(h, e) :
                            k2[0].ring[0][Cell(t)] = Idle
    BY <1>3, <1>4, <1>5 DEF Fresh, e
  <2>1. /\ k[0].ring[1] = IdleRings[1]
        /\ \A t \in Mark(h, 0) - PageSize + 1 .. First(h, e) :
             k[0].ring[0][Cell(t)] = Idle
    BY <1>2 DEF Fresh, e
  <2>2. CASE c = 1
    BY <2>1, <2>2, <1>0, <1>3, <1>4
  <2>3. CASE c = 0
    <3>1. k2[0].ring[1] = IdleRings[1]
      BY <2>1, <2>3, <1>0, <1>7
    <3>2. ASSUME NEW t \in Mark(h2, 0) - PageSize + 1 .. First(h, e)
          PROVE  k2[0].ring[0][Cell(t)] = Idle
      <4>1. First(h, e) <= Mark(h, 0)
        BY <1>2 DEF Ages, e
      <4>2. t \in Mark(h, 0) - PageSize + 1 .. First(h, e)
        BY <2>3, <1>4, <1>5 DEF a
      <4>3. k2[0].ring[0][Cell(t)] = k[0].ring[0][Cell(t)]
        <5>1. CASE f.type = "INPUT"
          <6>1. t \in a - PageSize + 1 .. a - 1
            BY <5>1, <4>1, <2>3, <1>4, <1>5 DEF a
          <6>. QED
            BY <5>1, <6>1, <1>8, <2>3
        <5>2. CASE f.type # "INPUT"
          BY <5>2, <1>8, <2>3
        <5>. QED
          BY <5>1, <5>2
      <4>. QED
        BY <2>1, <4>2, <4>3
    <3>. QED
      BY <3>1, <3>2
  <2>. QED
    BY <2>2, <2>3, <1>0
<1>14. \A x \in Seat : x = c \/ x = p
  BY <1>0, Seats
<1>. QED
  BY <1>9, <1>12, <1>13, <1>14

(* A console that speaks leaves a state the next history fits.             *)
LEMMA SpeaksFits ==
  ASSUME NEW k \in [Seat -> Console], NEW ch, NEW r \in BOOLEAN,
         NEW h \in History, NEW k2, NEW ch2,
         NEW h2 \in History, NEW c \in Seat, NEW f, Roomy,
         Fits(k, ch, r, h), Speaks(k, ch, r, h, k2, ch2, h2, c, f)
  PROVE  Fits(k2, ch2, r, h2)
<1>1. Ages(h2)
  BY SpeaksMark
<1>2. /\ \A x \in Seat : ~k2[x].dropped => Clock(k2[x], h2, x)
      /\ ~k2[1].dropped => GuestSpan(k2[1], h2)
      /\ ~k2[0].dropped => HostSpan(k2, h2) /\ Records(k2[0], h2)
  BY SpeaksSpan
<1>3. ~k2[1].dropped =>
        /\ GuestLine(ch2[1], h2.tag[1], h2)
        /\ r => Reached(ch2[1], h2.tag[1], h2.epoch[1], h2.epoch[0])
  BY SpeaksGuestLine
<1>4. ~k2[0].dropped => HostLine(k2, ch2[0], h2.tag[0], h2)
  BY SpeaksHostLine
<1>5. ~k2[0].dropped /\ ~k2[1].dropped =>
        /\ \A x \in Seat : Agree(k2, ch2[x], h2.tag[x], r, h2, x)
        /\ Fresh(k2, h2)
  BY SpeaksAgree
<1>. QED
  BY <1>1, <1>2, <1>3, <1>4, <1>5 DEF Fits

-----------------------------------------------------------------------------
(* Most of this does not look at ticks, phases, counts, images and such.   *)
Views(m, n) ==
  /\ n.dropped = m.dropped /\ n.hold = m.hold /\ n.resume = m.resume
  /\ n.ring = m.ring /\ n.pend = m.pend

(* So the parts about lines, spans and rings carry over.                   *)
LEMMA SameParts ==
  ASSUME NEW k, NEW k2, NEW h \in History, NEW h2 \in History,
         \A x \in Seat : Views(k[x], k2[x]),
         h2.heard = h.heard, h2.epoch = h.epoch,
         h2.last = h.last, h2.start = h.start
  PROVE  /\ \A c \in Seat : Mark(h2, c) = Mark(h, c)
         /\ \A e \in Nat : First(h2, e) = First(h, e)
         /\ Ages(h) => Ages(h2)
         /\ GuestSpan(k[1], h) => GuestSpan(k2[1], h2)
         /\ \A s, g : GuestLine(s, g, h) => GuestLine(s, g, h2)
         /\ HostSpan(k, h) => HostSpan(k2, h2)
         /\ \A s, g : HostLine(k, s, g, h) => HostLine(k2, s, g, h2)
         /\ \A s, g, r : \A c \in Seat :
              Agree(k, s, g, r, h, c) => Agree(k2, s, g, r, h2, c)
         /\ Fresh(k, h) => Fresh(k2, h2)
<1>1. 0 \in Seat /\ 1 \in Seat /\ \A c \in Seat : Peer(c) \in Seat
  BY Seats
<1>2. \A e : First(h2, e) = First(h, e)
  BY DEF First
<1>3. /\ \A c : Mark(h2, c) = Mark(h, c)
      /\ \A c, e : Known(h2, c, e) = Known(h, c, e)
      /\ \A a, e : Behindhand(h2, a, e) = Behindhand(h, a, e)
  BY <1>2 DEF Mark, Known, Behindhand
<1>4. Ages(h) => Ages(h2)
  BY <1>2, <1>3 DEF Ages
<1>5. GuestSpan(k[1], h) => GuestSpan(k2[1], h2)
  BY <1>1, <1>3 DEF GuestSpan, Views
<1>6. \A s, g : GuestLine(s, g, h) => GuestLine(s, g, h2)
  BY <1>3 DEF GuestLine
<1>7. HostSpan(k, h) => HostSpan(k2, h2)
  BY <1>1, <1>3 DEF HostSpan, Views
<1>8. \A s, g : Alarms(k, s, g, h) => Alarms(k2, s, g, h2)
  BY <1>1, <1>3 DEF Alarms, Views
<1>9. \A s, g : HostLine(k, s, g, h) => HostLine(k2, s, g, h2)
  BY <1>8 DEF HostLine
<1>10. ASSUME NEW s, NEW g, NEW r, NEW c \in Seat, Agree(k, s, g, r, h, c)
       PROVE  Agree(k2, s, g, r, h2, c)
  <2>1. \A x \in Seat : k2[x].ring = k[x].ring
    BY DEF Views
  <2>2. /\ \A p, t : Alike(k2, p, t) = Alike(k, p, t)
        /\ \A p : Skip(k2, h2, p) = Skip(k, h, p)
    BY <1>1, <2>1 DEF Alike, Skip
  <2>. QED
    BY <1>1, <1>3, <1>10, <2>1, <2>2 DEF Agree
<1>11. Fresh(k, h) => Fresh(k2, h2)
  BY <1>1, <1>2, <1>3 DEF Fresh, Views
<1>. QED
  BY <1>2, <1>3, <1>4, <1>5, <1>6, <1>7, <1>9, <1>10, <1>11

(* So a step that changes none of what the history is about fits the same. *)
Same(m, n) == Looks(m, n) /\ n.ring = m.ring /\ n.pend = m.pend

(* (the history does not change).                                          *)
LEMMA SameFits ==
  ASSUME NEW k, NEW k2, NEW ch, NEW r, NEW h \in History,
         \A x \in Seat : Same(k[x], k2[x]), Fits(k, ch, r, h)
  PROVE  Fits(k2, ch, r, h)
<1>1. /\ \A x \in Seat : Views(k[x], k2[x]) /\ Looks(k[x], k2[x])
      /\ \A x \in Seat : k2[x].dropped = k[x].dropped
      /\ 0 \in Seat /\ 1 \in Seat
  BY Seats DEF Same, Looks, Views
<1>2. \A x \in Seat : Clock(k[x], h, x) => Clock(k2[x], h, x)
  BY <1>1 DEF Clock, Looks
<1>3. Records(k[0], h) => Records(k2[0], h)
  BY <1>1 DEF Records, Looks
<1>4. /\ Ages(h)
      /\ \A c \in Seat : ~k2[c].dropped => Clock(k2[c], h, c)
  BY <1>1, <1>2 DEF Fits
<1>5. ~k2[1].dropped =>
        /\ GuestSpan(k2[1], h) /\ GuestLine(ch[1], h.tag[1], h)
        /\ r => Reached(ch[1], h.tag[1], h.epoch[1], h.epoch[0])
  BY <1>1, SameParts DEF Fits
<1>6. ~k2[0].dropped =>
        /\ HostSpan(k2, h) /\ HostLine(k2, ch[0], h.tag[0], h)
        /\ Records(k2[0], h)
  BY <1>1, <1>3, SameParts DEF Fits
<1>7. ~k2[0].dropped /\ ~k2[1].dropped =>
        /\ \A c \in Seat : Agree(k2, ch[c], h.tag[c], r, h, c)
        /\ Fresh(k2, h)
  BY <1>1, SameParts DEF Fits
<1>. QED
  BY <1>4, <1>5, <1>6, <1>7 DEF Fits

-----------------------------------------------------------------------------
(* The tick counter of c goes up, past a gate that was open; a checksum    *)
(* record may be made of the tick just run.                                *)
Ticks(k, h, k2, h2, c) ==
  LET m == k[c]
      n == k2[c]
  IN  /\ ~m.dropped /\ k2[Peer(c)] = k[Peer(c)]
      /\ h.tick[c] <= h.heard[c] /\ Mark(h, c) = h.tick[c] + Delay
      /\ Views(m, n) /\ n.wm = m.wm /\ n.epoch = m.epoch
      /\ n.tick = Wrap(h.tick[c] + 1)
      /\ \A x \in CrcSlots :
           n.crc[x] = m.crc[x] \/ n.crc[x].t = Wrap(h.tick[c])
      /\ h2.tick[c] = h.tick[c] + 1 /\ h2.tick[Peer(c)] = h.tick[Peer(c)]
      /\ h2.heard = h.heard /\ h2.epoch = h.epoch /\ h2.last = h.last
      /\ h2.start = h.start /\ h2.tag = h.tag

(* A tick run leaves a state its history fits.                             *)
LEMMA TicksFits ==
  ASSUME NEW k, NEW k2, NEW ch, NEW r, NEW h \in History, NEW h2 \in History,
         NEW c \in Seat, Fits(k, ch, r, h), Ticks(k, h, k2, h2, c)
  PROVE  Fits(k2, ch, r, h2)
<1>. DEFINE p == Peer(c)
<1>1. /\ \A x \in Seat : x = c \/ x = p
      /\ p \in Seat /\ p # c /\ 0 \in Seat /\ 1 \in Seat
  BY Seats
<1>2. /\ \A x \in Seat : Views(k[x], k2[x])
      /\ \A x \in Seat : k2[x].dropped = k[x].dropped
  BY <1>1 DEF Ticks, Views
<1>3. /\ h2.heard = h.heard /\ h2.epoch = h.epoch /\ h2.last = h.last
      /\ h2.start = h.start /\ h2.tag = h.tag
  BY DEF Ticks
<1>4. /\ h.tick[c] \in Int /\ h.heard[c] \in Int /\ h.heard[p] \in Int
      /\ h.tick[0] \in Int /\ h2.tick[0] \in Int
      /\ h.epoch[c] \in Nat /\ h.start[h.epoch[c]] \in Int
      /\ h.epoch[0] \in Nat /\ h.start[h.epoch[0]] \in Int /\ Delay \in Nat
  BY <1>1, Typed, Numbers
<1>5. /\ \A x \in Seat : Mark(h2, x) = Mark(h, x)
      /\ \A e \in Nat : First(h2, e) = First(h, e)
  BY <1>2, <1>3, SameParts
<1>6. ASSUME NEW x \in Seat, ~k2[x].dropped
      PROVE  Clock(k2[x], h2, x)
  <2>1. Clock(k[x], h, x)
    BY <1>2, <1>6 DEF Fits
  <2>2. CASE x = p
    <3>1. k2[x] = k[x] /\ h2.tick[x] = h.tick[x]
      BY <2>2 DEF Ticks
    <3>2. h.epoch[x] \in Nat
      BY Typed
    <3>. QED
      BY <2>1, <3>1, <3>2, <1>3, <1>5 DEF Clock
  <2>3. CASE x = c
    <3>1. /\ h2.tick[c] = h.tick[c] + 1 /\ h.tick[c] <= h.heard[c]
          /\ Mark(h, c) = h.tick[c] + Delay
          /\ k2[c].tick = Wrap(h2.tick[c])
          /\ k2[c].wm = k[c].wm /\ k2[c].epoch = k[c].epoch
      BY DEF Ticks
    <3>2. /\ h.start[h.epoch[c]] <= h2.tick[c]
          /\ h2.tick[c] <= h.heard[c] + 1
          /\ Mark(h, c) = h2.tick[c] + Delay - 1
      BY <2>1, <2>3, <3>1, <1>4 DEF Clock
    <3>. QED
      BY <2>1, <2>3, <3>1, <3>2, <1>3, <1>4, <1>5 DEF Clock
  <2>. QED
    BY <2>2, <2>3, <1>1
<1>7. ASSUME ~k2[0].dropped
      PROVE  Records(k2[0], h2)
  <2>1. /\ Records(k[0], h) /\ Clock(k[0], h, 0)
    BY <1>1, <1>2, <1>7 DEF Fits
  <2>2. CASE c = 0
    <3>1. /\ h2.tick[0] = h.tick[0] + 1
          /\ \A x \in CrcSlots :
               \/ k2[0].crc[x] = k[0].crc[x]
               \/ k2[0].crc[x].t = Wrap(h.tick[0])
      BY <2>2 DEF Ticks
    <3>2. h.start[h.epoch[0]] <= h.tick[0]
      BY <2>1 DEF Clock
    <3>3. /\ h.tick[0] \in h.start[h.epoch[0]] .. h2.tick[0] - 1
          /\ \A t \in h.start[h.epoch[0]] .. h.tick[0] - 1 :
               t \in h.start[h.epoch[0]] .. h2.tick[0] - 1
      BY <3>1, <3>2, <1>4
    <3>. QED
      BY <2>1, <3>1, <3>3, <1>3 DEF Records
  <2>3. CASE c # 0
    <3>1. k2[0] = k[0] /\ h2.tick[0] = h.tick[0]
      BY <2>3, <1>1 DEF Ticks
    <3>. QED
      BY <2>1, <3>1, <1>3 DEF Records
  <2>. QED
    BY <2>2, <2>3
<1>8. ~k2[1].dropped =>
        /\ GuestSpan(k2[1], h2) /\ GuestLine(ch[1], h2.tag[1], h2)
        /\ r => Reached(ch[1], h2.tag[1], h2.epoch[1], h2.epoch[0])
  BY <1>1, <1>2, <1>3, SameParts DEF Fits
<1>9. /\ Ages(h2)
      /\ ~k2[0].dropped =>
           HostSpan(k2, h2) /\ HostLine(k2, ch[0], h2.tag[0], h2)
  BY <1>1, <1>2, <1>3, SameParts DEF Fits
<1>10. ~k2[0].dropped /\ ~k2[1].dropped =>
         /\ \A x \in Seat : Agree(k2, ch[x], h2.tag[x], r, h2, x)
         /\ Fresh(k2, h2)
  BY <1>1, <1>2, <1>3, SameParts DEF Fits
<1>. QED
  BY <1>6, <1>7, <1>8, <1>9, <1>10 DEF Fits

-----------------------------------------------------------------------------
(* A push: BEGIN, the chunks and END, sent in epoch e to resume at t,      *)
(* join the line.                                                          *)
Images(s, g, s2, g2, r, e, t) ==
  /\ Kept(s, g, s2, g2, Len(s))
  /\ Len(s2) = IF r THEN Len(s) + NParts + 2 ELSE Len(s)
  /\ \A i \in Len(s) + 1 .. Len(s2) :
       /\ g2[i].of = e
       /\ s2[i].type = IF i = Len(s) + 1 THEN "BEGIN"
                       ELSE IF i = Len(s2) THEN "END" ELSE "CHUNK"
       /\ i = Len(s) + 1 => s2[i].tick = Wrap(t)

(* With them the epochs on the line to the guest reach one further.        *)
LEMMA ImagesLabelled ==
  ASSUME NEW s, NEW g, NEW s2, NEW g2, NEW r \in BOOLEAN,
         NEW lo \in Nat, NEW hi \in Nat, NEW start, NEW start2, lo <= hi,
         Images(s, g, s2, g2, r, hi, start2[hi + 1]),
         Labelled(s, g, lo, hi, start), r => Reached(s, g, lo, hi),
         \A e \in 0 .. hi : start2[e] = start[e]
  PROVE  /\ Labelled(s2, g2, lo, hi + 1, start2)
         /\ r => Reached(s2, g2, lo, hi + 1)
<1>. DEFINE n == Len(s)
<1>1. /\ n \in Nat /\ Len(s2) \in Nat /\ n <= Len(s2)
      /\ \A i \in 1 .. n : s2[i] = s[i] /\ g2[i] = g[i]
      /\ \A i \in n + 1 .. Len(s2) :
           /\ g2[i].of = hi
           /\ s2[i].type = IF i = n + 1 THEN "BEGIN"
                           ELSE IF i = Len(s2) THEN "END" ELSE "CHUNK"
           /\ i = n + 1 => s2[i].tick = Wrap(start2[hi + 1])
  BY DEF Images, Kept
<1>2. NParts \in Nat \ {0} /\ Len(s2) = IF r THEN n + NParts + 2 ELSE n
  BY SizeAssumption DEF Images
<1>3. \A i \in 1 .. n : Passed(s2, g2, i) = Passed(s, g, i)
  BY <1>1 DEF Passed
<1>4. ASSUME NEW i \in 1 .. Len(s2), s2[i].type # "LEFT"
      PROVE  /\ g2[i].of \in lo .. hi + 1
             /\ s2[i].type \in {"BEGIN", "END"} => g2[i].of < hi + 1
             /\ s2[i].type = "BEGIN" => s2[i].tick = Wrap(start2[g2[i].of + 1])
             /\ g2[i].of = IF i = 1 THEN lo ELSE Passed(s2, g2, i - 1)
  <2>1. CASE i \in 1 .. n
    <3>1. s2[i] = s[i] /\ g2[i] = g[i]
      BY <1>1, <2>1
    <3>2. /\ g[i].of \in lo .. hi
          /\ s[i].type \in {"BEGIN", "END"} => g[i].of < hi
          /\ s[i].type = "BEGIN" => s[i].tick = Wrap(start[g[i].of + 1])
          /\ g[i].of = IF i = 1 THEN lo ELSE Passed(s, g, i - 1)
      BY <1>4, <2>1, <3>1 DEF Labelled
    <3>3. s[i].type = "BEGIN" => start2[g[i].of + 1] = start[g[i].of + 1]
      BY <3>2
    <3>4. i # 1 => i - 1 \in 1 .. n
      BY <2>1
    <3>. QED
      BY <3>1, <3>2, <3>3, <3>4, <1>3
  <2>2. CASE i \notin 1 .. n
    <3>1. r /\ i \in n + 1 .. Len(s2)
      BY <1>1, <1>2, <2>2
    <3>2. /\ g2[i].of = hi
          /\ s2[i].type = "BEGIN" => s2[i].tick = Wrap(start2[hi + 1])
      BY <1>1, <3>1
    <3>3. CASE i = n + 1
      <4>1. hi = IF n = 0 THEN lo ELSE Passed(s, g, n)
        BY <3>1 DEF Reached
      <4>2. n # 0 => n \in 1 .. n /\ i - 1 = n
        BY <1>1, <3>3
      <4>. QED
        BY <3>2, <3>3, <4>1, <4>2, <1>1, <1>3
    <3>4. CASE i # n + 1
      <4>1. /\ i - 1 \in n + 1 .. Len(s2) /\ i - 1 # Len(s2) /\ i # 1
        BY <1>1, <3>1, <3>4
      <4>2. Passed(s2, g2, i - 1) = hi
        BY <4>1, <1>1 DEF Passed
      <4>. QED
        BY <3>2, <4>1, <4>2
    <3>. QED
      BY <3>3, <3>4
  <2>. QED
    BY <2>1, <2>2
<1>5. ASSUME r
      PROVE  Reached(s2, g2, lo, hi + 1)
  <2>1. Len(s2) \in n + 1 .. Len(s2) /\ Len(s2) # n + 1 /\ Len(s2) # 0
    BY <1>1, <1>2, <1>5
  <2>2. s2[Len(s2)].type = "END" /\ g2[Len(s2)].of = hi
    BY <2>1, <1>1
  <2>. QED
    BY <2>1, <2>2 DEF Reached, Passed
<1>6. ASSUME NEW i \in 1 .. Len(s2), NEW j \in 1 .. Len(s2), i < j,
             s2[i].type # "LEFT", s2[j].type # "LEFT"
      PROVE  Passed(s2, g2, i) <= g2[j].of
  <2>1. CASE j \in 1 .. n
    <3>1. /\ i \in 1 .. n /\ s2[i] = s[i] /\ s2[j] = s[j] /\ g2[j] = g[j]
      BY <1>1, <1>6, <2>1
    <3>2. Passed(s, g, i) <= g[j].of
      BY <1>6, <2>1, <3>1 DEF Labelled
    <3>. QED
      BY <1>3, <3>1, <3>2
  <2>2. CASE j \notin 1 .. n
    <3>1. j \in n + 1 .. Len(s2) /\ g2[j].of = hi
      BY <1>1, <2>2
    <3>2. CASE i \in 1 .. n
      <4>1. s[i].type # "LEFT"
        BY <1>1, <1>6, <3>2
      <4>2. Passed(s, g, i) <= hi
        BY <3>2, <4>1 DEF Labelled, Passed
      <4>. QED
        BY <1>3, <3>1, <3>2, <4>2
    <3>3. CASE i \notin 1 .. n
      <4>1. i \in n + 1 .. Len(s2) /\ i # Len(s2)
        BY <1>1, <1>6, <3>3
      <4>2. g2[i].of = hi /\ s2[i].type # "END"
        BY <1>1, <4>1
      <4>. QED
        BY <3>1, <4>2 DEF Passed
    <3>. QED
      BY <3>2, <3>3
  <2>. QED
    BY <2>1, <2>2
<1>. QED
  BY <1>4, <1>5, <1>6 DEF Labelled

(* The host pushes from behind its mark and rebases, or is dropped in the  *)
(* same pass and does not matter any more.                                 *)
Pushes(k, ch, r, h, k2, ch2, h2) ==
  LET e == h.epoch[0] + 1
  IN  /\ ~k[0].dropped /\ k[0].pend /\ k2[1] = k[1]
      /\ First(h, h.epoch[0]) < Mark(h, 0)
      /\ h2.epoch[0] = e /\ h2.start[e] = Mark(h, 0) + ResumeAhead + 1 - Delay
      /\ h2.last[0][e] = First(h2, e)
      /\ h2.tick[0] = h2.start[e] /\ h2.heard[0] = First(h2, e)
      /\ h2.epoch[1] = h.epoch[1] /\ h2.tick[1] = h.tick[1]
      /\ h2.heard[1] = h.heard[1] /\ h2.last[1] = h.last[1]
      /\ \A x \in 0 .. h.epoch[0] :
           h2.start[x] = h.start[x] /\ h2.last[0][x] = h.last[0][x]
      /\ ch2[0] = ch[0] /\ h2.tag[0] = h.tag[0]
      /\ Images(ch[1], h.tag[1], ch2[1], h2.tag[1], r, h.epoch[0], h2.start[e])
      /\ ~k2[0].dropped =>
           /\ Mark(h, 0) = h.tick[0] + Delay - 1
           /\ k2[0].tick = Wrap(h2.start[e]) /\ k2[0].wm = Wrap(First(h2, e))
           /\ k2[0].epoch = e /\ ~k2[0].pend /\ k2[0].ring = IdleRings
           /\ k2[0].crc = NoCrc

(* The numbers of a push.                                                  *)
LEMMA PushesTimes ==
  ASSUME NEW k, NEW ch, NEW r, NEW h \in History, NEW k2, NEW ch2,
         NEW h2 \in History, Roomy,
         Fits(k, ch, r, h), Pushes(k, ch, r, h, k2, ch2, h2)
  PROVE  LET e == h.epoch[0] + 1
         IN  /\ h.epoch[0] \in Nat /\ h.epoch[1] \in Nat /\ e \in Nat
             /\ h.epoch[1] <= h.epoch[0] /\ e <= h.epoch[1] + 2
             /\ \A x \in 0 .. h.epoch[0] :
                  /\ x \in Nat /\ x # e
                  /\ First(h2, x) = First(h, x)
                  /\ Known(h2, 1, x) = Known(h, 1, x)
             /\ Mark(h2, 0) = First(h2, e) /\ Mark(h2, 1) = Mark(h, 1)
             /\ First(h2, e) = Mark(h, 0) + ResumeAhead
             /\ h2.start[e] = First(h2, e) + 1 - Delay
             /\ h.last[0][h.epoch[0]] = Mark(h, 0)
             /\ Ages(h2)
<1>. DEFINE e0 == h.epoch[0]
            e == e0 + 1
<1>1. 0 \in Seat /\ 1 \in Seat /\ Ages(h) /\ HostSpan(k, h)
  BY Seats DEF Fits, Pushes
<1>2. /\ e0 \in Nat /\ h.epoch[1] \in Nat /\ e \in Nat
      /\ Mark(h, 0) \in Int /\ Delay \in Nat /\ ResumeAhead \in Nat
      /\ \A x \in Nat : h2.start[x] \in Int
  BY <1>1, Typed, Numbers
<1>3. h.epoch[1] <= e0 /\ e <= h.epoch[1] + 2
  BY <1>1, <1>2 DEF Ages, HostSpan, Bit, Pushes
<1>4. /\ h2.epoch[0] = e /\ h2.epoch[1] = h.epoch[1]
      /\ h2.last[0][e] = First(h2, e)
      /\ h2.last[1] = h.last[1] /\ h2.heard[1] = h.heard[1]
      /\ h2.start[e] = Mark(h, 0) + ResumeAhead + 1 - Delay
      /\ \A x \in 0 .. e0 :
           h2.start[x] = h.start[x] /\ h2.last[0][x] = h.last[0][x]
  BY DEF Pushes
<1>5. \A x \in 0 .. e0 : /\ x \in Nat /\ x # e
                         /\ First(h2, x) = First(h, x)
                         /\ Known(h2, 1, x) = Known(h, 1, x)
  BY <1>2, <1>4 DEF First, Known
<1>6. /\ Mark(h2, 0) = First(h2, e) /\ Mark(h2, 1) = Mark(h, 1)
      /\ h.last[0][e0] = Mark(h, 0)
  BY <1>4 DEF Mark
<1>7. /\ First(h2, e) = Mark(h, 0) + ResumeAhead
      /\ h2.start[e] = First(h2, e) + 1 - Delay
  BY <1>2, <1>4 DEF First
<1>8. Ages(h2)
  <2>1. First(h2, e) <= Mark(h2, 0)
    BY <1>2, <1>6, <1>7
  <2>2. ASSUME NEW x \in 0 .. e - 1
        PROVE  /\ First(h2, x) < h2.last[0][x]
               /\ h2.start[x + 1] = h2.last[0][x] + ResumeAhead + 1 - Delay
    <3>1. x \in 0 .. e0
      BY <1>2
    <3>2. CASE x = e0
      <4>1. First(h, e0) < Mark(h, 0)
        BY DEF Pushes
      <4>2. /\ h2.last[0][x] = Mark(h, 0) /\ First(h2, x) = First(h, e0)
        BY <3>1, <3>2, <1>4, <1>5, <1>6
      <4>3. h2.start[x + 1] = Mark(h, 0) + ResumeAhead + 1 - Delay
        BY <3>2, <1>4
      <4>. QED
        BY <4>1, <4>2, <4>3
    <3>3. CASE x # e0
      <4>1. x \in 0 .. e0 - 1 /\ x + 1 \in 0 .. e0
        BY <3>1, <3>3, <1>2
      <4>2. /\ First(h, x) < h.last[0][x]
            /\ h.start[x + 1] = h.last[0][x] + ResumeAhead + 1 - Delay
        BY <4>1, <1>1 DEF Ages
      <4>3. /\ h2.start[x + 1] = h.start[x + 1]
            /\ h2.last[0][x] = h.last[0][x] /\ First(h2, x) = First(h, x)
        BY <3>1, <4>1, <1>4, <1>5
      <4>. QED
        BY <4>2, <4>3
    <3>. QED
      BY <3>2, <3>3
  <2>. QED
    BY <1>2, <1>3, <1>4, <2>1, <2>2 DEF Ages
<1>. QED
  BY <1>2, <1>3, <1>5, <1>6, <1>7, <1>8

(* What it leaves for the guest,                                           *)
LEMMA PushesGuest ==
  ASSUME NEW k, NEW ch, NEW r \in BOOLEAN, NEW h \in History, NEW k2, NEW ch2,
         NEW h2 \in History, Roomy, ~k[1].dropped,
         Fits(k, ch, r, h), Pushes(k, ch, r, h, k2, ch2, h2)
  PROVE  /\ Clock(k[1], h2, 1)
         /\ GuestSpan(k[1], h2) /\ GuestLine(ch2[1], h2.tag[1], h2)
         /\ r => Reached(ch2[1], h2.tag[1], h2.epoch[1], h2.epoch[0])
<1>. DEFINE s == ch[1]
            g == h.tag[1]
            s2 == ch2[1]
            g2 == h2.tag[1]
            e0 == h.epoch[0]
            e1 == h.epoch[1]
            e == e0 + 1
<1>1. 0 \in Seat /\ 1 \in Seat
  BY Seats
<1>2. /\ Clock(k[1], h, 1) /\ GuestSpan(k[1], h) /\ GuestLine(s, g, h)
      /\ r => Reached(s, g, e1, e0)
  BY <1>1 DEF Fits
<1>3. /\ e0 \in Nat /\ e1 \in Nat /\ e \in Nat /\ e1 <= e0
      /\ \A x \in 0 .. e0 : /\ x \in Nat /\ x # e
                            /\ First(h2, x) = First(h, x)
                            /\ Known(h2, 1, x) = Known(h, 1, x)
      /\ Mark(h2, 1) = Mark(h, 1)
      /\ h2.start[e] = First(h2, e) + 1 - Delay
  BY PushesTimes
<1>4. /\ h2.epoch[0] = e /\ h2.epoch[1] = e1
      /\ h2.last[0][e] = First(h2, e)
      /\ h2.heard[1] = h.heard[1] /\ h2.tick[1] = h.tick[1]
      /\ \A x \in 0 .. e0 :
           h2.start[x] = h.start[x] /\ h2.last[0][x] = h.last[0][x]
      /\ Images(s, g, s2, g2, r, e0, h2.start[e])
      /\ Kept(s, g, s2, g2, Len(s))
  BY DEF Pushes, Images
<1>5. /\ Delay \in Nat /\ h2.start[e] \in Int /\ First(h2, e) \in Int
  BY <1>3, Typed, Numbers
<1>6. e1 \in 0 .. e0
  BY <1>3
<1>7. Clock(k[1], h2, 1)
  BY <1>2, <1>3, <1>4, <1>6 DEF Clock
<1>8. GuestSpan(k[1], h2)
  <2>1. ASSUME NEW x \in e1 + 1 .. e
        PROVE  h2.last[0][x] <= h2.start[x] + 2 * Delay
    <3>1. CASE x = e
      BY <3>1, <1>3, <1>4, <1>5 DEF Roomy
    <3>2. CASE x # e
      <4>1. x \in e1 + 1 .. e0 /\ x \in 0 .. e0
        BY <3>2, <1>3
      <4>. QED
        BY <4>1, <1>2, <1>4 DEF GuestSpan
    <3>. QED
      BY <3>1, <3>2
  <2>2. k[1].hold => e1 < e /\ k[1].resume = Wrap(h2.start[e1 + 1])
    <3>. SUFFICES ASSUME k[1].hold
                  PROVE  e1 < e /\ k[1].resume = Wrap(h2.start[e1 + 1])
      OBVIOUS
    <3>1. e1 < e0 /\ k[1].resume = Wrap(h.start[e1 + 1])
      BY <1>2 DEF GuestSpan
    <3>2. e1 + 1 \in 0 .. e0
      BY <3>1, <1>3
    <3>. QED
      BY <3>1, <3>2, <1>3, <1>4
  <2>. QED
    BY <1>2, <1>3, <1>4, <1>6, <2>1, <2>2 DEF GuestSpan
<1>9. /\ Labelled(s2, g2, e1, e, h2.start)
      /\ r => Reached(s2, g2, e1, e)
  <2>1. Labelled(s, g, e1, e0, h.start) /\ \A x \in 0 .. e0 : h2.start[x] = h.start[x]
    BY <1>2, <1>4 DEF GuestLine
  <2>. HIDE DEF s, g, s2, g2, e0, e1
  <2>. QED
    BY <1>2, <1>3, <1>4, <2>1, ImagesLabelled
<1>10. GuestLine(s2, g2, h2)
  <2>1. Wired(s2, g2) /\ Sorted(s2, g2, e1)
    BY <1>2, <1>4, KeptLine DEF GuestLine
  <2>2. ASSUME NEW x \in e1 .. e
        PROVE  Dated(s2, g2, x, Known(h2, 1, x), h2.last[0][x])
    <3>1. CASE x = e
      <4>1. \A i \in 1 .. Len(s) : s[i].type \in {"INPUT", "CRC"} =>
              g[i].of \in e1 .. e0
        BY <1>2 DEF GuestLine, Labelled
      <4>2. \A i \in 1 .. Len(s2) : s2[i].type \in {"INPUT", "CRC"} =>
              g2[i].of \in e1 .. e0
        BY <4>1, <1>4 DEF Kept
      <4>3. \A i \in 1 .. Len(s2) : s2[i].type \in {"INPUT", "CRC"} => g2[i].of # e
        BY <4>2, <1>3
      <4>. QED
        BY <3>1, <4>3 DEF Dated
    <3>2. CASE x # e
      <4>1. x \in e1 .. e0 /\ x \in 0 .. e0
        BY <3>2, <1>3
      <4>2. Dated(s, g, x, Known(h, 1, x), h.last[0][x])
        BY <4>1, <1>2 DEF GuestLine
      <4>3. Dated(s2, g2, x, Known(h, 1, x), h.last[0][x])
        BY <4>2, <1>4, KeptLine
      <4>. QED
        BY <4>1, <4>3, <1>3, <1>4
    <3>. QED
      BY <3>1, <3>2
  <2>. QED
    BY <1>4, <1>9, <2>1, <2>2 DEF GuestLine
<1>. QED
  BY <1>4, <1>7, <1>8, <1>9, <1>10

(* and for the host that goes on.                                          *)
LEMMA PushesHost ==
  ASSUME NEW k, NEW ch, NEW r \in BOOLEAN, NEW h \in History, NEW k2, NEW ch2,
         NEW h2 \in History, Roomy, ~k2[0].dropped,
         Fits(k, ch, r, h), Pushes(k, ch, r, h, k2, ch2, h2)
  PROVE  /\ Clock(k2[0], h2, 0) /\ Records(k2[0], h2)
         /\ HostSpan(k2, h2) /\ HostLine(k2, ch2[0], h2.tag[0], h2)
<1>. DEFINE s == ch[0]
            g == h.tag[0]
            e0 == h.epoch[0]
            e1 == h.epoch[1]
            e == e0 + 1
            H == First(h2, e)
<1>1. 0 \in Seat /\ 1 \in Seat
  BY Seats
<1>2. /\ Clock(k[0], h, 0) /\ HostSpan(k, h) /\ HostLine(k, s, g, h)
      /\ Ages(h)
  BY <1>1 DEF Fits, Pushes
<1>3. /\ e0 \in Nat /\ e1 \in Nat /\ e \in Nat /\ e1 <= e0 /\ e <= e1 + 2
      /\ Mark(h2, 1) = Mark(h, 1) /\ Mark(h2, 0) = H
      /\ H = Mark(h, 0) + ResumeAhead
      /\ h2.start[e] = H + 1 - Delay
  BY PushesTimes
<1>4. /\ h2.epoch[0] = e /\ h2.epoch[1] = e1
      /\ h2.heard[0] = H /\ h2.tick[0] = h2.start[e]
      /\ h2.last[1] = h.last[1]
      /\ \A x \in 0 .. e0 : h2.start[x] = h.start[x]
      /\ ch2[0] = s /\ h2.tag[0] = g
      /\ k[0].pend /\ k2[1] = k[1]
  BY DEF Pushes
<1>5. /\ Mark(h, 0) = h.tick[0] + Delay - 1
      /\ k2[0].tick = Wrap(h2.start[e]) /\ k2[0].wm = Wrap(H)
      /\ k2[0].epoch = e /\ ~k2[0].pend /\ k2[0].ring = IdleRings
      /\ k2[0].crc = NoCrc
  BY DEF Pushes
<1>6. /\ Delay \in Nat /\ ResumeAhead \in Nat
      /\ h2.start[e] \in Int /\ H \in Int
      /\ Mark(h, 0) \in Int /\ Mark(h, 1) \in Int
      /\ h.heard[0] \in Int /\ h.tick[0] \in Int
      /\ g \in Tags /\ h.start[e0] \in Int
  BY <1>1, <1>3, Typed, Numbers
<1>. HIDE DEF H
<1>7. Clock(k2[0], h2, 0)
  <2>1. /\ h2.start[e] <= H + 1 /\ H = h2.start[e] + Delay - 1
    BY <1>3, <1>6
  <2>. QED
    BY <2>1, <1>3, <1>4, <1>5, <1>6 DEF Clock, H
<1>8. Records(k2[0], h2)
  BY <1>5 DEF Records, NoCrc
<1>9. h.heard[0] <= H /\ H <= h.heard[0] + Reach
  <2>1. h.tick[0] <= h.heard[0] + 1
    BY <1>2 DEF Clock
  <2>2. h.heard[0] <= Mark(h, 0) + Delay + 1
    <3>1. CASE e0 = e1
      BY <3>1, <1>2, <1>6 DEF HostSpan
    <3>2. CASE e0 # e1
      BY <3>2, <1>2, <1>3, <1>6, Typed DEF HostSpan, Behindhand, Ages
    <3>. QED
      BY <3>1, <3>2
  <2>. QED
    BY <2>1, <2>2, <1>3, <1>5, <1>6 DEF Reach, Roomy
<1>10. \A a \in Int :
         /\ h.heard[0] <= a /\ a <= Mark(h, 1) /\ e0 = e1 =>
              Behindhand(h2, a, e0)
         /\ \A x \in Nat : Behindhand(h, a, x) /\ x = e0 - 1 =>
              Behindhand(h2, a, x)
  <2>1. /\ h2.heard[0] = First(h2, h2.epoch[0])
        /\ h2.epoch[0] - e0 = 1
    BY <1>3, <1>4 DEF H
  <2>2. Lag(1) = Reach /\ Lag(2) = 2 * Reach /\ Reach \in Int
    BY <1>6 DEF Lag, Reach
  <2>3. ASSUME NEW a \in Int, h.heard[0] <= a, a <= Mark(h, 1), e0 = e1
        PROVE  Behindhand(h2, a, e0)
    <3>1. Mark(h, 1) <= H
      BY <2>3, <1>2, <1>3, <1>6 DEF HostSpan, Roomy
    <3>2. H - Lag(h2.epoch[0] - e0) <= a /\ a <= H
      BY <2>1, <2>2, <2>3, <3>1, <1>6, <1>9
    <3>. QED
      BY <2>1, <3>2, <1>4 DEF Behindhand
  <2>4. ASSUME NEW a \in Int, NEW x \in Nat, Behindhand(h, a, x), x = e0 - 1
        PROVE  Behindhand(h2, a, x)
    <3>1. h.heard[0] - Reach <= a /\ a <= h.heard[0]
      <4>1. e0 - x = 1
        BY <2>4, <1>3
      <4>. QED
        BY <4>1, <2>2, <2>4 DEF Behindhand
    <3>2. h2.epoch[0] - x = 2
      BY <2>4, <1>3, <1>4
    <3>3. H - Lag(h2.epoch[0] - x) <= a /\ a <= H
      BY <2>2, <3>1, <3>2, <1>6, <1>9
    <3>. QED
      BY <2>1, <3>3, <1>4 DEF Behindhand
  <2>. QED
    BY <2>3, <2>4
<1>11. HostSpan(k2, h2)
  <2>1. /\ e <= e1 + 2
        /\ ~k[1].dropped /\ ~k[1].pend => e <= e1 + 1
    BY <1>2, <1>3, <1>4 DEF HostSpan, Bit
  <2>2. Behindhand(h2, Mark(h, 1), e1)
    <3>1. CASE e0 = e1
      BY <3>1, <1>2, <1>6, <1>10 DEF HostSpan
    <3>2. CASE e0 # e1
      <4>1. Behindhand(h, Mark(h, 1), e1) /\ e1 = e0 - 1
        BY <3>2, <1>2, <1>3 DEF HostSpan
      <4>. QED
        BY <4>1, <1>3, <1>6, <1>10
    <3>. QED
      BY <3>1, <3>2
  <2>3. ASSUME NEW x \in e1 + 1 .. e0
        PROVE  h2.start[x + 1] <= h2.start[x] + Reach
    <3>1. x = e0 /\ e1 < e0
      BY <1>3
    <3>2. h.heard[0] = First(h, e0)
      BY <3>1, <1>2 DEF HostSpan, Behindhand
    <3>3. h.heard[0] = h.start[e0] + Delay - 1
      BY <3>2 DEF First
    <3>4. h2.start[x + 1] = h2.start[e] /\ h2.start[x] = h.start[e0]
      BY <3>1, <1>3, <1>4
    <3>5. Reach \in Int
      BY <1>6 DEF Reach
    <3>. QED
      BY <3>3, <3>4, <3>5, <1>3, <1>6, <1>9
  <2>4. /\ Bit(k2[0].pend) = 0 /\ ~(e = e1) /\ e - 1 = e0
    BY <1>3, <1>5 DEF Bit
  <2>5. /\ e + Bit(k2[0].pend) <= e1 + 2
        /\ ~k[1].dropped /\ ~k[1].pend => e + Bit(k2[0].pend) <= e1 + 1
    BY <2>1, <2>4, <1>3
  <2>. QED
    BY <1>3, <1>4, <2>2, <2>3, <2>4, <2>5 DEF HostSpan
<1>12. /\ Alarms(k, s, g, h) /\ Ranked(s, g) /\ Wired(s, g)
       /\ Dated(s, g, e0, h.heard[0], h.last[1][e0])
  BY <1>2 DEF HostLine
<1>13. ASSUME NEW i \in 1 .. Len(s), s[i].type # "LEFT"
       PROVE  g[i].of <= e1 /\ g[i].of # e /\ i \in Nat
  <2>1. g[i].of <= e1
    BY <1>12, <1>13 DEF Alarms
  <2>. QED
    BY <2>1, <1>3
<1>14. Alarms(k2, s, g, h2)
  <2>. SUFFICES ASSUME NEW i \in 1 .. Len(s), s[i].type # "LEFT"
                PROVE  /\ s[i].type \in {"INPUT", "CRC", "REQ"}
                       /\ g[i].of <= e1 /\ e + 0 <= g[i].of + 2
                       /\ s[i].type = "REQ" =>
                            /\ e + 0 <= g[i].of + 1
                            /\ g[i].of = e1 /\ ~k[1].dropped => k[1].pend
                       /\ s[i].type = "CRC" =>
                            /\ s[i].tick = Wrap(g[i].at - Delay)
                            /\ CrcDue(s[i].tick)
                       /\ g[i].of < e /\ s[i].type # "REQ" =>
                            Behindhand(h2, g[i].at, g[i].of)
    BY <1>4, <1>5 DEF Alarms, Bit
  <2>. DEFINE a == g[i].at
              x == g[i].of
  <2>1. /\ s[i].type \in {"INPUT", "CRC", "REQ"}
        /\ x <= e1 /\ e0 + 1 <= x + 2
        /\ s[i].type = "REQ" =>
             /\ e0 + 1 <= x + 1
             /\ x = e1 /\ ~k[1].dropped => k[1].pend
        /\ s[i].type = "CRC" =>
             s[i].tick = Wrap(a - Delay) /\ CrcDue(s[i].tick)
        /\ x < e0 /\ s[i].type # "REQ" => Behindhand(h, a, x)
    BY <1>4, <1>12 DEF Alarms, Bit
  <2>2. a \in Int /\ x \in Nat
    <3>1. i \in Nat /\ g \in [Nat -> [of : Nat, at : Int]]
      BY <1>6, <1>13 DEF Tags
    <3>. QED
      BY <3>1
  <2>3. ASSUME s[i].type # "REQ"
        PROVE  Behindhand(h2, a, x)
    <3>1. CASE x = e0
      <4>1. e0 = e1
        BY <3>1, <2>1, <1>3
      <4>2. h.heard[0] <= a /\ a <= h.last[1][e0]
        BY SMTT(30), <3>1, <2>1, <2>2, <2>3, <1>6, <1>12 DEF Dated
      <4>3. h.last[1][e0] = Mark(h, 1)
        BY <4>1 DEF Mark
      <4>. QED
        BY <3>1, <4>1, <4>2, <4>3, <2>2, <1>10
    <3>2. CASE x # e0
      <4>1. x < e0 /\ x = e0 - 1 /\ x \in Nat
        <5>1. x <= e1 /\ e0 + 1 <= x + 2 /\ e1 <= e0 /\ x # e0
          BY <3>2, <2>1, <1>3
        <5>2. x \in Nat /\ e0 \in Nat /\ e1 \in Nat
          BY <2>2, <1>3
        <5>. HIDE DEF x, e0, e1
        <5>. QED
          BY <5>1, <5>2
      <4>2. Behindhand(h, a, x)
        BY <4>1, <2>1, <2>3
      <4>. QED
        BY <4>1, <4>2, <2>2, <1>10
    <3>. QED
      BY <3>1, <3>2
  <2>. HIDE DEF a, x
  <2>4. e + 0 <= x + 2 /\ (s[i].type = "REQ" => e + 0 <= x + 1)
    BY <2>1, <2>2, <1>3
  <2>. QED
    BY <2>1, <2>3, <2>4 DEF a, x
<1>15. Sorted(s, g, e) /\ Dated(s, g, e, H, h.last[1][e])
  <2>1. \A i \in 1 .. Len(s) : s[i].type \in {"INPUT", "CRC"} =>
          g[i].of # e /\ ~(g[i].of >= e)
    <3>. SUFFICES ASSUME NEW i \in 1 .. Len(s), s[i].type \in {"INPUT", "CRC"}
                  PROVE  g[i].of # e /\ ~(g[i].of >= e)
      OBVIOUS
    <3>1. g[i].of <= e1 /\ i \in Nat
      BY <1>13
    <3>2. g[i].of \in Int
      BY <3>1, <1>6, TagsType
    <3>. QED
      BY <3>1, <3>2, <1>3
  <2>. QED
    BY <2>1 DEF Sorted, Dated
<1>16. HostLine(k2, s, g, h2)
  BY <1>4, <1>12, <1>14, <1>15 DEF HostLine
<1>. QED
  BY <1>4, <1>7, <1>8, <1>11, <1>16

(* Between the two nothing of the new epoch has been said.                 *)
LEMMA PushesAgree ==
  ASSUME NEW k, NEW ch, NEW r \in BOOLEAN, NEW h \in History, NEW k2, NEW ch2,
         NEW h2 \in History, Roomy, ~k2[0].dropped, ~k2[1].dropped,
         Fits(k, ch, r, h), Pushes(k, ch, r, h, k2, ch2, h2)
  PROVE  /\ \A c \in Seat : Agree(k2, ch2[c], h2.tag[c], r, h2, c)
         /\ Fresh(k2, h2)
<1>. DEFINE e0 == h.epoch[0]
            e1 == h.epoch[1]
            e == e0 + 1
<1>1. 0 \in Seat /\ 1 \in Seat /\ Peer(0) = 1 /\ Peer(1) = 0
  BY Seats
<1>2. /\ e0 \in Nat /\ e1 \in Nat /\ e \in Nat /\ e1 <= e0
      /\ Mark(h2, 0) = First(h2, e)
  BY PushesTimes
<1>3. /\ h2.epoch[0] = e /\ h2.epoch[1] = e1
      /\ ch2[0] = ch[0] /\ h2.tag[0] = h.tag[0]
      /\ Kept(ch[1], h.tag[1], ch2[1], h2.tag[1], Len(ch[1]))
      /\ k2[0].ring = IdleRings /\ ~k[0].dropped /\ ~k[1].dropped
  BY DEF Pushes, Images
<1>4. /\ GuestLine(ch[1], h.tag[1], h) /\ HostLine(k, ch[0], h.tag[0], h)
  BY <1>3 DEF Fits
<1>5. \A i \in 1 .. Len(ch2[0]) : ch2[0][i].type = "INPUT" => h2.tag[0][i].of # e
  <2>. SUFFICES ASSUME NEW i \in 1 .. Len(ch[0]), ch[0][i].type = "INPUT"
                PROVE  h.tag[0][i].of # e
    BY <1>3
  <2>1. h.tag[0][i].of <= e1
    BY <1>4 DEF HostLine, Alarms
  <2>. QED
    BY <2>1, <1>2
<1>6. \A i \in 1 .. Len(ch2[1]) : ch2[1][i].type = "INPUT" => h2.tag[1][i].of # e
  <2>. SUFFICES ASSUME NEW i \in 1 .. Len(ch2[1]), ch2[1][i].type = "INPUT"
                PROVE  h2.tag[1][i].of # e
    OBVIOUS
  <2>1. /\ i \in 1 .. Len(ch[1]) /\ ch[1][i].type = "INPUT"
        /\ h2.tag[1][i] = h.tag[1][i]
    BY <1>3 DEF Kept
  <2>2. h.tag[1][i].of \in e1 .. e0
    BY <2>1, <1>4 DEF GuestLine, Labelled
  <2>. QED
    BY <2>1, <2>2, <1>2
<1>7. ASSUME NEW c \in Seat
      PROVE  Agree(k2, ch2[c], h2.tag[c], r, h2, c)
  <2>1. \A i \in 1 .. Len(ch2[c]) : ch2[c][i].type = "INPUT" => h2.tag[c][i].of # e
    BY <1>5, <1>6, Seats
  <2>2. \A p : Told(ch2[c], h2.tag[c], e, k2[p].ring[p])
    BY <2>1 DEF Told
  <2>3. \A lo, skip : Gapless(ch2[c], h2.tag[c], e, lo, skip)
    BY <2>1 DEF Gapless
  <2>4. h2.epoch[1] # e
    BY <1>2, <1>3
  <2>5. \A n, skip : h2.epoch[Peer(c)] = e =>
          Covered(ch2[c], h2.tag[c], e, Known(h2, c, e), Mark(h2, Peer(c)), n, skip)
    <3>. SUFFICES ASSUME h2.epoch[Peer(c)] = e, NEW n, NEW skip
                  PROVE  Covered(ch2[c], h2.tag[c], e, Known(h2, c, e),
                                 Mark(h2, Peer(c)), n, skip)
      OBVIOUS
    <3>1. c = 1 /\ Peer(c) = 0
      BY <2>4, <1>1, Seats
    <3>2. Known(h2, c, e) = First(h2, e) /\ First(h2, e) \in Int
      BY <3>1, <2>4, <1>2, Typed DEF Known
    <3>3. \A t \in First(h2, e) + 1 .. First(h2, e) : FALSE
      BY <3>2
    <3>. QED
      BY <3>1, <3>2, <3>3, <1>2 DEF Covered
  <2>. QED
    BY <1>3, <2>2, <2>3, <2>4, <2>5 DEF Agree
<1>8. Fresh(k2, h2)
  <2>1. \A t \in Int : IdleRings[0][Cell(t)] = Idle
    BY <1>1, CellType DEF IdleRings
  <2>2. First(h2, e) \in Int /\ PageSize \in Nat
    BY <1>2, Typed, Numbers
  <2>. QED
    BY <1>2, <1>3, <2>1, <2>2 DEF Fresh
<1>. QED
  BY <1>7, <1>8

(* A push leaves a state its history fits.                                 *)
LEMMA PushesFits ==
  ASSUME NEW k, NEW ch, NEW r \in BOOLEAN, NEW h \in History, NEW k2, NEW ch2,
         NEW h2 \in History, Roomy,
         Fits(k, ch, r, h), Pushes(k, ch, r, h, k2, ch2, h2)
  PROVE  Fits(k2, ch2, r, h2)
<1>1. Ages(h2)
  BY PushesTimes
<1>2. k2[1] = k[1]
  BY DEF Pushes
<1>3. ~k2[1].dropped =>
        /\ Clock(k2[1], h2, 1)
        /\ GuestSpan(k2[1], h2) /\ GuestLine(ch2[1], h2.tag[1], h2)
        /\ r => Reached(ch2[1], h2.tag[1], h2.epoch[1], h2.epoch[0])
  BY <1>2, PushesGuest
<1>4. ~k2[0].dropped =>
        /\ Clock(k2[0], h2, 0) /\ Records(k2[0], h2)
        /\ HostSpan(k2, h2) /\ HostLine(k2, ch2[0], h2.tag[0], h2)
  BY PushesHost
<1>5. ~k2[0].dropped /\ ~k2[1].dropped =>
        /\ \A c \in Seat : Agree(k2, ch2[c], h2.tag[c], r, h2, c)
        /\ Fresh(k2, h2)
  BY PushesAgree
<1>6. \A c \in Seat : ~k2[c].dropped => Clock(k2[c], h2, c)
  BY <1>3, <1>4, Seats
<1>. QED
  BY <1>1, <1>3, <1>4, <1>5, <1>6 DEF Fits

-----------------------------------------------------------------------------
(* Console c takes a frame off its line, not an END or LEFT: an INPUT past *)
(* its watermark goes into the ring.                                       *)
Taking(m, f) == f.type = "INPUT" /\ Delta(f.tick, m.wm) > 0

Reads(k, ch, h, k2, ch2, h2, c) ==
  LET m == k[c]
      n == k2[c]
      p == Peer(c)
      f == ch[c][1]
  IN  /\ ~m.dropped /\ k2[p] = k[p]
      /\ f.type \notin {"END", "LEFT"}
      /\ Taken(ch[c], h.tag[c], ch2[c], h2.tag[c])
      /\ ch2[p] = ch[p] /\ h2.tag[p] = h.tag[p]
      /\ h2.tick = h.tick /\ h2.epoch = h.epoch /\ h2.last = h.last
      /\ h2.start = h.start /\ h2.heard[p] = h.heard[p]
      /\ n.dropped = m.dropped /\ n.tick = m.tick /\ n.epoch = m.epoch
      /\ n.hold = m.hold /\ n.resume = m.resume /\ n.crc = m.crc
      /\ n.pend = m.pend
      /\ IF Taking(m, f)
         THEN /\ h2.heard[c] = h.tag[c][1].at /\ n.wm = f.tick
              /\ n.ring = [m.ring EXCEPT ![p][Slot(f.tick)] = f.in]
         ELSE h2.heard[c] = h.heard[c] /\ n.wm = m.wm /\ n.ring = m.ring

(* The epochs on the line are in order without a first frame that is no    *)
(* END.                                                                    *)
LEMMA TakenLabelled ==
  ASSUME NEW s, NEW g, NEW s2, NEW g2, NEW lo, NEW hi, NEW start,
         Taken(s, g, s2, g2), Labelled(s, g, lo, hi, start),
         s[1].type \notin {"END", "LEFT"}
  PROVE  /\ Labelled(s2, g2, lo, hi, start) /\ g[1].of = lo
         /\ Reached(s, g, lo, hi) => Reached(s2, g2, lo, hi)
<1>1. /\ Len(s) \in Nat \ {0} /\ Len(s2) = Len(s) - 1
      /\ \A i \in 1 .. Len(s2) : s2[i] = s[i + 1] /\ g2[i] = g[i + 1]
  BY DEF Taken
<1>2. g[1].of = lo /\ Passed(s, g, 1) = lo
  BY <1>1 DEF Labelled, Passed
<1>3. \A i \in 1 .. Len(s2) : Passed(s2, g2, i) = Passed(s, g, i + 1)
  BY <1>1 DEF Passed
<1>4. ASSUME NEW i \in 1 .. Len(s2), s2[i].type # "LEFT"
      PROVE  /\ g2[i].of \in lo .. hi
             /\ s2[i].type \in {"BEGIN", "END"} => g2[i].of < hi
             /\ s2[i].type = "BEGIN" => s2[i].tick = Wrap(start[g2[i].of + 1])
             /\ g2[i].of = IF i = 1 THEN lo ELSE Passed(s2, g2, i - 1)
  <2>1. /\ i + 1 \in 1 .. Len(s) /\ s2[i] = s[i + 1] /\ g2[i] = g[i + 1]
        /\ (i + 1) - 1 = i /\ i + 1 # 1
    BY <1>1
  <2>2. /\ g[i + 1].of \in lo .. hi
        /\ s[i + 1].type \in {"BEGIN", "END"} => g[i + 1].of < hi
        /\ s[i + 1].type = "BEGIN" =>
             s[i + 1].tick = Wrap(start[g[i + 1].of + 1])
        /\ g[i + 1].of = Passed(s, g, i)
    BY <1>4, <2>1 DEF Labelled
  <2>3. i # 1 => i - 1 \in 1 .. Len(s2) /\ (i - 1) + 1 = i
    BY <1>1
  <2>4. i # 1 => Passed(s2, g2, i - 1) = Passed(s, g, i)
    BY <1>3, <2>3
  <2>. QED
    BY <1>2, <2>1, <2>2, <2>4
<1>5. ASSUME Reached(s, g, lo, hi)
      PROVE  Reached(s2, g2, lo, hi)
  <2>1. hi = Passed(s, g, Len(s))
    BY <1>1, <1>5 DEF Reached
  <2>2. CASE Len(s) = 1
    BY <1>1, <1>2, <2>1, <2>2 DEF Reached
  <2>3. CASE Len(s) # 1
    <3>1. Len(s2) \in 1 .. Len(s2) /\ Len(s2) + 1 = Len(s) /\ Len(s2) # 0
      BY <1>1, <2>3
    <3>. QED
      BY <1>3, <2>1, <3>1 DEF Reached
  <2>. QED
    BY <2>2, <2>3
<1>6. ASSUME NEW i \in 1 .. Len(s2), NEW j \in 1 .. Len(s2), i < j,
             s2[i].type # "LEFT", s2[j].type # "LEFT"
      PROVE  Passed(s2, g2, i) <= g2[j].of
  <2>1. /\ i + 1 \in 1 .. Len(s) /\ j + 1 \in 1 .. Len(s) /\ i + 1 < j + 1
        /\ s[i + 1].type # "LEFT" /\ s[j + 1].type # "LEFT"
        /\ g2[j] = g[j + 1]
    BY <1>1, <1>6
  <2>2. Passed(s, g, i + 1) <= g[j + 1].of
    BY <2>1 DEF Labelled
  <2>. QED
    BY <1>3, <2>1, <2>2
<1>. QED
  BY <1>2, <1>4, <1>5, <1>6 DEF Labelled

(* What it takes is new, and of the epoch it is in; what it does not take  *)
(* is of an older one.                                                     *)
LEMMA ReadsInput ==
  ASSUME NEW k, NEW ch, NEW r, NEW h \in History, NEW c \in Seat, Roomy,
         Fits(k, ch, r, h), ~k[c].dropped,
         Len(ch[c]) \in Nat \ {0}, ch[c][1].type = "INPUT"
  PROVE  LET f == ch[c][1]
             a == h.tag[c][1].at
             x == h.tag[c][1].of
         IN  /\ a \in Int /\ f.tick = Wrap(a) /\ Slot(f.tick) = Cell(a)
             /\ Taking(k[c], f) => x = h.epoch[c]
             /\ x = h.epoch[c] => Taking(k[c], f)
             /\ x = h.epoch[c] => /\ h.heard[c] < a
                                  /\ a <= h.last[Peer(c)][x]
             /\ x # h.epoch[c] => c = 0 /\ x < h.epoch[0]
<1>. DEFINE f == ch[c][1]
            a == h.tag[c][1].at
            x == h.tag[c][1].of
            H == h.heard[c]
<1>1. c \in {0, 1} /\ 0 \in Seat /\ 1 \in Seat /\ Peer(0) = 1 /\ Peer(1) = 0
  BY Seats
<1>2. 1 \in 1 .. Len(ch[c]) /\ 1 \in Nat
  OBVIOUS
<1>3. /\ a \in Int /\ x \in Nat /\ H \in Int /\ h.tick[c] \in Int
      /\ Mark(h, 0) \in Int /\ Mark(h, 1) \in Int
      /\ h.epoch[0] \in Nat /\ h.epoch[1] \in Nat
      /\ Delay \in Nat /\ ResumeAhead \in Nat /\ TickSpan \in Nat
      /\ \A y \in Nat : h.last[0][y] \in Int /\ h.last[1][y] \in Int
  BY <1>1, <1>2, Typed, TagsType, Numbers
<1>4. Clock(k[c], h, c) /\ Ages(h)
  BY DEF Fits
<1>5. /\ k[c].wm = Wrap(H) /\ h.tick[c] <= H + 1
      /\ Mark(h, c) <= h.tick[c] + Delay
  BY <1>3, <1>4 DEF Clock
<1>6. Wired(ch[c], h.tag[c])
  BY <1>1 DEF Fits, GuestLine, HostLine
<1>7. f.tick = Wrap(a) /\ Slot(f.tick) = Cell(a)
  BY <1>2, <1>3, <1>6, SlotTick DEF Wired
<1>8. /\ x = h.epoch[c] => H < a /\ a <= H + 2 * Delay + 2
                           /\ a <= h.last[Peer(c)][x]
      /\ x # h.epoch[c] => /\ c = 0 /\ x < h.epoch[0]
                           /\ H - 2 * Reach <= a /\ a <= H
  <2>1. CASE c = 1
    <3>1. GuestLine(ch[1], h.tag[1], h) /\ GuestSpan(k[1], h)
      BY <2>1 DEF Fits
    <3>2. x = h.epoch[1]
      BY <2>1, <3>1, <1>2 DEF GuestLine, Labelled
    <3>3. h.epoch[1] \in h.epoch[1] .. h.epoch[0]
      BY <1>3, <1>4 DEF Ages
    <3>4. Dated(ch[1], h.tag[1], x, h.heard[1], h.last[0][x])
      BY <3>1, <3>2, <3>3 DEF GuestLine, Known
    <3>5. h.heard[1] < a /\ a <= h.last[0][x]
      BY <2>1, <3>4, <1>2 DEF Dated
    <3>6. h.last[0][x] <= Mark(h, 1) + Delay + 1
      BY <3>1, <3>2 DEF GuestSpan
    <3>7. h.last[0][x] \in Int /\ a <= Mark(h, 1) + Delay + 1
      <4>. DEFINE L == h.last[0][x]
      <4>1. L \in Int
        BY <1>3
      <4>2. a <= L /\ L <= Mark(h, 1) + Delay + 1
        BY <3>5, <3>6
      <4>. HIDE DEF a, x, L
      <4>3. a <= Mark(h, 1) + Delay + 1
        BY <4>1, <4>2, <1>3
      <4>. QED
        BY <4>1, <4>3 DEF L
    <3>8. Mark(h, 1) <= h.tick[1] + Delay /\ h.tick[1] <= H + 1
      BY <2>1, <1>5
    <3>9. a <= H + 2 * Delay + 2
      <4>1. h.tick[1] \in Int
        BY <2>1, <1>3
      <4>. HIDE DEF a, H, x
      <4>. QED
        BY <3>7, <3>8, <4>1, <1>3
    <3>. QED
      BY <2>1, <3>2, <3>5, <3>9, <1>1
  <2>2. CASE c = 0
    <3>1. HostLine(k, ch[0], h.tag[0], h) /\ HostSpan(k, h)
      BY <2>2 DEF Fits
    <3>2. x <= h.epoch[1] /\ (x < h.epoch[0] => Behindhand(h, a, x))
      BY <2>2, <3>1, <1>2 DEF HostLine, Alarms
    <3>3. CASE x = h.epoch[0]
      <4>1. x = h.epoch[1]
        BY <3>2, <3>3, <1>3, <1>4 DEF Ages
      <4>2. h.heard[0] < a /\ a <= h.last[1][x]
        BY <2>2, <3>1, <3>3, <1>2 DEF HostLine, Dated
      <4>3. h.last[1][x] <= Mark(h, 0) + Delay + 1
        BY <3>1, <3>3, <4>1 DEF HostSpan, Mark
      <4>4. h.last[1][x] \in Int /\ a <= Mark(h, 0) + Delay + 1
        <5>. DEFINE L == h.last[1][x]
        <5>1. L \in Int
          BY <1>3
        <5>2. a <= L /\ L <= Mark(h, 0) + Delay + 1
          BY <4>2, <4>3
        <5>. HIDE DEF a, x, L
        <5>3. a <= Mark(h, 0) + Delay + 1
          BY <5>1, <5>2, <1>3
        <5>. QED
          BY <5>1, <5>3 DEF L
      <4>5. /\ Mark(h, 0) <= h.tick[0] + Delay /\ h.tick[0] <= H + 1
            /\ h.tick[0] \in Int
        BY <2>2, <1>3, <1>5
      <4>6. a <= H + 2 * Delay + 2
        <5>. HIDE DEF a, H, x
        <5>. QED
          BY SMTT(30), <4>4, <4>5, <1>3
      <4>. QED
        BY <2>2, <3>3, <4>2, <4>6, <1>1
    <3>4. CASE x # h.epoch[0]
      <4>1. x < h.epoch[0]
        BY <3>2, <3>4, <1>3, <1>4 DEF Ages
      <4>2. Reach \in Nat /\ Lag(h.epoch[0] - x) \in {Reach, 2 * Reach}
        BY <1>3 DEF Lag, Reach
      <4>3. H - Lag(h.epoch[0] - x) <= a /\ a <= H
        BY <2>2, <3>2, <4>1 DEF Behindhand
      <4>. QED
        BY <2>2, <3>4, <4>1, <4>2, <4>3, <1>3
    <3>. QED
      BY <3>3, <3>4
  <2>. QED
    BY <2>1, <2>2, <1>1
<1>9. Delta(f.tick, k[c].wm) = a - H
  <2>1. -TickSpan <= 2 * (a - H) /\ 2 * (a - H) < TickSpan
    <3>. HIDE DEF a, x, H
    <3>. QED
      BY <1>3, <1>8 DEF Roomy, Reach
  <2>. QED
    BY <1>3, <1>5, <1>7, <2>1, DeltaTick
<1>10. /\ Taking(k[c], f) => x = h.epoch[c]
       /\ x = h.epoch[c] => Taking(k[c], f)
  <2>. HIDE DEF a, x, H
  <2>. QED
    BY <1>3, <1>8, <1>9 DEF Taking
<1>. QED
  BY <1>3, <1>7, <1>8, <1>10

(* So c either puts the INPUT into its ring or leaves all as it was.       *)
Accepts(k, ch, h, k2, h2, c) ==
  LET p == Peer(c)
      a == h.tag[c][1].at
  IN  /\ ch[c][1].type = "INPUT" /\ h.tag[c][1].of = h.epoch[c]
      /\ h.heard[c] < a /\ a <= h.last[p][h.epoch[c]] /\ h2.heard[c] = a
      /\ k2[c].ring = [k[c].ring EXCEPT ![p][Cell(a)] = ch[c][1].in]

Rests(k, ch, h, k2, h2, c) ==
  /\ ch[c][1].type = "INPUT" => c = 0 /\ h.tag[c][1].of < h.epoch[0]
  /\ h2.heard = h.heard /\ k2[c].ring = k[c].ring

(* Which of the two it is, and that the watermark only moves up.           *)
LEMMA ReadsMove ==
  ASSUME NEW k, NEW ch, NEW r, NEW h \in History, NEW c \in Seat, Roomy,
         NEW k2, NEW ch2, NEW h2 \in History,
         Fits(k, ch, r, h), Reads(k, ch, h, k2, ch2, h2, c)
  PROVE  /\ Accepts(k, ch, h, k2, h2, c) \/ Rests(k, ch, h, k2, h2, c)
         /\ k2[c].wm = Wrap(h2.heard[c]) /\ h.heard[c] <= h2.heard[c]
         /\ h.tag[c][1].at \in Int
         /\ Accepts(k, ch, h, k2, h2, c) /\ c = 0 => h.epoch[0] = h.epoch[1]
<1>. DEFINE f == ch[c][1]
            a == h.tag[c][1].at
            x == h.tag[c][1].of
<1>1. c \in {0, 1} /\ Peer(c) \in Seat /\ 1 \in Nat /\ c \in {0, 1} /\ 0 \in Seat
      /\ 1 \in Seat
  BY Seats
<1>2. /\ h.heard[c] \in Int /\ h2.heard[c] \in Int /\ a \in Int /\ x \in Nat
      /\ h.epoch[0] \in Nat /\ h.epoch[1] \in Nat
  BY <1>1, Typed, TagsType
<1>3. ~k[c].dropped /\ Len(ch[c]) \in Nat \ {0} /\ 1 \in 1 .. Len(ch[c])
  BY DEF Reads, Taken
<1>4. k[c].wm = Wrap(h.heard[c])
  BY <1>3 DEF Fits, Clock
<1>5. f.type = "INPUT" =>
        /\ f.tick = Wrap(a) /\ Slot(f.tick) = Cell(a)
        /\ Taking(k[c], f) => x = h.epoch[c]
        /\ x = h.epoch[c] => Taking(k[c], f)
        /\ x = h.epoch[c] => h.heard[c] < a /\ a <= h.last[Peer(c)][x]
        /\ x # h.epoch[c] => c = 0 /\ x < h.epoch[0]
  BY <1>3, ReadsInput
<1>6. CASE Taking(k[c], f)
  <2>1. f.type = "INPUT"
    BY <1>6 DEF Taking
  <2>2. /\ h2.heard[c] = a /\ k2[c].wm = f.tick
        /\ k2[c].ring = [k[c].ring EXCEPT ![Peer(c)][Slot(f.tick)] = f.in]
    BY <1>6 DEF Reads
  <2>3. /\ f.tick = Wrap(a) /\ Slot(f.tick) = Cell(a) /\ x = h.epoch[c]
        /\ h.heard[c] < a /\ a <= h.last[Peer(c)][h.epoch[c]]
    BY <1>5, <1>6, <2>1
  <2>4. Accepts(k, ch, h, k2, h2, c)
    BY <2>1, <2>2, <2>3 DEF Accepts
  <2>5. c = 0 => h.epoch[0] = h.epoch[1]
    <3>1. SUFFICES ASSUME c = 0
                   PROVE  h.epoch[0] = h.epoch[1]
      OBVIOUS
    <3>2. /\ Alarms(k, ch[0], h.tag[0], h) /\ Ages(h)
          /\ 1 \in 1 .. Len(ch[0]) /\ ch[0][1].type = "INPUT"
          /\ h.tag[0][1].of = h.epoch[0]
      BY <3>1, <1>3, <2>1, <2>3 DEF Fits, HostLine
    <3>3. h.tag[0][1].of <= h.epoch[1] /\ h.epoch[1] <= h.epoch[0]
      BY <3>2 DEF Alarms, Ages
    <3>. QED
      BY <3>2, <3>3, <1>2
  <2>. QED
    BY <2>2, <2>3, <2>4, <2>5, <1>2
<1>7. CASE ~Taking(k[c], f)
  <2>1. /\ h2.heard[c] = h.heard[c] /\ h2.heard[Peer(c)] = h.heard[Peer(c)]
        /\ k2[c].wm = k[c].wm /\ k2[c].ring = k[c].ring
    BY <1>7 DEF Reads
  <2>2. h2.heard = h.heard
    <3>1. h.heard \in [Seat -> Int] /\ h2.heard \in [Seat -> Int]
      BY DEF History
    <3>. QED
      BY <2>1, <3>1 DEF Seat, Peer
  <2>3. Rests(k, ch, h, k2, h2, c)
    BY <2>1, <2>2, <1>5, <1>7 DEF Rests
  <2>4. ~Accepts(k, ch, h, k2, h2, c)
    <3>1. SUFFICES ASSUME Accepts(k, ch, h, k2, h2, c)
                   PROVE  FALSE
      OBVIOUS
    <3>. QED
      BY <3>1, <2>1, <1>2 DEF Accepts
  <2>. QED
    BY <2>1, <2>3, <2>4, <1>2, <1>4
<1>. QED
  BY <1>6, <1>7

(* What does not change.                                                   *)
LEMMA ReadsTimes ==
  ASSUME NEW k, NEW ch, NEW h \in History, NEW c \in Seat,
         NEW k2, NEW ch2, NEW h2 \in History,
         Reads(k, ch, h, k2, ch2, h2, c)
  PROVE  /\ \A y \in Seat : /\ k2[y].dropped = k[y].dropped
                            /\ k2[y].pend = k[y].pend
                            /\ k2[y].tick = k[y].tick
                            /\ k2[y].epoch = k[y].epoch
                            /\ k2[y].crc = k[y].crc
                            /\ k2[y].hold = k[y].hold
                            /\ k2[y].resume = k[y].resume
         /\ \A y \in Seat : Mark(h2, y) = Mark(h, y)
         /\ \A e : First(h2, e) = First(h, e)
         /\ Ages(h) => Ages(h2)
<1>1. \A y \in Seat : y = c \/ y = Peer(c)
  BY DEF Seat, Peer
<1>2. h2.epoch = h.epoch /\ h2.last = h.last /\ h2.start = h.start
  BY DEF Reads
<1>3. /\ \A e : First(h2, e) = First(h, e)
      /\ \A y : Mark(h2, y) = Mark(h, y)
  BY <1>2 DEF First, Mark
<1>4. Ages(h) => Ages(h2)
  BY <1>2, <1>3 DEF Ages
<1>. QED
  BY <1>1, <1>3, <1>4 DEF Reads

(* The guest and its line after it.                                        *)
LEMMA ReadsGuest ==
  ASSUME NEW k, NEW ch, NEW r, NEW h \in History, NEW c \in Seat, Roomy,
         NEW k2, NEW ch2, NEW h2 \in History,
         Fits(k, ch, r, h), Reads(k, ch, h, k2, ch2, h2, c), ~k2[1].dropped
  PROVE  /\ GuestSpan(k2[1], h2) /\ GuestLine(ch2[1], h2.tag[1], h2)
         /\ r => Reached(ch2[1], h2.tag[1], h2.epoch[1], h2.epoch[0])
<1>1. c \in {0, 1} /\ 0 \in Seat /\ 1 \in Seat /\ Peer(0) = 1 /\ Peer(1) = 0
  BY Seats
<1>2. h2.epoch = h.epoch /\ h2.last = h.last /\ h2.start = h.start
  BY DEF Reads
<1>3. /\ k2[1].hold = k[1].hold /\ k2[1].resume = k[1].resume
      /\ ~k[1].dropped /\ Mark(h2, 1) = Mark(h, 1)
      /\ \A e : First(h2, e) = First(h, e)
  <2>1. /\ k2[1].dropped = k[1].dropped
        /\ k2[1].hold = k[1].hold /\ k2[1].resume = k[1].resume
        /\ Mark(h2, 1) = Mark(h, 1)
    BY SMTT(30), <1>1, ReadsTimes
  <2>. QED
    BY <1>2, <2>1 DEF First
<1>4. /\ GuestSpan(k[1], h) /\ GuestLine(ch[1], h.tag[1], h)
      /\ r => Reached(ch[1], h.tag[1], h.epoch[1], h.epoch[0])
  BY <1>3 DEF Fits
<1>5. CASE c = 0
  <2>1. /\ ch2[1] = ch[1] /\ h2.tag[1] = h.tag[1] /\ h2.heard[1] = h.heard[1]
    BY <1>1, <1>5 DEF Reads
  <2>2. \A e : Known(h2, 1, e) = Known(h, 1, e)
    BY <1>2, <1>3, <2>1 DEF Known
  <2>3. GuestSpan(k2[1], h2)
    BY <1>2, <1>3, <1>4, <2>1 DEF GuestSpan
  <2>4. GuestLine(ch2[1], h2.tag[1], h2)
    BY <1>2, <1>4, <2>1, <2>2 DEF GuestLine
  <2>. QED
    BY <1>2, <1>4, <2>1, <2>3, <2>4
<1>6. CASE c = 1
  <2>. DEFINE s == ch[1]
              g == h.tag[1]
              s2 == ch2[1]
              g2 == h2.tag[1]
              e1 == h.epoch[1]
              e0 == h.epoch[0]
              a == g[1].at
  <2>1. /\ Taken(s, g, s2, g2) /\ s[1].type \notin {"END", "LEFT"}
    BY <1>6 DEF Reads
  <2>2. /\ Wired(s, g) /\ Sorted(s, g, e1) /\ Labelled(s, g, e1, e0, h.start)
        /\ \A e \in e1 .. e0 : Dated(s, g, e, Known(h, 1, e), h.last[0][e])
    BY <1>4 DEF GuestLine
  <2>3. Labelled(s2, g2, e1, e0, h.start) /\ (r => Reached(s2, g2, e1, e0))
    BY <1>4, <2>1, <2>2, TakenLabelled
  <2>4. Wired(s2, g2) /\ Sorted(s2, g2, e1)
    BY <2>1, <2>2, TakenWired, TakenSorted
  <2>5. \/ Accepts(k, ch, h, k2, h2, 1)
        \/ Rests(k, ch, h, k2, h2, 1)
    BY <1>6, ReadsMove
  <2>6. h2.heard[1] <= h.last[0][e1]
    BY <1>1, <1>4, <2>5 DEF Accepts, Rests, GuestSpan
  <2>7. ASSUME NEW e \in e1 .. e0
        PROVE  Dated(s2, g2, e, Known(h2, 1, e), h.last[0][e])
    <3>1. Dated(s, g, e, Known(h, 1, e), h.last[0][e])
      BY <2>2
    <3>2. \/ Known(h2, 1, e) = Known(h, 1, e)
          \/ /\ s[1].type = "INPUT" /\ g[1].of = e /\ e = e1
             /\ Known(h2, 1, e) = g[1].at
      <4>1. CASE e = e1
        BY <1>2, <2>5, <4>1 DEF Known, Accepts, Rests
      <4>2. CASE e # e1
        BY <1>2, <1>3, <4>2 DEF Known
      <4>. QED
        BY <4>1, <4>2
    <3>3. e1 \in Nat
      BY <1>1, Typed
    <3>4. CASE Known(h2, 1, e) = Known(h, 1, e)
      BY <2>1, <2>2, <3>1, <3>4, TakenDated
    <3>5. CASE /\ s[1].type = "INPUT" /\ g[1].of = e /\ e = e1
               /\ Known(h2, 1, e) = g[1].at
      <4>1. e >= e1
        BY <3>3, <3>5
      <4>. QED
        BY <2>1, <2>2, <3>1, <3>5, <4>1, TakenDated
    <3>. QED
      BY <3>2, <3>4, <3>5
  <2>8. GuestLine(s2, g2, h2)
    BY <1>2, <2>3, <2>4, <2>7 DEF GuestLine
  <2>9. GuestSpan(k2[1], h2)
    BY <1>2, <1>3, <1>4, <2>6 DEF GuestSpan
  <2>. QED
    BY <1>2, <2>3, <2>8, <2>9
<1>. QED
  BY <1>1, <1>5, <1>6

(* Alarms left on the line.                                                *)
LEMMA TakenAlarms ==
  ASSUME NEW k, NEW s, NEW g, NEW h, NEW k2, NEW s2, NEW g2, NEW h2,
         Taken(s, g, s2, g2), Alarms(k, s, g, h), h2.epoch = h.epoch,
         k2[0].pend = k[0].pend, k2[1].pend = k[1].pend,
         k2[1].dropped = k[1].dropped,
         \A i \in 1 .. Len(s2) :
            s2[i].type # "LEFT" /\ g2[i].of < h.epoch[0]
              /\ Behindhand(h, g2[i].at, g2[i].of) =>
              Behindhand(h2, g2[i].at, g2[i].of)
  PROVE  Alarms(k2, s2, g2, h2)
<1>. DEFINE b == Bit(k[0].pend)
<1>1. Bit(k2[0].pend) = b
  OBVIOUS
<1>2. ASSUME NEW i \in 1 .. Len(s2), s2[i].type # "LEFT"
      PROVE  /\ s2[i].type \in {"INPUT", "CRC", "REQ"}
             /\ g2[i].of <= h2.epoch[1] /\ h2.epoch[0] + b <= g2[i].of + 2
             /\ s2[i].type = "REQ" =>
                  /\ h2.epoch[0] + b <= g2[i].of + 1
                  /\ g2[i].of = h2.epoch[1] /\ ~k2[1].dropped => k2[1].pend
             /\ s2[i].type = "CRC" =>
                  s2[i].tick = Wrap(g2[i].at - Delay) /\ CrcDue(s2[i].tick)
             /\ g2[i].of < h2.epoch[0] /\ s2[i].type # "REQ" =>
                  Behindhand(h2, g2[i].at, g2[i].of)
  <2>1. i + 1 \in 1 .. Len(s) /\ s2[i] = s[i + 1] /\ g2[i] = g[i + 1]
    BY DEF Taken
  <2>. DEFINE f == s[i + 1]
              x == g[i + 1]
  <2>2. f.type # "LEFT"
    BY <1>2, <2>1
  <2>3. /\ f.type \in {"INPUT", "CRC", "REQ"}
        /\ x.of <= h.epoch[1] /\ h.epoch[0] + b <= x.of + 2
        /\ f.type = "REQ" =>
             /\ h.epoch[0] + b <= x.of + 1
             /\ x.of = h.epoch[1] /\ ~k[1].dropped => k[1].pend
        /\ f.type = "CRC" => f.tick = Wrap(x.at - Delay) /\ CrcDue(f.tick)
        /\ x.of < h.epoch[0] /\ f.type # "REQ" => Behindhand(h, x.at, x.of)
    BY <2>1, <2>2 DEF Alarms
  <2>4. x.of < h.epoch[0] /\ Behindhand(h, x.at, x.of) =>
          Behindhand(h2, x.at, x.of)
    BY <2>1, <2>2
  <2>5. s2[i] = f /\ g2[i] = x
    BY <2>1
  <2>. HIDE DEF f, x
  <2>. QED
    BY <2>3, <2>4, <2>5
<1>. QED
  BY <1>1, <1>2 DEF Alarms

(* The host and its line.                                                  *)
LEMMA ReadsHost ==
  ASSUME NEW k, NEW ch, NEW r, NEW h \in History, NEW c \in Seat, Roomy,
         NEW k2, NEW ch2, NEW h2 \in History,
         Fits(k, ch, r, h), Reads(k, ch, h, k2, ch2, h2, c), ~k2[0].dropped
  PROVE  /\ HostSpan(k2, h2) /\ HostLine(k2, ch2[0], h2.tag[0], h2)
         /\ Records(k2[0], h2)
<1>1. c \in {0, 1} /\ 0 \in Seat /\ 1 \in Seat /\ Peer(0) = 1 /\ Peer(1) = 0
  BY Seats
<1>2. /\ h2.epoch = h.epoch /\ h2.last = h.last /\ h2.start = h.start
      /\ h2.tick = h.tick
  BY DEF Reads
<1>3. /\ \A y \in Seat : k2[y].dropped = k[y].dropped /\ k2[y].pend = k[y].pend
      /\ ~k[0].dropped /\ Mark(h2, 1) = Mark(h, 1) /\ Mark(h2, 0) = Mark(h, 0)
      /\ k2[0].crc = k[0].crc
      /\ \A e : First(h2, e) = First(h, e)
  BY <1>1, ReadsTimes
<1>4. /\ HostSpan(k, h) /\ HostLine(k, ch[0], h.tag[0], h) /\ Records(k[0], h)
  BY <1>3 DEF Fits
<1>5. Records(k2[0], h2)
  BY <1>2, <1>3, <1>4 DEF Records
<1>6. /\ h.heard[0] \in Int /\ h2.heard[0] \in Int /\ h.epoch[0] \in Nat
      /\ h.epoch[1] \in Nat
  BY <1>1, Typed
<1>7. CASE h2.heard[0] = h.heard[0]
  <2>1. \A x, e : Behindhand(h2, x, e) = Behindhand(h, x, e)
    BY <1>2, <1>3, <1>7 DEF Behindhand
  <2>2. HostSpan(k2, h2)
    BY <1>1, <1>2, <1>3, <1>4, <1>7, <2>1 DEF HostSpan
  <2>3. CASE c = 1
    <3>1. ch2[0] = ch[0] /\ h2.tag[0] = h.tag[0]
      BY <1>1, <2>3 DEF Reads
    <3>2. Alarms(k2, ch2[0], h2.tag[0], h2)
      BY <1>1, <1>2, <1>3, <1>4, <2>1, <3>1 DEF HostLine, Alarms
    <3>. QED
      BY <1>2, <1>4, <1>5, <1>7, <2>2, <3>1, <3>2 DEF HostLine
  <2>4. CASE c = 0
    <3>. DEFINE s == ch[0]
                g == h.tag[0]
                s2 == ch2[0]
                g2 == h2.tag[0]
    <3>1. Taken(s, g, s2, g2)
      BY <2>4 DEF Reads
    <3>2. \A i \in 1 .. Len(s2) : /\ i + 1 \in 1 .. Len(s) /\ s2[i] = s[i + 1]
                                  /\ g2[i] = g[i + 1]
      BY <3>1 DEF Taken
    <3>3. Alarms(k2, s2, g2, h2)
      <4>1. Alarms(k, s, g, h)
        BY <1>4 DEF HostLine
      <4>2. \A i \in 1 .. Len(s2) :
              Behindhand(h, g2[i].at, g2[i].of) =>
                Behindhand(h2, g2[i].at, g2[i].of)
        BY <2>1
      <4>. QED
        BY <1>1, <1>2, <1>3, <3>1, <4>1, <4>2, TakenAlarms
    <3>4. Ranked(s2, g2)
      <4>1. Ranked(s, g) /\ \A i, j \in 1 .. Len(s2) : i < j => i + 1 < j + 1
        BY <1>4 DEF HostLine
      <4>. QED
        BY <3>2, <4>1 DEF Ranked
    <3>5. Wired(s2, g2) /\ Sorted(s2, g2, h.epoch[0])
      BY <1>4, <3>1, TakenWired, TakenSorted DEF HostLine
    <3>6. Dated(s2, g2, h.epoch[0], h.heard[0], h.last[1][h.epoch[0]])
      BY <1>4, <3>1, TakenDated DEF HostLine
    <3>7. HostLine(k2, s2, g2, h2)
      BY <1>2, <1>7, <3>3, <3>4, <3>5, <3>6 DEF HostLine
    <3>. QED
      BY <1>5, <2>2, <3>7
  <2>. QED
    BY <1>1, <2>3, <2>4
<1>8. CASE h2.heard[0] # h.heard[0]
  <2>. DEFINE s == ch[0]
              g == h.tag[0]
              s2 == ch2[0]
              g2 == h2.tag[0]
              e0 == h.epoch[0]
              a == g[1].at
  <2>1. c = 0 /\ Accepts(k, ch, h, k2, h2, 0) /\ h.epoch[0] = h.epoch[1]
    <3>1. c = 0
      BY <1>1, <1>8 DEF Reads
    <3>2. /\ Accepts(k, ch, h, k2, h2, 0) \/ Rests(k, ch, h, k2, h2, 0)
          /\ Accepts(k, ch, h, k2, h2, 0) => h.epoch[0] = h.epoch[1]
      BY <3>1, ReadsMove
    <3>3. ~Rests(k, ch, h, k2, h2, 0)
      BY <1>8 DEF Rests
    <3>. QED
      BY <3>1, <3>2, <3>3
  <2>2. /\ s[1].type = "INPUT" /\ g[1].of = e0 /\ h2.heard[0] = a
        /\ a <= h.last[1][e0]
    BY <1>1, <2>1 DEF Accepts
  <2>3. Taken(s, g, s2, g2)
    BY <2>1 DEF Reads
  <2>4. HostSpan(k2, h2)
    <3>1. a <= Mark(h, 1)
      BY <2>1, <2>2 DEF Mark
    <3>. QED
      BY <1>1, <1>2, <1>3, <1>4, <1>6, <2>1, <2>2, <3>1 DEF HostSpan
  <2>5. /\ Len(s) \in Nat \ {0} /\ 1 \in 1 .. Len(s) /\ 1 \in Nat
        /\ \A i \in 1 .. Len(s2) : /\ i + 1 \in 1 .. Len(s) /\ s2[i] = s[i + 1]
                                   /\ g2[i] = g[i + 1] /\ 1 < i + 1
                                   /\ i + 1 \in Nat
    BY <2>3 DEF Taken
  <2>6. Ranked(s, g) /\ Alarms(k, s, g, h)
    BY <1>4 DEF HostLine
  <2>7. \A i \in 1 .. Len(s2) : s2[i].type # "LEFT" => ~(g2[i].of < e0)
    <3>. SUFFICES ASSUME NEW i \in 1 .. Len(s2), s2[i].type # "LEFT",
                         g2[i].of < e0
                  PROVE  FALSE
      OBVIOUS
    <3>1. g[1].of <= g[i + 1].of
      <4>1. /\ 1 \in 1 .. Len(s) /\ i + 1 \in 1 .. Len(s) /\ 1 < i + 1
            /\ s[1].type # "LEFT" /\ s[i + 1].type # "LEFT"
        BY <2>2, <2>5
      <4>. QED
        BY <2>6, <4>1 DEF Ranked
    <3>2. g[i + 1].of \in Nat
      BY <1>1, <2>5, Typed, TagsType
    <3>. QED
      BY <1>6, <2>2, <2>5, <3>1, <3>2
  <2>8. Alarms(k2, s2, g2, h2)
    <3>1. \A i \in 1 .. Len(s2) :
            s2[i].type # "LEFT" /\ g2[i].of < h.epoch[0]
              /\ Behindhand(h, g2[i].at, g2[i].of) =>
              Behindhand(h2, g2[i].at, g2[i].of)
      BY <2>7
    <3>. QED
      BY <1>1, <1>2, <1>3, <2>3, <2>6, <3>1, TakenAlarms
  <2>9. Ranked(s2, g2)
    <3>1. \A i, j \in 1 .. Len(s2) : i < j => i + 1 < j + 1
      OBVIOUS
    <3>. QED
      BY ZenonT(40), <2>5, <2>6, <3>1 DEF Ranked
  <2>10. Wired(s2, g2) /\ Sorted(s2, g2, e0)
    BY <1>4, <2>3, TakenWired, TakenSorted DEF HostLine
  <2>11. Dated(s2, g2, e0, a, h.last[1][e0])
    <3>1. /\ Sorted(s, g, e0) /\ Dated(s, g, e0, h.heard[0], h.last[1][e0])
          /\ e0 >= e0
      BY <1>4, <1>6 DEF HostLine
    <3>. QED
      BY <2>2, <2>3, <3>1, TakenDated
  <2>12. HostLine(k2, s2, g2, h2)
    BY <1>2, <2>2, <2>8, <2>9, <2>10, <2>11 DEF HostLine
  <2>. QED
    BY <1>5, <2>4, <2>12
<1>. QED
  BY <1>7, <1>8

(* The rings and the line the reader c sees.                               *)
LEMMA ReadsAgree ==
  ASSUME NEW k \in [Seat -> Console], NEW ch, NEW r \in BOOLEAN,
         NEW h \in History, NEW c \in Seat, Roomy,
         NEW k2, NEW ch2, NEW h2 \in History,
         Fits(k, ch, r, h), Reads(k, ch, h, k2, ch2, h2, c),
         ~k[0].dropped, ~k[1].dropped
  PROVE  Agree(k2, ch2[c], h2.tag[c], r, h2, c)
<1>. DEFINE p == Peer(c)
            e == h.epoch[0]
            s == ch[c]
            g == h.tag[c]
            s2 == ch2[c]
            g2 == h2.tag[c]
            a == g[1].at
            lo == Known(h, c, e)
            lo2 == Known(h2, c, e)
            hi == h.last[p][e]
            M == Mark(h, p)
            K == Skip(k, h, p)
            K2 == Skip(k2, h2, p)
            H == h.heard[c]
            H2 == h2.heard[c]
<1>1. /\ c \in {0, 1} /\ p \in Seat /\ p # c /\ 0 \in Seat /\ 1 \in Seat
      /\ Peer(p) = c /\ \A y \in Seat : y = c \/ y = p
  BY Seats
<1>2. /\ h2.epoch = h.epoch /\ h2.last = h.last /\ h2.start = h.start
      /\ k2[p] = k[p] /\ Taken(s, g, s2, g2)
      /\ s[1].type \notin {"END", "LEFT"}
  BY DEF Reads
<1>3. /\ a \in Int /\ lo \in Int /\ lo2 \in Int /\ hi \in Int /\ M \in Int
      /\ e \in Nat /\ H \in Int /\ H2 \in Int /\ h.epoch[c] \in Nat
      /\ g \in Tags /\ Delay \in Nat /\ PageSize \in Nat \ {0}
      /\ h.heard[p] \in Int /\ h.tick[p] \in Int
  BY <1>1, <1>2, Typed, Numbers, TagsType
<1>4. /\ Mark(h2, p) = M /\ First(h2, e) = First(h, e)
  BY <1>1, <1>2 DEF First, Mark
<1>5. /\ Told(s, g, e, k[p].ring[p]) /\ Gapless(s, g, e, lo, K)
      /\ r /\ h.epoch[p] = e => Covered(s, g, e, lo, M, Len(s), K)
      /\ h.epoch[1] = e => \A t \in M - PageSize + 1 .. H : Alike(k, p, t)
  BY DEF Fits, Agree
<1>6. /\ h.epoch[p] = e => h.heard[p] <= lo + Delay + 1
      /\ Dated(s, g, e, lo, hi)
  BY <1>1, Between
<1>7. h.epoch[p] = e => hi = M
  BY DEF Mark
<1>8. M <= h.heard[p] + Delay + 1
  <2>1. Clock(k[p], h, p)
    BY <1>1 DEF Fits
  <2>2. h.tick[p] <= h.heard[p] + 1 /\ M <= h.tick[p] + Delay
    BY <2>1, <1>3 DEF Clock
  <2>. QED
    BY <2>2, <1>3
<1>9. Told(s2, g2, e, k2[p].ring[p])
  BY <1>2, <1>5, TakenTold
<1>10. \/ Accepts(k, ch, h, k2, h2, c)
       \/ Rests(k, ch, h, k2, h2, c)
  BY ReadsMove
<1>11. CASE Rests(k, ch, h, k2, h2, c)
  <2>1. /\ H2 = H /\ k2[c].ring = k[c].ring
        /\ s[1].type = "INPUT" => g[1].of # e
    BY <1>3, <1>11 DEF Rests
  <2>2. lo2 = lo
    BY <1>2, <1>4, <2>1 DEF Known
  <2>3. \A y \in Seat : k2[y].ring = k[y].ring
    BY <1>1, <1>2, <2>1
  <2>4. K2 = K /\ \A t : Alike(k, p, t) => Alike(k2, p, t)
    BY <1>1, <1>2, <2>3 DEF Skip, Alike
  <2>5. \A t \in lo2 + 1 .. hi : t \in K => t \in K2
    BY <2>4
  <2>6. Gapless(s2, g2, e, lo2, K2)
    <3>1. lo <= lo2
      BY <1>3, <2>2
    <3>. HIDE DEF s, g, s2, g2, lo, lo2, hi, K, K2, e
    <3>. QED
      BY <1>2, <1>3, <1>5, <1>6, <2>1, <2>5, <3>1, TakenGapless
  <2>7. ASSUME r, h.epoch[p] = e
        PROVE  Covered(s2, g2, e, lo2, M, Len(s2), K2)
    <3>1. /\ Covered(s, g, e, lo, M, Len(s), K) /\ lo <= lo2
          /\ Len(s) \in 1 .. Len(s) /\ Len(s2) = Len(s) - 1
          /\ \A t \in lo2 + 1 .. M : t \in K => t \in K2
      BY <1>2, <1>3, <1>5, <2>2, <2>4, <2>7 DEF Taken
    <3>. HIDE DEF s, g, s2, g2, lo, lo2, M, K, K2, e
    <3>2. Covered(s2, g2, e, lo2, M, Len(s) - 1, K2)
      BY <1>2, <1>3, <2>1, <3>1, TakenCovered
    <3>. QED
      BY <3>1, <3>2
  <2>8. h.epoch[1] = e =>
          \A t \in Mark(h2, p) - PageSize + 1 .. H2 : Alike(k2, p, t)
    BY <1>4, <1>5, <2>1, <2>4
  <2>. QED
    BY <1>2, <1>4, <1>9, <2>6, <2>7, <2>8 DEF Agree
<1>12. CASE Accepts(k, ch, h, k2, h2, c)
  <2>1. /\ s[1].type = "INPUT" /\ g[1].of = h.epoch[c] /\ H < a /\ H2 = a
        /\ a <= h.last[p][h.epoch[c]]
        /\ k2[c].ring = [k[c].ring EXCEPT ![p][Cell(a)] = s[1].in]
        /\ c = 0 => h.epoch[0] = h.epoch[1]
    <3>1. c = 0 => h.epoch[0] = h.epoch[1]
      BY <1>12, ReadsMove
    <3>. QED
      BY <1>12, <3>1 DEF Accepts
  <2>2. /\ k2[c].ring[p][Cell(a)] = s[1].in
        /\ \A t \in Int : Cell(t) # Cell(a) =>
             k2[c].ring[p][Cell(t)] = k[c].ring[p][Cell(t)]
    <3>1. k[c].ring \in [Seat -> [Slots -> Inputs]]
      BY DEF Console
    <3>2. \A t \in Int : Cell(t) \in Slots
      BY CellType
    <3>3. k2[c].ring = [k[c].ring EXCEPT ![p][Cell(a)] = s[1].in]
      BY <2>1
    <3>4. p \in Seat /\ a \in Int
      BY <1>1, <1>3
    <3>. HIDE DEF a, s, p
    <3>. QED
      BY <3>1, <3>2, <3>3, <3>4
  <2>3. ASSUME h.epoch[c] # e
        PROVE  Agree(k2, s2, g2, r, h2, c)
    <3>1. c = 1 /\ h.epoch[1] # h.epoch[0]
      BY <1>1, <2>1, <2>3
    <3>2. lo2 = lo /\ g[1].of # e
      BY <1>2, <1>4, <2>1, <2>3 DEF Known
    <3>3. K = {}
      BY <3>1 DEF Skip
    <3>4. Gapless(s2, g2, e, lo2, K2)
      <4>1. lo <= lo2 /\ \A t \in lo2 + 1 .. hi : t \in K => t \in K2
        BY <1>3, <3>2, <3>3
      <4>. HIDE DEF s, g, s2, g2, lo, lo2, hi, K, K2, e
      <4>. QED
        BY <1>2, <1>3, <1>5, <1>6, <3>2, <4>1, TakenGapless
    <3>5. ASSUME r, h.epoch[p] = e
          PROVE  Covered(s2, g2, e, lo2, M, Len(s2), K2)
      <4>1. /\ Covered(s, g, e, lo, M, Len(s), K) /\ lo <= lo2
            /\ Len(s) \in 1 .. Len(s) /\ Len(s2) = Len(s) - 1
            /\ \A t \in lo2 + 1 .. M : t \in K => t \in K2
        BY <1>2, <1>3, <1>5, <3>2, <3>3, <3>5 DEF Taken
      <4>. HIDE DEF s, g, s2, g2, lo, lo2, M, K, K2, e
      <4>2. Covered(s2, g2, e, lo2, M, Len(s) - 1, K2)
        BY <1>2, <1>3, <3>2, <4>1, TakenCovered
      <4>. QED
        BY <4>1, <4>2
    <3>. QED
      BY <1>2, <1>4, <1>9, <3>1, <3>4, <3>5 DEF Agree
  <2>4. ASSUME h.epoch[c] = e
        PROVE  Agree(k2, s2, g2, r, h2, c)
    <3>1. lo = H /\ lo2 = a
      BY <1>2, <2>1, <2>4 DEF Known
    <3>2. /\ s[1].in = k[p].ring[p][Cell(a)]
          /\ 1 \in 1 .. Len(s) /\ Len(s) \in Nat
      BY <1>2, <1>5, <2>1, <2>4 DEF Told, Taken
    <3>3. /\ k2[p].ring[p][Cell(a)] = k2[c].ring[p][Cell(a)]
      BY <1>2, <2>2, <3>2
    <3>4. ASSUME h.epoch[p] = e
          PROVE  M - a < PageSize /\ hi = M
      <4>1. h.heard[p] <= H + Delay + 1 /\ hi = M
        BY <1>6, <1>7, <3>1, <3>4
      <4>2. M <= h.heard[p] + Delay + 1 /\ H < a
        BY <1>8, <2>1
      <4>3. 2 * Delay + 2 <= PageSize
        BY DEF Roomy
      <4>. HIDE DEF M, a, H, hi
      <4>. QED
        BY <4>1, <4>2, <4>3, <1>3
    <3>5. ASSUME NEW t \in a + 1 .. hi, t \in K
          PROVE  t \in K2
      <4>1. /\ h.epoch[0] = h.epoch[1] /\ t \in Int
            /\ \A y \in Seat : k[y].ring[p][Cell(t)] = Idle
        BY <3>5 DEF Skip
      <4>2. h.epoch[p] = e
        BY <1>1, <4>1
      <4>3. M - a < PageSize /\ hi = M
        BY <3>4, <4>2
      <4>4. t \in Int /\ a \in Int /\ t # a /\ t - a < PageSize /\ a - t < PageSize
        BY <4>3, <1>3
      <4>5. Cell(t) # Cell(a)
        <5>. HIDE DEF a
        <5>. QED
          BY <4>4, CellApart
      <4>6. k2[c].ring[p][Cell(t)] = Idle
        BY <2>2, <4>1, <4>5
      <4>7. \A y \in Seat : k2[y].ring[p][Cell(t)] = Idle
        BY <1>1, <1>2, <4>1, <4>6
      <4>. QED
        BY <1>2, <4>1, <4>7 DEF Skip
    <3>6. /\ lo <= lo2 /\ \A t \in lo2 + 1 .. hi : t \in K => t \in K2
          /\ s[1].type = "INPUT" /\ g[1].of = e => g[1].at \notin lo2 + 1 .. hi
      BY <1>3, <2>1, <3>1, <3>5
    <3>7. Gapless(s2, g2, e, lo2, K2)
      <4>. HIDE DEF s, g, s2, g2, lo, lo2, hi, K, K2, e
      <4>. QED
        BY <1>2, <1>3, <1>5, <1>6, <3>6, TakenGapless
    <3>8. ASSUME r, h.epoch[p] = e
          PROVE  Covered(s2, g2, e, lo2, M, Len(s2), K2)
      <4>1. /\ Covered(s, g, e, lo, M, Len(s), K) /\ lo <= lo2
            /\ Len(s) \in 1 .. Len(s) /\ Len(s2) = Len(s) - 1
            /\ \A t \in lo2 + 1 .. M : t \in K => t \in K2
            /\ s[1].type = "INPUT" /\ g[1].of = e => g[1].at \notin lo2 + 1 .. M
        <5>1. Covered(s, g, e, lo, M, Len(s), K) /\ hi = M
          BY <1>5, <3>4, <3>8
        <5>2. Len(s) \in 1 .. Len(s) /\ Len(s2) = Len(s) - 1
          BY <1>2 DEF Taken
        <5>. HIDE DEF s, g, s2, g2, lo, lo2, hi, M, K, K2, e
        <5>. QED
          BY <3>6, <5>1, <5>2
      <4>. HIDE DEF s, g, s2, g2, lo, lo2, M, K, K2, e
      <4>2. Covered(s2, g2, e, lo2, M, Len(s) - 1, K2)
        BY <1>2, <1>3, <4>1, TakenCovered
      <4>. QED
        BY <4>1, <4>2
    <3>9. ASSUME h.epoch[1] = e, NEW t \in M - PageSize + 1 .. a
          PROVE  Alike(k2, p, t)
      <4>1. h.epoch[p] = e /\ t \in Int
        BY <1>1, <1>3, <2>4, <3>9
      <4>2. CASE t = a
        BY <1>1, <3>3, <4>2, Seats DEF Alike
      <4>3. CASE t # a
        <5>1. Alike(k, p, t)
          <6>1. CASE t <= H
            BY <1>3, <1>5, <3>9, <4>1, <6>1
          <6>2. CASE H < t
            <7>1. Covered(s, g, e, lo, a - 1, 0, K)
              BY <1>5, <2>1, <2>4, <3>2 DEF Gapless
            <7>2. t \in lo + 1 .. a - 1
              BY <1>3, <3>1, <3>9, <4>3, <6>2
            <7>3. t \in K
              BY <7>1, <7>2 DEF Covered, Carried
            <7>. QED
              BY <1>1, <7>3 DEF Skip, Alike
          <6>. QED
            BY <1>3, <4>1, <6>1, <6>2
        <5>2. a <= M
          BY <2>1, <2>4, <4>1 DEF Mark
        <5>3. /\ t # a /\ t - a < PageSize /\ a - t < PageSize
          BY <1>3, <3>9, <4>1, <4>3, <5>2
        <5>4. Cell(t) # Cell(a)
          <6>. HIDE DEF a
          <6>. QED
            BY <1>3, <4>1, <5>3, CellApart
        <5>5. \A y \in Seat : k2[y].ring[p][Cell(t)] = k[y].ring[p][Cell(t)]
          BY <1>1, <1>2, <2>2, <4>1, <5>4
        <5>. QED
          BY <1>1, <5>1, <5>5 DEF Alike
      <4>. QED
        BY <4>2, <4>3
    <3>. QED
      BY <1>2, <1>4, <1>9, <2>1, <3>7, <3>8, <3>9 DEF Agree
  <2>. QED
    BY <2>3, <2>4
<1>. QED
  BY <1>10, <1>11, <1>12

(* A frame read leaves a state its history fits.                           *)
LEMMA ReadsFits ==
  ASSUME NEW k \in [Seat -> Console], NEW ch, NEW r \in BOOLEAN,
         NEW h \in History, NEW c \in Seat, Roomy,
         NEW k2, NEW ch2, NEW h2 \in History,
         Fits(k, ch, r, h), Reads(k, ch, h, k2, ch2, h2, c)
  PROVE  Fits(k2, ch2, r, h2)
<1>. DEFINE p == Peer(c)
<1>0. /\ c \in {0, 1} /\ p \in Seat /\ p # c /\ 0 \in Seat /\ 1 \in Seat
      /\ Peer(p) = c /\ \A y \in Seat : y = c \/ y = p
  BY Seats
<1>1. /\ \A y \in Seat : k2[y].dropped = k[y].dropped
      /\ \A y \in Seat : Mark(h2, y) = Mark(h, y)
      /\ Ages(h2)
  <2>1. Ages(h)
    BY DEF Fits
  <2>2. \A y \in Seat : k2[y].dropped = k[y].dropped
    BY <1>0 DEF Reads
  <2>3. \A y \in Seat : Mark(h2, y) = Mark(h, y)
    BY DEF Reads, Mark
  <2>. QED
    BY <2>1, <2>2, <2>3, ReadsTimes
<1>2. /\ h2.epoch = h.epoch /\ h2.last = h.last /\ h2.start = h.start
      /\ h2.tick = h.tick /\ k2[p] = k[p] /\ ch2[p] = ch[p]
      /\ h2.tag[p] = h.tag[p] /\ h2.heard[p] = h.heard[p]
  BY DEF Reads
<1>3. ASSUME NEW y \in Seat, ~k2[y].dropped
      PROVE  Clock(k2[y], h2, y)
  <2>1. Clock(k[y], h, y)
    BY <1>1, <1>3 DEF Fits
  <2>2. First(h2, h.epoch[y]) = First(h, h.epoch[y])
    BY <1>2 DEF First
  <2>3. CASE y = p
    BY <1>1, <1>2, <2>1, <2>2, <2>3 DEF Clock
  <2>4. CASE y = c
    <3>1. /\ k2[c].wm = Wrap(h2.heard[c]) /\ h.heard[c] <= h2.heard[c]
      BY ReadsMove
    <3>2. k2[c].tick = k[c].tick /\ k2[c].epoch = k[c].epoch
      BY DEF Reads
    <3>3. /\ h.heard[c] \in Int /\ h2.heard[c] \in Int /\ h.tick[c] \in Int
          /\ h.epoch[c] \in Nat /\ First(h, h.epoch[c]) \in Int
      BY Typed
    <3>4. /\ First(h, h.epoch[c]) <= h2.heard[c]
          /\ h.tick[c] <= h2.heard[c] + 1
      BY <2>1, <2>4, <3>1, <3>3 DEF Clock
    <3>. QED
      BY <1>1, <1>2, <2>1, <2>2, <2>4, <3>1, <3>2, <3>4 DEF Clock
  <2>. QED
    BY <1>0, <2>3, <2>4
<1>4. ASSUME ~k2[0].dropped, ~k2[1].dropped
      PROVE  /\ \A y \in Seat : Agree(k2, ch2[y], h2.tag[y], r, h2, y)
             /\ Fresh(k2, h2)
  <2>1. ~k[0].dropped /\ ~k[1].dropped
    BY <1>0, <1>1, <1>4
  <2>2. Agree(k2, ch2[c], h2.tag[c], r, h2, c)
    BY <2>1, ReadsAgree
  <2>3. \/ Accepts(k, ch, h, k2, h2, c) /\ h.tag[c][1].at \in Int
           /\ (c = 0 => h.epoch[0] = h.epoch[1])
        \/ Rests(k, ch, h, k2, h2, c)
    BY ReadsMove
  <2>4. k2[c].ring[c] = k[c].ring[c]
    <3>1. CASE Accepts(k, ch, h, k2, h2, c) /\ h.tag[c][1].at \in Int
      <4>1. k[c].ring \in [Seat -> [Slots -> Inputs]]
        BY DEF Console
      <4>2. \E b, v : k2[c].ring = [k[c].ring EXCEPT ![p][b] = v]
        BY <3>1 DEF Accepts
      <4>. QED
        BY <1>0, <4>1, <4>2
    <3>. QED
      BY <2>3, <3>1 DEF Rests
  <2>5. Agree(k2, ch2[p], h2.tag[p], r, h2, p)
    <3>1. Agree(k, ch[p], h.tag[p], r, h, p)
      BY <1>0, <2>1 DEF Fits
    <3>2. \A y \in Seat : k2[y].ring[c] = k[y].ring[c]
      BY <1>0, <1>2, <2>4
    <3>3. /\ Skip(k2, h2, c) = Skip(k, h, c)
          /\ \A t : Alike(k, c, t) => Alike(k2, c, t)
      BY <1>0, <1>2, <3>2 DEF Skip, Alike
    <3>4. Known(h2, p, h.epoch[0]) = Known(h, p, h.epoch[0])
      BY <1>2 DEF Known, First
    <3>. QED
      BY <1>0, <1>1, <1>2, <3>1, <3>2, <3>3, <3>4 DEF Agree
  <2>6. Fresh(k2, h2)
    <3>1. Fresh(k, h)
      BY <2>1 DEF Fits
    <3>2. h.epoch[1] < h.epoch[0] => k2[0].ring = k[0].ring
      <4>1. c = 1 => k2[0] = k[0]
        BY <1>0, <1>2, Seats
      <4>2. h.epoch[0] \in Nat
        BY <1>0, Typed
      <4>. QED
        BY <1>0, <2>3, <4>1, <4>2 DEF Rests
    <3>3. First(h2, h.epoch[0]) = First(h, h.epoch[0])
      BY <1>2 DEF First
    <3>. QED
      BY <1>0, <1>1, <1>2, <3>1, <3>2, <3>3 DEF Fresh
  <2>. QED
    BY <1>0, <2>2, <2>5, <2>6
<1>5. ~k2[1].dropped =>
        /\ GuestSpan(k2[1], h2) /\ GuestLine(ch2[1], h2.tag[1], h2)
        /\ r => Reached(ch2[1], h2.tag[1], h2.epoch[1], h2.epoch[0])
  BY ReadsGuest
<1>6. ~k2[0].dropped =>
        /\ HostSpan(k2, h2) /\ HostLine(k2, ch2[0], h2.tag[0], h2)
        /\ Records(k2[0], h2)
  BY ReadsHost
<1>. QED
  BY <1>1, <1>3, <1>4, <1>5, <1>6 DEF Fits

-----------------------------------------------------------------------------
(* The host notes that a push is wanted: no frame on its line, and no      *)
(* alarm, is as far back as to be overtaken by it.                         *)
Wants(k, ch, h, k2) ==
  /\ ~k[0].dropped /\ k2[1] = k[1] /\ Looks(k[0], k2[0])
  /\ k2[0].ring = k[0].ring /\ k2[0].pend
  /\ h.epoch[0] <= h.epoch[1] + 1
  /\ ~k[1].dropped /\ ~k[1].pend => h.epoch[0] <= h.epoch[1]
  /\ \A i \in 1 .. Len(ch[0]) : ch[0][i].type # "LEFT" =>
       /\ h.epoch[0] <= h.tag[0][i].of + 1
       /\ ch[0][i].type = "REQ" => h.epoch[0] <= h.tag[0][i].of

(* A push wanted leaves a state the same history fits.                     *)
LEMMA WantsFits ==
  ASSUME NEW k, NEW ch, NEW r, NEW h \in History, NEW k2,
         Fits(k, ch, r, h), Wants(k, ch, h, k2)
  PROVE  Fits(k2, ch, r, h)
<1>. DEFINE s == ch[0]
            g == h.tag[0]
<1>1. /\ 0 \in Seat /\ 1 \in Seat /\ \A x \in Seat : x = 0 \/ x = 1
      /\ h.epoch[0] \in Nat /\ h.epoch[1] \in Nat /\ g \in Tags
  BY Seats, Typed
<1>2. /\ k2[1] = k[1] /\ Looks(k[0], k2[0]) /\ k2[0].ring = k[0].ring
      /\ ~k[0].dropped /\ k2[0].pend
  BY DEF Wants
<1>3. /\ \A x \in Seat : k2[x].ring = k[x].ring
      /\ \A x \in Seat : k2[x].dropped = k[x].dropped
  BY <1>1, <1>2 DEF Looks
<1>4. Ages(h)
  BY DEF Fits
<1>5. ASSUME NEW x \in Seat, ~k2[x].dropped
      PROVE  Clock(k2[x], h, x)
  <2>1. Clock(k[x], h, x)
    BY <1>3, <1>5 DEF Fits
  <2>2. k2[x].tick = k[x].tick /\ k2[x].wm = k[x].wm /\ k2[x].epoch = k[x].epoch
    BY <1>1, <1>2 DEF Looks
  <2>. QED
    BY <2>1, <2>2 DEF Clock
<1>6. ~k2[1].dropped =>
        /\ GuestSpan(k2[1], h) /\ GuestLine(ch[1], h.tag[1], h)
        /\ r => Reached(ch[1], h.tag[1], h.epoch[1], h.epoch[0])
  BY <1>2 DEF Fits
<1>7. HostSpan(k, h) /\ HostLine(k, s, g, h) /\ Records(k[0], h)
  BY <1>2 DEF Fits
<1>8. Records(k2[0], h)
  BY <1>2, <1>7 DEF Records, Looks
<1>9. Bit(k2[0].pend) = 1
  BY <1>2 DEF Bit
<1>10. HostSpan(k2, h)
  <2>1. /\ h.epoch[0] <= h.epoch[1] + 1
        /\ ~k[1].dropped /\ ~k[1].pend => h.epoch[0] <= h.epoch[1]
    BY DEF Wants
  <2>2. /\ h.epoch[0] + 1 <= h.epoch[1] + 2
        /\ ~k2[1].dropped /\ ~k2[1].pend => h.epoch[0] + 1 <= h.epoch[1] + 1
    BY <1>1, <1>2, <2>1
  <2>. QED
    BY <1>7, <1>9, <2>2 DEF HostSpan
<1>11. Alarms(k2, s, g, h)
  <2>. SUFFICES ASSUME NEW i \in 1 .. Len(s), s[i].type # "LEFT"
                PROVE  /\ s[i].type \in {"INPUT", "CRC", "REQ"}
                       /\ g[i].of <= h.epoch[1] /\ h.epoch[0] + 1 <= g[i].of + 2
                       /\ s[i].type = "REQ" =>
                            /\ h.epoch[0] + 1 <= g[i].of + 1
                            /\ g[i].of = h.epoch[1] /\ ~k2[1].dropped =>
                                 k2[1].pend
                       /\ s[i].type = "CRC" =>
                            /\ s[i].tick = Wrap(g[i].at - Delay)
                            /\ CrcDue(s[i].tick)
                       /\ g[i].of < h.epoch[0] /\ s[i].type # "REQ" =>
                            Behindhand(h, g[i].at, g[i].of)
    BY <1>9 DEF Alarms
  <2>1. g[i].of \in Nat
    <3>1. i \in Nat
      OBVIOUS
    <3>. QED
      BY <1>1, <3>1, TagsType
  <2>2. /\ h.epoch[0] <= g[i].of + 1
        /\ s[i].type = "REQ" => h.epoch[0] <= g[i].of
    BY DEF Wants
  <2>3. /\ s[i].type \in {"INPUT", "CRC", "REQ"}
        /\ g[i].of <= h.epoch[1]
        /\ s[i].type = "REQ" /\ g[i].of = h.epoch[1] /\ ~k[1].dropped =>
             k[1].pend
        /\ s[i].type = "CRC" =>
             /\ s[i].tick = Wrap(g[i].at - Delay)
             /\ CrcDue(s[i].tick)
        /\ g[i].of < h.epoch[0] /\ s[i].type # "REQ" =>
             Behindhand(h, g[i].at, g[i].of)
    BY <1>7 DEF HostLine, Alarms
  <2>4. /\ h.epoch[0] + 1 <= g[i].of + 2
        /\ s[i].type = "REQ" => h.epoch[0] + 1 <= g[i].of + 1
    <3>. DEFINE x == g[i].of
    <3>. HIDE DEF x
    <3>. QED
      BY SMTT(30), <1>1, <2>1, <2>2
  <2>. QED
    BY <1>2, <2>3, <2>4
<1>12. HostLine(k2, s, g, h)
  BY <1>7, <1>11 DEF HostLine
<1>13. ~k2[0].dropped /\ ~k2[1].dropped =>
         /\ \A c \in Seat : Agree(k2, ch[c], h.tag[c], r, h, c)
         /\ Fresh(k2, h)
  <2>. SUFFICES ASSUME ~k[0].dropped, ~k[1].dropped
                PROVE  /\ \A c \in Seat : Agree(k2, ch[c], h.tag[c], r, h, c)
                       /\ Fresh(k2, h)
    BY <1>1, <1>3
  <2>1. /\ \A c \in Seat : Agree(k, ch[c], h.tag[c], r, h, c)
        /\ Fresh(k, h)
    BY DEF Fits
  <2>2. /\ \A p, t : Alike(k2, p, t) = Alike(k, p, t)
        /\ \A p : Skip(k2, h, p) = Skip(k, h, p)
    BY <1>1, <1>3 DEF Alike, Skip
  <2>3. \A c \in Seat : k2[Peer(c)].ring = k[Peer(c)].ring
    BY <1>3, Seats
  <2>4. \A c \in Seat : Agree(k2, ch[c], h.tag[c], r, h, c)
    BY <2>1, <2>2, <2>3 DEF Agree
  <2>5. Fresh(k2, h)
    BY <1>1, <1>3, <2>1 DEF Fresh
  <2>. QED
    BY <2>4, <2>5
<1>. QED
  BY <1>4, <1>5, <1>6, <1>8, <1>10, <1>12, <1>13 DEF Fits

-----------------------------------------------------------------------------
(* The guest reads the END of a push and joins the host's next epoch.      *)
Ends(k, ch, h, k2, ch2, h2) ==
  LET e == h.epoch[1] + 1
      n == k2[1]
  IN  /\ ~k[1].dropped /\ k[1].hold /\ k2[0] = k[0]
      /\ Taken(ch[1], h.tag[1], ch2[1], h2.tag[1]) /\ ch[1][1].type = "END"
      /\ ch2[0] = ch[0] /\ h2.tag[0] = h.tag[0]
      /\ ~n.dropped /\ n.tick = k[1].resume /\ n.wm = Plus(n.tick, Delay - 1)
      /\ n.epoch = k[1].epoch + 1 /\ n.ring = IdleRings /\ ~n.hold /\ ~n.pend
      /\ h2.epoch[0] = h.epoch[0] /\ h2.epoch[1] = e
      /\ h2.tick[0] = h.tick[0] /\ h2.tick[1] = h.start[e]
      /\ h2.heard[0] = h.heard[0] /\ h2.heard[1] = First(h, e)
      /\ h2.start = h.start /\ h2.last[0] = h.last[0]
      /\ \A x \in Nat : x # e => h2.last[1][x] = h.last[1][x]
      /\ h2.last[1][e] \in {First(h, e), First(h, e) + 1}

(* Without the END the line starts in the next epoch.                      *)
LEMMA TakenEnd ==
  ASSUME NEW s, NEW g \in Tags, NEW s2, NEW g2,
         NEW lo \in Nat, NEW hi \in Nat, NEW start,
         Taken(s, g, s2, g2), Labelled(s, g, lo, hi, start), s[1].type = "END"
  PROVE  /\ Labelled(s2, g2, lo + 1, hi, start) /\ lo < hi
         /\ Reached(s, g, lo, hi) => Reached(s2, g2, lo + 1, hi)
<1>1. /\ Len(s) \in Nat \ {0} /\ Len(s2) = Len(s) - 1
      /\ \A i \in 1 .. Len(s2) : s2[i] = s[i + 1] /\ g2[i] = g[i + 1]
  BY DEF Taken
<1>2. g[1].of = lo /\ Passed(s, g, 1) = lo + 1 /\ lo < hi
  BY <1>1 DEF Labelled, Passed
<1>3. \A i \in 1 .. Len(s2) : Passed(s2, g2, i) = Passed(s, g, i + 1)
  BY <1>1 DEF Passed
<1>4. ASSUME NEW i \in 1 .. Len(s2), s2[i].type # "LEFT"
      PROVE  /\ g2[i].of \in lo + 1 .. hi
             /\ s2[i].type \in {"BEGIN", "END"} => g2[i].of < hi
             /\ s2[i].type = "BEGIN" => s2[i].tick = Wrap(start[g2[i].of + 1])
             /\ g2[i].of = IF i = 1 THEN lo + 1 ELSE Passed(s2, g2, i - 1)
  <2>1. /\ i + 1 \in 1 .. Len(s) /\ s2[i] = s[i + 1] /\ g2[i] = g[i + 1]
        /\ (i + 1) - 1 = i /\ i + 1 # 1 /\ 1 \in 1 .. Len(s) /\ 1 < i + 1
    BY <1>1
  <2>2. /\ g[i + 1].of \in lo .. hi
        /\ s[i + 1].type \in {"BEGIN", "END"} => g[i + 1].of < hi
        /\ s[i + 1].type = "BEGIN" =>
             s[i + 1].tick = Wrap(start[g[i + 1].of + 1])
        /\ g[i + 1].of = Passed(s, g, i)
    BY <1>4, <2>1 DEF Labelled
  <2>3. Passed(s, g, 1) <= g[i + 1].of
    BY <1>4, <2>1 DEF Labelled
  <2>4. g[i + 1].of \in lo + 1 .. hi
    BY <1>2, <2>2, <2>3
  <2>5. i # 1 => i - 1 \in 1 .. Len(s2) /\ (i - 1) + 1 = i
    BY <1>1
  <2>6. i # 1 => Passed(s2, g2, i - 1) = Passed(s, g, i)
    BY <1>3, <2>5
  <2>. QED
    BY <1>2, <2>1, <2>2, <2>4, <2>6
<1>5. ASSUME Reached(s, g, lo, hi)
      PROVE  Reached(s2, g2, lo + 1, hi)
  <2>1. hi = Passed(s, g, Len(s))
    BY <1>1, <1>5 DEF Reached
  <2>2. CASE Len(s) = 1
    BY <1>1, <1>2, <2>1, <2>2 DEF Reached
  <2>3. CASE Len(s) # 1
    <3>1. Len(s2) \in 1 .. Len(s2) /\ Len(s2) + 1 = Len(s) /\ Len(s2) # 0
      BY <1>1, <2>3
    <3>. QED
      BY <1>3, <2>1, <3>1 DEF Reached
  <2>. QED
    BY <2>2, <2>3
<1>6. ASSUME NEW i \in 1 .. Len(s2), NEW j \in 1 .. Len(s2), i < j,
             s2[i].type # "LEFT", s2[j].type # "LEFT"
      PROVE  Passed(s2, g2, i) <= g2[j].of
  <2>1. /\ i + 1 \in 1 .. Len(s) /\ j + 1 \in 1 .. Len(s) /\ i + 1 < j + 1
        /\ s[i + 1].type # "LEFT" /\ s[j + 1].type # "LEFT"
        /\ g2[j] = g[j + 1]
    BY <1>1, <1>6
  <2>2. Passed(s, g, i + 1) <= g[j + 1].of
    BY <2>1 DEF Labelled
  <2>. QED
    BY <1>3, <2>1, <2>2
<1>. QED
  BY <1>2, <1>4, <1>5, <1>6 DEF Labelled

(* Its numbers.                                                            *)
LEMMA EndsTimes ==
  ASSUME NEW k, NEW ch, NEW r, NEW h \in History, NEW k2, NEW ch2,
         NEW h2 \in History, Roomy,
         Fits(k, ch, r, h), Ends(k, ch, h, k2, ch2, h2)
  PROVE  LET e == h.epoch[1] + 1
         IN  /\ e \in Nat /\ e <= h.epoch[0] /\ h.epoch[1] < h.epoch[0]
             /\ h.epoch[1] # h.epoch[0]
             /\ Mark(h2, 0) = Mark(h, 0)
             /\ Mark(h2, 1) \in {First(h, e), First(h, e) + 1}
             /\ \A x : First(h2, x) = First(h, x)
             /\ \A x : Known(h2, 0, x) = Known(h, 0, x)
             /\ \A x \in Nat : x # h.epoch[1] => Known(h2, 1, x) = Known(h, 1, x)
             /\ Ages(h2) /\ Clock(k2[1], h2, 1)
<1>. DEFINE e1 == h.epoch[1]
            e0 == h.epoch[0]
            e == h.epoch[1] + 1
<1>1. 0 \in Seat /\ 1 \in Seat
  BY Seats
<1>2. /\ GuestSpan(k[1], h) /\ Ages(h) /\ Clock(k[1], h, 1) /\ k[1].hold
  BY <1>1 DEF Fits, Ends
<1>3. /\ h2.epoch[0] = e0 /\ h2.epoch[1] = e
      /\ h2.heard[0] = h.heard[0] /\ h2.heard[1] = First(h, e)
      /\ h2.start = h.start /\ h2.last[0] = h.last[0]
      /\ h2.last[1][e] \in {First(h, e), First(h, e) + 1}
      /\ h2.tick[1] = h.start[e]
  BY DEF Ends
<1>4. /\ e0 \in Nat /\ e1 \in Nat /\ e \in Nat
      /\ h.start[e] \in Int /\ Delay \in Nat
  BY <1>1, Typed, Numbers
<1>5. e1 < e0 /\ k[1].resume = Wrap(h.start[e])
  BY <1>2 DEF GuestSpan
<1>6. \A x : First(h2, x) = First(h, x)
  BY <1>3 DEF First
<1>7. /\ Mark(h2, 0) = Mark(h, 0)
      /\ Mark(h2, 1) \in {First(h, e), First(h, e) + 1}
  BY <1>3 DEF Mark
<1>8. \A x : Known(h2, 0, x) = Known(h, 0, x)
  BY <1>3, <1>6 DEF Known
<1>9. \A x \in Nat : x # e1 => Known(h2, 1, x) = Known(h, 1, x)
  BY <1>3, <1>6 DEF Known
<1>10. Ages(h2)
  <2>1. e <= e0 /\ e0 <= e + 2
    BY <1>2, <1>4, <1>5 DEF Ages
  <2>. QED
    BY <1>2, <1>3, <1>6, <1>7, <2>1 DEF Ages
<1>11. Clock(k2[1], h2, 1)
  <2>1. /\ k2[1].tick = Wrap(h.start[e])
        /\ k2[1].wm = Plus(Wrap(h.start[e]), Delay - 1)
        /\ k2[1].epoch = e
    BY <1>2, <1>5 DEF Ends, Clock
  <2>. DEFINE n == Delay - 1
              x == h.start[e]
  <2>2. k2[1].wm = Wrap(x + n)
    <3>1. n \in Int /\ x \in Int /\ k2[1].wm = Plus(Wrap(x), n)
      BY <1>4, <2>1
    <3>. HIDE DEF n, x
    <3>. QED
      BY <3>1, PlusTick
  <2>3. x + n = First(h, e)
    BY <1>4 DEF First
  <2>4. /\ First(h, e) = h.start[e] + Delay - 1
        /\ First(h, e) + 1 = h.start[e] + Delay
        /\ h.start[e] <= h.start[e] /\ First(h, e) <= First(h, e)
        /\ h.start[e] <= First(h, e) + 1
    BY <1>4 DEF First
  <2>5. Mark(h2, 1) \in {h.start[e] + Delay - 1, h.start[e] + Delay}
    BY <1>7, <2>4
  <2>. QED
    BY <1>3, <1>6, <2>1, <2>2, <2>3, <2>4, <2>5 DEF Clock
<1>. QED
  BY <1>4, <1>5, <1>6, <1>7, <1>8, <1>9, <1>10, <1>11

(* The guest's line after it.                                              *)
LEMMA EndsGuest ==
  ASSUME NEW k, NEW ch, NEW r, NEW h \in History, NEW k2, NEW ch2,
         NEW h2 \in History, Roomy,
         Fits(k, ch, r, h), Ends(k, ch, h, k2, ch2, h2)
  PROVE  /\ GuestSpan(k2[1], h2) /\ GuestLine(ch2[1], h2.tag[1], h2)
         /\ r => Reached(ch2[1], h2.tag[1], h2.epoch[1], h2.epoch[0])
<1>. DEFINE s == ch[1]
            g == h.tag[1]
            s2 == ch2[1]
            g2 == h2.tag[1]
            e1 == h.epoch[1]
            e0 == h.epoch[0]
            e == h.epoch[1] + 1
<1>1. 0 \in Seat /\ 1 \in Seat
  BY Seats
<1>2. /\ GuestSpan(k[1], h) /\ Ages(h) /\ GuestLine(s, g, h)
      /\ r => Reached(s, g, e1, e0)
  BY <1>1 DEF Fits, Ends
<1>3. /\ h2.epoch[0] = e0 /\ h2.epoch[1] = e /\ h2.heard[1] = First(h, e)
      /\ h2.start = h.start /\ h2.last[0] = h.last[0]
      /\ Taken(s, g, s2, g2) /\ s[1].type = "END" /\ ~k2[1].hold
  BY DEF Ends
<1>4. /\ e \in Nat /\ e <= e0 /\ e1 < e0
      /\ Mark(h2, 1) \in {First(h, e), First(h, e) + 1}
      /\ \A x : First(h2, x) = First(h, x)
      /\ \A x \in Nat : x # e1 => Known(h2, 1, x) = Known(h, 1, x)
  BY EndsTimes
<1>5. /\ e0 \in Nat /\ e1 \in Nat /\ g \in Tags /\ Delay \in Nat
      /\ First(h, e) \in Int /\ h.start[e] \in Int /\ h.last[0][e] \in Int
      /\ h.last[0][e0] \in Int
  BY <1>1, <1>4, Typed, Numbers
<1>6. GuestSpan(k2[1], h2)
  <2>1. First(h, e) <= h.last[0][e]
    <3>1. CASE e = e0
      <4>1. First(h, e0) <= h.last[0][e0]
        BY <1>2 DEF Ages, Mark
      <4>. QED
        BY <3>1, <4>1
    <3>2. CASE e # e0
      <4>1. e \in 0 .. e0 - 1
        BY <1>4, <1>5, <3>2
      <4>2. First(h, e) < h.last[0][e]
        BY <1>2, <4>1 DEF Ages
      <4>. QED
        BY <1>5, <4>2
    <3>. QED
      BY <3>1, <3>2
  <2>2. h.last[0][e] <= Mark(h2, 1) + Delay + 1
    <3>1. e \in e1 + 1 .. e0
      BY <1>4, <1>5
    <3>2. h.last[0][e] <= h.start[e] + 2 * Delay
      BY <1>2, <3>1 DEF GuestSpan
    <3>3. First(h, e) = h.start[e] + Delay - 1
      BY DEF First
    <3>. QED
      BY <1>4, <1>5, <3>2, <3>3
  <2>3. \A x \in e + 1 .. e0 : h.last[0][x] <= h.start[x] + 2 * Delay
    <3>1. \A x \in e + 1 .. e0 : x \in e1 + 1 .. e0
      BY <1>5
    <3>. QED
      BY <1>2, <3>1 DEF GuestSpan
  <2>. QED
    BY <1>3, <2>1, <2>2, <2>3 DEF GuestSpan
<1>7. /\ Wired(s, g) /\ Sorted(s, g, e1) /\ Labelled(s, g, e1, e0, h.start)
      /\ \A x \in e1 .. e0 : Dated(s, g, x, Known(h, 1, x), h.last[0][x])
  BY <1>2 DEF GuestLine
<1>8. /\ Labelled(s2, g2, e, e0, h.start)
      /\ r => Reached(s2, g2, e, e0)
  <2>1. e = e1 + 1
    OBVIOUS
  <2>. HIDE DEF s, g, s2, g2, e0, e1, e
  <2>. QED
    BY <1>2, <1>3, <1>5, <1>7, <2>1, TakenEnd
<1>9. Wired(s2, g2) /\ Sorted(s2, g2, e)
  <2>1. Wired(s2, g2) /\ Sorted(s2, g2, e1)
    BY <1>3, <1>7, TakenWired, TakenSorted
  <2>2. \A i \in 1 .. Len(s2) : g2[i].of \in Nat
    <3>1. h2.tag[1] \in Tags
      BY <1>1, Typed
    <3>2. \A i \in 1 .. Len(s2) : i \in Nat
      OBVIOUS
    <3>. QED
      BY <3>1, <3>2, TagsType
  <2>3. \A i \in 1 .. Len(s2) : g2[i].of >= e => g2[i].of >= e1
    <3>. SUFFICES ASSUME NEW i \in 1 .. Len(s2), g2[i].of >= e
                  PROVE  g2[i].of >= e1
      OBVIOUS
    <3>. DEFINE x == g2[i].of
    <3>1. x \in Nat /\ x >= e
      BY <2>2
    <3>. HIDE DEF x
    <3>2. x >= e1
      BY <1>5, <3>1
    <3>. QED
      BY <3>2 DEF x
  <2>. QED
    BY <2>1, <2>3 DEF Sorted
<1>10. ASSUME NEW x \in e .. e0
       PROVE  Dated(s2, g2, x, Known(h2, 1, x), h.last[0][x])
  <2>1. x \in e1 .. e0 /\ x \in Nat /\ x # e1
    BY <1>5
  <2>2. Dated(s, g, x, Known(h, 1, x), h.last[0][x])
    BY <1>7, <2>1
  <2>3. Dated(s2, g2, x, Known(h, 1, x), h.last[0][x])
    BY <1>3, <1>7, <2>2, TakenDated
  <2>. QED
    BY <1>4, <2>1, <2>3
<1>11. GuestLine(s2, g2, h2)
  BY <1>3, <1>8, <1>9, <1>10 DEF GuestLine
<1>. QED
  BY <1>3, <1>6, <1>8, <1>11

(* The host's.                                                             *)
LEMMA EndsHost ==
  ASSUME NEW k, NEW ch, NEW r, NEW h \in History, NEW k2, NEW ch2,
         NEW h2 \in History, Roomy,
         Fits(k, ch, r, h), Ends(k, ch, h, k2, ch2, h2), ~k2[0].dropped
  PROVE  /\ Clock(k2[0], h2, 0) /\ Records(k2[0], h2)
         /\ HostSpan(k2, h2) /\ HostLine(k2, ch2[0], h2.tag[0], h2)
<1>. DEFINE s == ch[0]
            g == h.tag[0]
            e1 == h.epoch[1]
            e0 == h.epoch[0]
            e == h.epoch[1] + 1
            b == Bit(k[0].pend)
            H == h.heard[0]
            F == First(h, e)
            M == Mark(h2, 1)
<1>1. 0 \in Seat /\ 1 \in Seat
  BY Seats
<1>2. /\ h2.epoch[0] = e0 /\ h2.epoch[1] = e /\ h2.heard[0] = H
      /\ h2.start = h.start /\ h2.last[0] = h.last[0]
      /\ h2.tick[0] = h.tick[0] /\ k2[0] = k[0] /\ ~k[0].dropped
      /\ ch2[0] = s /\ h2.tag[0] = g /\ ~k2[1].pend
      /\ \A x \in Nat : x # e => h2.last[1][x] = h.last[1][x]
  BY DEF Ends
<1>3. /\ Ages(h) /\ Clock(k[0], h, 0) /\ Records(k[0], h)
      /\ HostSpan(k, h) /\ HostLine(k, s, g, h)
  BY <1>1, <1>2 DEF Fits
<1>4. /\ e \in Nat /\ e <= e0 /\ e1 < e0
      /\ Mark(h2, 0) = Mark(h, 0)
      /\ M \in {F, F + 1}
      /\ \A x : First(h2, x) = First(h, x)
  BY EndsTimes
<1>5. /\ e0 \in Nat /\ e1 \in Nat /\ g \in Tags /\ Delay \in Nat
      /\ \A x \in Nat : First(h, x) \in Int /\ h.start[x] \in Int
      /\ F \in Int /\ H \in Int /\ Mark(h, 0) \in Int /\ ResumeAhead \in Nat
      /\ Reach \in Nat
  BY <1>1, <1>4, Typed, Numbers DEF Reach
<1>6. Clock(k2[0], h2, 0) /\ Records(k2[0], h2)
  BY <1>2, <1>3, <1>4 DEF Clock, Records
<1>7. \A x, y : Behindhand(h2, x, y) = Behindhand(h, x, y)
  BY <1>2, <1>4 DEF Behindhand
<1>8. H = First(h, e0)
  BY <1>3, <1>4 DEF HostSpan, Behindhand
<1>9. M \in Int /\ (e0 = e => H <= M /\ M <= Mark(h, 0) + Delay + 1)
  <2>1. First(h, e0) <= Mark(h, 0)
    BY <1>3 DEF Ages
  <2>. HIDE DEF H, F, M
  <2>. QED
    BY <1>4, <1>5, <1>8, <2>1 DEF F
<1>10. e < e0 => Behindhand(h2, M, e)
  <2>. SUFFICES ASSUME e < e0
                PROVE  Behindhand(h2, M, e)
    OBVIOUS
  <2>1. e0 = e + 1 /\ e \in e1 + 1 .. e0 - 1 /\ e \in 0 .. e0 - 1
    BY <1>3, <1>4, <1>5 DEF Ages
  <2>2. h.start[e0] <= h.start[e] + Reach
    BY <1>3, <2>1 DEF HostSpan
  <2>3. First(h, e0) = h.start[e0] + Delay - 1 /\ F = h.start[e] + Delay - 1
    BY DEF First
  <2>4. First(h, e0) = h.last[0][e] + ResumeAhead
    BY <1>3, <2>1, Resumed
  <2>5. F < h.last[0][e]
    BY <1>3, <2>1 DEF Ages
  <2>6. h.last[0][e] \in Int
    BY <1>1, <1>4, Typed
  <2>7. H - Reach <= M /\ M <= H
    <3>. HIDE DEF H, F, M
    <3>1. h.start[e] \in Int /\ h.start[e0] \in Int
      BY <1>4, <1>5
    <3>. QED
      BY <1>4, <1>5, <1>8, <2>2, <2>3, <2>4, <2>5, <2>6, <3>1
  <2>8. Lag(e0 - e) = Reach
    BY <2>1, <1>4 DEF Lag
  <2>. QED
    BY <1>2, <1>4, <1>8, <2>7, <2>8 DEF Behindhand
<1>11. HostSpan(k2, h2)
  <2>1. b \in {0, 1} /\ Bit(k2[0].pend) = b
    BY <1>2 DEF Bit
  <2>2. e0 + b <= e1 + 2
    BY <1>3 DEF HostSpan
  <2>3. e0 + b <= e + 2 /\ e0 + b <= e + 1
    BY <1>5, <2>1, <2>2
  <2>4. \A x \in e + 1 .. e0 - 1 : h.start[x + 1] <= h.start[x] + Reach
    <3>1. \A x \in e + 1 .. e0 - 1 : x \in e1 + 1 .. e0 - 1
      BY <1>5
    <3>. QED
      BY <1>3, <3>1 DEF HostSpan
  <2>. QED
    BY <1>2, <1>4, <1>9, <1>10, <2>1, <2>3, <2>4 DEF HostSpan
<1>12. \A i \in 1 .. Len(s) : s[i].type # "LEFT" => g[i].of <= e1 /\ g[i].of \in Nat
  <2>1. \A i \in 1 .. Len(s) : g[i].of \in Nat
    <3>1. \A i \in 1 .. Len(s) : i \in Nat
      OBVIOUS
    <3>. QED
      BY <1>5, <3>1, TagsType
  <2>. QED
    BY <1>3, <2>1 DEF HostLine, Alarms
<1>13. Alarms(k2, s, g, h2)
  <2>. SUFFICES ASSUME NEW i \in 1 .. Len(s), s[i].type # "LEFT"
                PROVE  /\ s[i].type \in {"INPUT", "CRC", "REQ"}
                       /\ g[i].of <= e /\ e0 + b <= g[i].of + 2
                       /\ s[i].type = "REQ" =>
                            /\ e0 + b <= g[i].of + 1
                            /\ g[i].of = e /\ ~k2[1].dropped => k2[1].pend
                       /\ s[i].type = "CRC" =>
                            /\ s[i].tick = Wrap(g[i].at - Delay)
                            /\ CrcDue(s[i].tick)
                       /\ g[i].of < e0 /\ s[i].type # "REQ" =>
                            Behindhand(h2, g[i].at, g[i].of)
    BY <1>2 DEF Alarms
  <2>1. g[i].of <= e1 /\ g[i].of \in Nat
    BY <1>12
  <2>2. g[i].of <= e /\ g[i].of # e
    <3>. DEFINE x == g[i].of
    <3>1. x \in Nat /\ x <= e1 /\ e1 \in Nat /\ e = e1 + 1
      BY <1>5, <2>1
    <3>. HIDE DEF x, e, e1
    <3>2. x <= e /\ x # e
      BY <3>1
    <3>. QED
      BY <3>2 DEF x
  <2>3. /\ s[i].type \in {"INPUT", "CRC", "REQ"}
        /\ e0 + b <= g[i].of + 2
        /\ s[i].type = "REQ" => e0 + b <= g[i].of + 1
        /\ s[i].type = "CRC" =>
             /\ s[i].tick = Wrap(g[i].at - Delay)
             /\ CrcDue(s[i].tick)
        /\ g[i].of < e0 /\ s[i].type # "REQ" =>
             Behindhand(h, g[i].at, g[i].of)
    BY <1>3 DEF HostLine, Alarms
  <2>. QED
    BY <1>7, <2>2, <2>3
<1>14. Dated(s, g, e0, H, h2.last[1][e0])
  <2>1. ASSUME NEW i \in 1 .. Len(s), s[i].type \in {"INPUT", "CRC"}
        PROVE  g[i].of # e0
    <3>. DEFINE x == g[i].of
    <3>1. s[i].type # "LEFT"
      BY <2>1
    <3>2. x \in Nat /\ x <= e1 /\ e1 \in Nat /\ e1 < e0 /\ e0 \in Nat
      BY <1>4, <1>5, <1>12, <3>1
    <3>. HIDE DEF x, e1, e0
    <3>3. x # e0
      BY <3>2
    <3>. QED
      BY <3>3 DEF x
  <2>. QED
    BY <2>1 DEF Dated
<1>15. HostLine(k2, s, g, h2)
  BY <1>2, <1>3, <1>13, <1>14 DEF HostLine
<1>. QED
  BY <1>2, <1>6, <1>11, <1>15

(* The rings of both are idle there, but for what the host sampled since.  *)
LEMMA EndsAgree ==
  ASSUME NEW k, NEW ch, NEW r, NEW h \in History, NEW k2, NEW ch2,
         NEW h2 \in History, Roomy,
         Fits(k, ch, r, h), Ends(k, ch, h, k2, ch2, h2), ~k2[0].dropped
  PROVE  /\ \A c \in Seat : Agree(k2, ch2[c], h2.tag[c], r, h2, c)
         /\ Fresh(k2, h2)
<1>. DEFINE e1 == h.epoch[1]
            e0 == h.epoch[0]
            e == h.epoch[1] + 1
            M == Mark(h2, 1)
            F == First(h, e0)
<1>1. /\ 0 \in Seat /\ 1 \in Seat /\ Peer(0) = 1 /\ Peer(1) = 0
      /\ \A c \in Seat : c = 0 \/ c = 1
  BY Seats
<1>2. /\ h2.epoch[0] = e0 /\ h2.epoch[1] = e /\ h2.heard[0] = h.heard[0]
      /\ h2.heard[1] = First(h, e)
      /\ k2[0] = k[0] /\ ~k[0].dropped /\ ~k[1].dropped
      /\ ch2[0] = ch[0] /\ h2.tag[0] = h.tag[0]
      /\ k2[1].ring = IdleRings
      /\ Taken(ch[1], h.tag[1], ch2[1], h2.tag[1]) /\ ch[1][1].type = "END"
  BY DEF Ends
<1>3. /\ HostSpan(k, h) /\ HostLine(k, ch[0], h.tag[0], h)
      /\ GuestLine(ch[1], h.tag[1], h) /\ Ages(h)
      /\ Agree(k, ch[1], h.tag[1], r, h, 1) /\ Fresh(k, h)
  BY <1>1, <1>2 DEF Fits
<1>4. /\ e \in Nat /\ e <= e0 /\ e1 < e0 /\ e1 # e0
      /\ M \in {First(h, e), First(h, e) + 1}
      /\ Mark(h2, 0) = Mark(h, 0)
      /\ \A x : First(h2, x) = First(h, x)
      /\ \A x : Known(h2, 0, x) = Known(h, 0, x)
      /\ \A x \in Nat : x # e1 => Known(h2, 1, x) = Known(h, 1, x)
  BY EndsTimes
<1>5. /\ e0 \in Nat /\ e1 \in Nat /\ h.tag[1] \in Tags /\ h.tag[0] \in Tags
      /\ F \in Int /\ Mark(h, 0) \in Int /\ First(h, e) \in Int
      /\ PageSize \in Nat
      /\ h.last[0][e0] \in Int /\ Known(h, 1, e0) \in Int
  BY <1>1, <1>4, Typed, Numbers
<1>6. \A x \in Seat, t \in Int : IdleRings[x][Cell(t)] = Idle
  BY CellType DEF IdleRings
<1>7. /\ k[0].ring[1] = IdleRings[1]
      /\ \A t \in Mark(h, 0) - PageSize + 1 .. F : k[0].ring[0][Cell(t)] = Idle
  BY <1>3, <1>4 DEF Fresh
<1>8. h.heard[0] = F /\ Known(h, 1, e0) = F /\ Known(h, 0, e0) = F
  BY <1>3, <1>4 DEF HostSpan, Behindhand, Known
<1>9. Skip(k, h, 0) = {}
  BY <1>4 DEF Skip
<1>10. Agree(k2, ch2[0], h2.tag[0], r, h2, 0)
  <2>. DEFINE s == ch[0]
              g == h.tag[0]
  <2>1. \A i \in 1 .. Len(s) : s[i].type = "INPUT" => g[i].of # e0
    <3>. SUFFICES ASSUME NEW i \in 1 .. Len(s), s[i].type = "INPUT"
                  PROVE  g[i].of # e0
      OBVIOUS
    <3>1. i \in Nat /\ s[i].type # "LEFT"
      OBVIOUS
    <3>2. g[i].of <= e1
      BY <1>3, <3>1 DEF HostLine, Alarms
    <3>. DEFINE x == g[i].of
    <3>3. x \in Nat /\ x <= e1
      BY <1>5, <3>1, <3>2, TagsType
    <3>. HIDE DEF x, e1, e0
    <3>4. x # e0
      BY <1>4, <1>5, <3>3
    <3>. QED
      BY <3>4 DEF x
  <2>2. Told(s, g, e0, k2[1].ring[1])
    BY <2>1 DEF Told
  <2>3. Gapless(s, g, e0, F, Skip(k2, h2, 1))
    BY <2>1 DEF Gapless
  <2>4. e = e0 => Covered(s, g, e0, F, M, Len(s), Skip(k2, h2, 1))
    <3>. SUFFICES ASSUME e = e0, NEW t \in F + 1 .. M
                  PROVE  t \in Skip(k2, h2, 1)
      BY DEF Covered
    <3>1. t \in Int
      BY <1>4, <1>5
    <3>2. \A c \in Seat : k2[c].ring[1][Cell(t)] = Idle
      BY <1>1, <1>2, <1>6, <1>7, <3>1
    <3>. QED
      BY <1>2, <3>1, <3>2 DEF Skip
  <2>5. \A t \in Int : Alike(k2, 1, t)
    BY <1>1, <1>2, <1>6, <1>7 DEF Alike
  <2>6. M \in Int /\ \A t \in M - PageSize + 1 .. h2.heard[0] : t \in Int
    BY <1>4, <1>5
  <2>7. Known(h2, 0, e0) = F
    BY <1>4, <1>8
  <2>8. h2.heard[1] = First(h, e) /\ h2.epoch[0] = e0
    BY <1>2
  <2>. HIDE DEF M, F
  <2>. QED
    BY <1>1, <1>2, <2>2, <2>3, <2>4, <2>5, <2>6, <2>7 DEF Agree, M
<1>11. Agree(k2, ch2[1], h2.tag[1], r, h2, 1)
  <2>. DEFINE s == ch[1]
              g == h.tag[1]
              s2 == ch2[1]
              g2 == h2.tag[1]
              hi == h.last[0][e0]
              S == Skip(k2, h2, 0)
              X == Mark(h, 0)
  <2>1. /\ Told(s, g, e0, k[0].ring[0]) /\ Gapless(s, g, e0, F, {})
        /\ r => Covered(s, g, e0, F, X, Len(s), {})
    BY <1>1, <1>3, <1>8, <1>9 DEF Agree
  <2>2. Dated(s, g, e0, F, hi)
    <3>1. e0 \in e1 .. e0
      BY <1>4, <1>5
    <3>. QED
      BY <1>3, <1>8, <3>1 DEF GuestLine
  <2>3. Known(h2, 1, e0) = F
    BY <1>4, <1>5, <1>8
  <2>4. Told(s2, g2, e0, k2[0].ring[0])
    BY <1>2, <2>1, TakenTold
  <2>5. s[1].type # "INPUT" /\ Taken(s, g, s2, g2)
    BY <1>2
  <2>6. Gapless(s2, g2, e0, F, S)
    <3>. DEFINE Z == {}
    <3>1. F <= F /\ hi \in Int /\ F \in Int /\ g \in Tags
      BY <1>5
    <3>2. /\ \A t \in F + 1 .. hi : t \in Z => t \in S
          /\ s[1].type = "INPUT" /\ g[1].of = e0 => g[1].at \notin F + 1 .. hi
          /\ Gapless(s, g, e0, F, Z)
      BY <2>1, <2>5
    <3>. HIDE DEF s, g, s2, g2, e0, F, hi, S, Z
    <3>. QED
      BY <2>2, <2>5, <3>1, <3>2, TakenGapless
  <2>7. r => Covered(s2, g2, e0, F, X, Len(s2), S)
    <3>. SUFFICES ASSUME r
                  PROVE  Covered(s2, g2, e0, F, X, Len(s2), S)
      OBVIOUS
    <3>1. /\ F <= F /\ X \in Int /\ Covered(s, g, e0, F, X, Len(s), {})
      BY <1>5, <2>1
    <3>2. Len(s) \in 1 .. Len(s) /\ Len(s2) = Len(s) - 1
      BY <1>2 DEF Taken
    <3>. HIDE DEF s, g, s2, g2, e0, F, X, S
    <3>3. Covered(s2, g2, e0, F, X, Len(s) - 1, S)
      BY <1>5, <2>5, <3>1, <3>2, TakenCovered
    <3>. QED
      BY <3>2, <3>3
  <2>8. ASSUME e = e0, NEW t \in X - PageSize + 1 .. First(h, e)
        PROVE  Alike(k2, 0, t)
    <3>1. t \in X - PageSize + 1 .. F
      BY <2>8
    <3>2. t \in Int
      BY <1>5, <3>1
    <3>3. k[0].ring[0][Cell(t)] = Idle
      BY <1>7, <3>1
    <3>4. k2[1].ring[0][Cell(t)] = Idle
      BY <1>1, <1>2, <1>6, <3>2
    <3>. QED
      BY <1>2, <3>3, <3>4 DEF Alike
  <2>9. Mark(h2, 0) = X
    BY <1>4
  <2>. HIDE DEF X, F
  <2>. QED
    BY <1>1, <1>2, <2>3, <2>4, <2>6, <2>7, <2>8, <2>9 DEF Agree
<1>12. Fresh(k2, h2)
  BY <1>2, <1>4, <1>7 DEF Fresh
<1>. QED
  BY <1>1, <1>10, <1>11, <1>12

(* An END read leaves a state its history fits.                            *)
LEMMA EndsFits ==
  ASSUME NEW k, NEW ch, NEW r, NEW h \in History, NEW k2, NEW ch2,
         NEW h2 \in History, Roomy,
         Fits(k, ch, r, h), Ends(k, ch, h, k2, ch2, h2)
  PROVE  Fits(k2, ch2, r, h2)
<1>1. Ages(h2) /\ Clock(k2[1], h2, 1)
  BY EndsTimes
<1>2. /\ GuestSpan(k2[1], h2) /\ GuestLine(ch2[1], h2.tag[1], h2)
      /\ r => Reached(ch2[1], h2.tag[1], h2.epoch[1], h2.epoch[0])
  BY EndsGuest
<1>3. ~k2[0].dropped =>
        /\ Clock(k2[0], h2, 0) /\ Records(k2[0], h2)
        /\ HostSpan(k2, h2) /\ HostLine(k2, ch2[0], h2.tag[0], h2)
  BY EndsHost
<1>4. ~k2[0].dropped =>
        /\ \A c \in Seat : Agree(k2, ch2[c], h2.tag[c], r, h2, c)
        /\ Fresh(k2, h2)
  BY EndsAgree
<1>5. \A c \in Seat : ~k2[c].dropped => Clock(k2[c], h2, c)
  BY <1>1, <1>3, Seats
<1>. QED
  BY <1>1, <1>2, <1>3, <1>4, <1>5 DEF Fits

-----------------------------------------------------------------------------
(* The guest goes into the hold of a push.                                 *)
Holds(k, h, k2) ==
  LET m == k[1]
      n == k2[1]
  IN  /\ ~m.dropped /\ k2[0] = k[0] /\ h.epoch[1] < h.epoch[0]
      /\ n.dropped = m.dropped /\ n.tick = m.tick /\ n.wm = m.wm
      /\ n.epoch = m.epoch /\ n.ring = m.ring /\ n.pend = m.pend
      /\ n.resume = Wrap(h.start[h.epoch[1] + 1])

(* A hold entered leaves a state the same history fits.                    *)
LEMMA HoldsFits ==
  ASSUME NEW k, NEW ch, NEW r, NEW h \in History, NEW k2,
         Fits(k, ch, r, h), Holds(k, h, k2)
  PROVE  Fits(k2, ch, r, h)
<1>1. /\ 0 \in Seat /\ 1 \in Seat /\ \A x \in Seat : x = 0 \/ x = 1
      /\ \A x \in Seat : Peer(x) \in Seat
  BY Seats
<1>2. /\ k2[0] = k[0] /\ ~k[1].dropped
      /\ \A x \in Seat : /\ k2[x].ring = k[x].ring /\ k2[x].tick = k[x].tick
                         /\ k2[x].dropped = k[x].dropped
                         /\ k2[x].wm = k[x].wm /\ k2[x].epoch = k[x].epoch
                         /\ k2[x].pend = k[x].pend
  BY <1>1 DEF Holds
<1>3. /\ Ages(h)
      /\ \A c \in Seat : ~k2[c].dropped => Clock(k2[c], h, c)
  BY <1>2 DEF Fits, Clock
<1>4. /\ GuestSpan(k2[1], h) /\ GuestLine(ch[1], h.tag[1], h)
      /\ r => Reached(ch[1], h.tag[1], h.epoch[1], h.epoch[0])
  <2>1. /\ GuestSpan(k[1], h) /\ GuestLine(ch[1], h.tag[1], h)
        /\ r => Reached(ch[1], h.tag[1], h.epoch[1], h.epoch[0])
    BY <1>2 DEF Fits
  <2>2. GuestSpan(k2[1], h)
    BY <2>1 DEF GuestSpan, Holds
  <2>. QED
    BY <2>1, <2>2
<1>5. ~k2[0].dropped =>
        /\ HostSpan(k2, h) /\ HostLine(k2, ch[0], h.tag[0], h)
        /\ Records(k2[0], h)
  <2>. SUFFICES ASSUME ~k[0].dropped
                PROVE  /\ HostSpan(k2, h) /\ HostLine(k2, ch[0], h.tag[0], h)
                       /\ Records(k2[0], h)
    BY <1>2
  <2>1. /\ HostSpan(k, h) /\ HostLine(k, ch[0], h.tag[0], h)
        /\ Records(k[0], h)
    BY DEF Fits
  <2>2. HostSpan(k2, h)
    BY <1>1, <1>2, <2>1 DEF HostSpan
  <2>3. \A s, g : Alarms(k, s, g, h) => Alarms(k2, s, g, h)
    BY <1>1, <1>2 DEF Alarms
  <2>4. HostLine(k2, ch[0], h.tag[0], h)
    BY <2>1, <2>3 DEF HostLine
  <2>. QED
    BY <1>2, <2>1, <2>2, <2>4
<1>6. ~k2[0].dropped /\ ~k2[1].dropped =>
        /\ \A c \in Seat : Agree(k2, ch[c], h.tag[c], r, h, c)
        /\ Fresh(k2, h)
  <2>. SUFFICES ASSUME ~k[0].dropped, ~k[1].dropped
                PROVE  /\ \A c \in Seat : Agree(k2, ch[c], h.tag[c], r, h, c)
                       /\ Fresh(k2, h)
    BY <1>1, <1>2
  <2>1. /\ \A c \in Seat : Agree(k, ch[c], h.tag[c], r, h, c)
        /\ Fresh(k, h)
    BY DEF Fits
  <2>2. /\ \A p, t : Alike(k2, p, t) = Alike(k, p, t)
        /\ \A p : Skip(k2, h, p) = Skip(k, h, p)
    BY <1>1, <1>2 DEF Alike, Skip
  <2>3. \A c \in Seat : k2[Peer(c)].ring = k[Peer(c)].ring
    BY <1>1, <1>2
  <2>4. \A c \in Seat : Agree(k2, ch[c], h.tag[c], r, h, c)
    BY <2>1, <2>2, <2>3 DEF Agree
  <2>5. Fresh(k2, h)
    BY <1>2, <2>1 DEF Fresh
  <2>. QED
    BY <2>4, <2>5
<1>. QED
  BY <1>3, <1>4, <1>5, <1>6 DEF Fits

(* A console drops out; what happens to it and its line does not matter.   *)
LEMMA DropsFits ==
  ASSUME NEW k, NEW ch, NEW r, NEW h \in History, NEW c \in Seat,
         NEW k2, NEW ch2, Fits(k, ch, r, h), k2[c].dropped,
         k2[Peer(c)] = k[Peer(c)], ch2[Peer(c)] = ch[Peer(c)]
  PROVE  Fits(k2, ch2, r, h)
<1>1. /\ 0 \in Seat /\ 1 \in Seat /\ c \in {0, 1}
      /\ Peer(0) = 1 /\ Peer(1) = 0 /\ \A x \in Seat : x = c \/ x = Peer(c)
  BY Seats
<1>2. /\ Ages(h)
      /\ \A x \in Seat : ~k2[x].dropped => Clock(k2[x], h, x)
  BY <1>1 DEF Fits
<1>3. ~k2[1].dropped =>
        /\ GuestSpan(k2[1], h) /\ GuestLine(ch2[1], h.tag[1], h)
        /\ r => Reached(ch2[1], h.tag[1], h.epoch[1], h.epoch[0])
  BY <1>1 DEF Fits
<1>4. ~k2[0].dropped =>
        /\ HostSpan(k2, h) /\ HostLine(k2, ch2[0], h.tag[0], h)
        /\ Records(k2[0], h)
  <2>. SUFFICES ASSUME ~k2[0].dropped
                PROVE  /\ HostSpan(k2, h) /\ HostLine(k2, ch2[0], h.tag[0], h)
                       /\ Records(k2[0], h)
    OBVIOUS
  <2>1. c = 1 /\ k2[0] = k[0] /\ ch2[0] = ch[0] /\ k2[1].dropped
    BY <1>1
  <2>2. /\ HostSpan(k, h) /\ HostLine(k, ch[0], h.tag[0], h)
        /\ Records(k[0], h)
    BY <2>1 DEF Fits
  <2>3. HostSpan(k2, h)
    BY <2>1, <2>2 DEF HostSpan
  <2>4. Alarms(k2, ch[0], h.tag[0], h)
    BY <2>1, <2>2 DEF HostLine, Alarms
  <2>. QED
    BY <2>1, <2>2, <2>3, <2>4 DEF HostLine
<1>. QED
  BY <1>1, <1>2, <1>3, <1>4 DEF Fits

(* The relay gives up: the lines are cut, one ends in a LEFT.              *)
Cut(s, s2, n) ==
  /\ Len(s) \in Nat /\ n \in 0 .. Len(s) /\ Len(s2) \in {n, n + 1}
  /\ \A i \in 1 .. n : s2[i] = s[i]
  /\ \A i \in 1 .. Len(s2) : i > n => s2[i].type = "LEFT"

(* A room lost leaves a state the same history fits.                       *)
LEMMA CutsFits ==
  ASSUME NEW k, NEW ch, NEW r, NEW h \in History, NEW ch2,
         Fits(k, ch, r, h), \A c \in Seat : \E n : Cut(ch[c], ch2[c], n)
  PROVE  Fits(k, ch2, FALSE, h)
<1>1. 0 \in Seat /\ 1 \in Seat
  BY Seats
<1>2. ASSUME NEW c \in Seat
      PROVE  LET s == ch[c]
                 g == h.tag[c]
                 s2 == ch2[c]
             IN  /\ Wired(s, g) => Wired(s2, g)
                 /\ \A m : Sorted(s, g, m) => Sorted(s2, g, m)
                 /\ \A e, lo, hi : Dated(s, g, e, lo, hi) =>
                      Dated(s2, g, e, lo, hi)
                 /\ \A e, ring : Told(s, g, e, ring) => Told(s2, g, e, ring)
                 /\ \A e, lo, skip : Gapless(s, g, e, lo, skip) =>
                      Gapless(s2, g, e, lo, skip)
                 /\ \A i \in 1 .. Len(s2) : s2[i].type # "LEFT" =>
                      /\ i \in 1 .. Len(s)
                      /\ \A j \in 1 .. i : s2[j] = s[j] /\ j \in 1 .. Len(s)
  <2>. DEFINE s == ch[c]
              g == h.tag[c]
              s2 == ch2[c]
  <2>1. PICK n : Cut(s, s2, n)
    OBVIOUS
  <2>2. Kept(s, g, s2, g, n)
    BY <2>1 DEF Cut, Kept
  <2>3. \A i \in 1 .. Len(s2) : s2[i].type # "LEFT" =>
          /\ i \in 1 .. Len(s)
          /\ \A j \in 1 .. i : s2[j] = s[j] /\ j \in 1 .. Len(s)
    BY <2>1 DEF Cut
  <2>4. \A e, lo, skip : Gapless(s, g, e, lo, skip) => Gapless(s2, g, e, lo, skip)
    BY <2>2, KeptGapless
  <2>. HIDE DEF s, g, s2
  <2>5. /\ Wired(s, g) => Wired(s2, g)
        /\ \A m : Sorted(s, g, m) => Sorted(s2, g, m)
        /\ \A e, lo, hi : Dated(s, g, e, lo, hi) => Dated(s2, g, e, lo, hi)
        /\ \A e, ring : Told(s, g, e, ring) => Told(s2, g, e, ring)
    BY <2>2, KeptLine
  <2>. QED
    BY <2>3, <2>4, <2>5 DEF s, g, s2
<1>3. ~k[1].dropped => GuestSpan(k[1], h) /\ GuestLine(ch2[1], h.tag[1], h)
  <2>. SUFFICES ASSUME ~k[1].dropped
                PROVE  GuestSpan(k[1], h) /\ GuestLine(ch2[1], h.tag[1], h)
    OBVIOUS
  <2>. DEFINE s == ch[1]
              g == h.tag[1]
              s2 == ch2[1]
              e1 == h.epoch[1]
              e0 == h.epoch[0]
  <2>1. GuestSpan(k[1], h) /\ GuestLine(s, g, h)
    BY DEF Fits
  <2>2. /\ Wired(s2, g) /\ Sorted(s2, g, e1)
        /\ \A e \in e1 .. e0 : Dated(s2, g, e, Known(h, 1, e), h.last[0][e])
    BY <1>1, <1>2, <2>1 DEF GuestLine
  <2>3. \A i \in 1 .. Len(s2) : s2[i].type # "LEFT" =>
          /\ i \in 1 .. Len(s)
          /\ \A j \in 1 .. i : s2[j] = s[j] /\ j \in 1 .. Len(s)
    BY <1>1, <1>2
  <2>4. Labelled(s, g, e1, e0, h.start)
    BY <2>1 DEF GuestLine
  <2>5. Labelled(s2, g, e1, e0, h.start)
    <3>1. ASSUME NEW i \in 1 .. Len(s2), s2[i].type # "LEFT"
          PROVE  /\ g[i].of \in e1 .. e0
                 /\ s2[i].type \in {"BEGIN", "END"} => g[i].of < e0
                 /\ s2[i].type = "BEGIN" =>
                      s2[i].tick = Wrap(h.start[g[i].of + 1])
                 /\ g[i].of = IF i = 1 THEN e1 ELSE Passed(s2, g, i - 1)
      <4>1. /\ i \in 1 .. Len(s) /\ s2[i] = s[i]
            /\ i # 1 => s2[i - 1] = s[i - 1]
        <5>1. /\ i \in 1 .. Len(s)
              /\ \A j \in 1 .. i : s2[j] = s[j] /\ j \in 1 .. Len(s)
          BY <2>3, <3>1
        <5>2. i \in 1 .. i /\ (i # 1 => i - 1 \in 1 .. i)
          OBVIOUS
        <5>. QED
          BY <5>1, <5>2
      <4>2. i # 1 => Passed(s2, g, i - 1) = Passed(s, g, i - 1)
        BY <4>1 DEF Passed
      <4>3. /\ g[i].of \in e1 .. e0
            /\ s[i].type \in {"BEGIN", "END"} => g[i].of < e0
            /\ s[i].type = "BEGIN" => s[i].tick = Wrap(h.start[g[i].of + 1])
            /\ g[i].of = IF i = 1 THEN e1 ELSE Passed(s, g, i - 1)
        BY <2>4, <3>1, <4>1 DEF Labelled
      <4>. QED
        BY <4>1, <4>2, <4>3
    <3>2. ASSUME NEW i \in 1 .. Len(s2), NEW j \in 1 .. Len(s2), i < j,
                 s2[i].type # "LEFT", s2[j].type # "LEFT"
          PROVE  Passed(s2, g, i) <= g[j].of
      <4>1. /\ i \in 1 .. Len(s) /\ j \in 1 .. Len(s)
            /\ s2[i] = s[i] /\ s2[j] = s[j]
        <5>1. i \in 1 .. i /\ j \in 1 .. j
          OBVIOUS
        <5>. QED
          BY <2>3, <3>2, <5>1
      <4>2. Passed(s, g, i) <= g[j].of
        BY <2>4, <3>2, <4>1 DEF Labelled
      <4>. QED
        BY <4>1, <4>2 DEF Passed
    <3>. QED
      BY <3>1, <3>2 DEF Labelled
  <2>. QED
    BY <2>1, <2>2, <2>5 DEF GuestLine
<1>4. ~k[0].dropped =>
        /\ HostSpan(k, h) /\ HostLine(k, ch2[0], h.tag[0], h)
        /\ Records(k[0], h)
  <2>. SUFFICES ASSUME ~k[0].dropped
                PROVE  /\ HostSpan(k, h) /\ HostLine(k, ch2[0], h.tag[0], h)
                       /\ Records(k[0], h)
    OBVIOUS
  <2>. DEFINE s == ch[0]
              g == h.tag[0]
              s2 == ch2[0]
  <2>1. HostSpan(k, h) /\ HostLine(k, s, g, h) /\ Records(k[0], h)
    BY DEF Fits
  <2>2. /\ Wired(s2, g) /\ Sorted(s2, g, h.epoch[0])
        /\ Dated(s2, g, h.epoch[0], h.heard[0], h.last[1][h.epoch[0]])
    BY <1>1, <1>2, <2>1 DEF HostLine
  <2>3. \A i \in 1 .. Len(s2) : s2[i].type # "LEFT" =>
          i \in 1 .. Len(s) /\ s2[i] = s[i]
    <3>1. \A i \in 1 .. Len(s2) : i \in 1 .. i
      OBVIOUS
    <3>. QED
      BY <1>1, <1>2, <3>1
  <2>4. Alarms(k, s2, g, h)
    BY <2>1, <2>3 DEF HostLine, Alarms
  <2>5. Ranked(s2, g)
    BY <2>1, <2>3 DEF HostLine, Ranked
  <2>. QED
    BY <2>1, <2>2, <2>4, <2>5 DEF HostLine
<1>5. ~k[0].dropped /\ ~k[1].dropped =>
        /\ \A c \in Seat : Agree(k, ch2[c], h.tag[c], FALSE, h, c)
        /\ Fresh(k, h)
  <2>. SUFFICES ASSUME ~k[0].dropped, ~k[1].dropped
                PROVE  /\ \A c \in Seat :
                            Agree(k, ch2[c], h.tag[c], FALSE, h, c)
                       /\ Fresh(k, h)
    OBVIOUS
  <2>1. /\ \A c \in Seat : Agree(k, ch[c], h.tag[c], r, h, c)
        /\ Fresh(k, h)
    BY DEF Fits
  <2>2. ASSUME NEW c \in Seat
        PROVE  Agree(k, ch2[c], h.tag[c], FALSE, h, c)
    BY <1>2, <2>1 DEF Agree
  <2>. QED
    BY <2>1, <2>2
<1>. QED
  BY <1>3, <1>4, <1>5 DEF Fits

-----------------------------------------------------------------------------
(* What comes of a gate that opens: the tick kept, or the host's push.     *)
Kept1(m, n) ==
  /\ n.tick = Plus(m.tick, 1) /\ n.wm = m.wm /\ n.epoch = m.epoch
  /\ n.ring = m.ring /\ n.pend = m.pend /\ n.hold = m.hold
  /\ n.resume = m.resume
  /\ \A x \in CrcSlots : n.crc[x] = m.crc[x] \/ n.crc[x].t = m.tick

Pushed(m, n) ==
  /\ m.pend /\ ~m.hold
  /\ n.tick = Plus(Plus(m.tick, 1), ResumeAhead)
  /\ n.wm = Plus(n.tick, Delay - 1) /\ n.epoch = m.epoch + 1
  /\ n.ring = IdleRings /\ ~n.pend /\ ~n.hold /\ n.crc = NoCrc

Report(m) == [type |-> "CRC", tick |-> m.tick, sum |-> Cksum(m.world)]
Reported(c, m, ch) ==
  IF CrcDue(m.tick) THEN Sent(ch, c, <<Report(m)>>) ELSE ch

Still(m, n) == n.world = m.world /\ n.applied = m.applied

(* Freeze, thaw and the head of a pass change the place and phases only.   *)
LEMMA FreezeLooks ==
  ASSUME NEW m \in Console
  PROVE  /\ Same(m, Freeze(m)) /\ Same(m, Unfreeze(m))
         /\ Still(m, Freeze(m)) /\ Still(m, Unfreeze(m))
BY DEF Freeze, Unfreeze, Console, Same, Looks, Still

(* A pass goes on to the pump, into a hold, or stays on the terminal       *)
(* screen.                                                                 *)
LEMMA PassLooks ==
  ASSUME NEW m \in Console
  PROVE  /\ Same(m, Pass(m)) /\ Still(m, Pass(m))
         /\ m.dropped => Pass(m).pc = "parked"
         /\ Pass(m).pc # "stall"
<1>1. /\ Freeze(m) \in Console /\ Same(m, Freeze(m))
      /\ Still(m, Freeze(m))
  BY FreezeType, FreezeLooks
<1>2. DEFINE a == [Freeze(m) EXCEPT !.pc = "parked"]
             b == [Freeze(m) EXCEPT !.pc = "hold", !.begun = FALSE]
             d == [m EXCEPT !.pc = "pump", !.begun = FALSE]
<1>3. Same(Freeze(m), a) /\ Still(Freeze(m), a) /\ a.pc = "parked"
  BY <1>1 DEF Console, Same, Looks, Still
<1>4. Same(Freeze(m), b) /\ Still(Freeze(m), b) /\ b.pc = "hold"
  BY <1>1 DEF Console, Same, Looks, Still
<1>5. Same(m, d) /\ Still(m, d) /\ d.pc = "pump"
  BY DEF Console, Same, Looks, Still
<1>6. Same(m, a) /\ Same(m, b) /\ Still(m, a) /\ Still(m, b)
  BY <1>1, <1>3, <1>4 DEF Same, Looks, Still
<1>7. Pass(m) = IF m.dropped THEN a ELSE IF m.hold THEN b ELSE d
  BY DEF Pass
<1>. HIDE DEF a, b, d
<1>. QED
  BY <1>3, <1>4, <1>5, <1>6, <1>7

(* The game state and what was recorded of it.                             *)
Leaves(m, n) ==
  /\ n.world = m.world
  /\ n.hold => m.hold /\ n.applied = m.applied
  /\ \A x \in CrcSlots : \/ n.crc[x] = m.crc[x]
                         \/ n.crc[x].t = TickSpan - 1
                         \/ n.crc[x].sum = Cksum(m.world)

Outcome(c, m, ch, n) ==
  /\ con' = [con EXCEPT ![c] = n] /\ n.dropped = m.dropped /\ Leaves(m, n)
  /\ \/ /\ ~Open(m) /\ n.pc = "stall" /\ Same(m, n) /\ chan' = ch
     \/ /\ Open(m) /\ n.pc # "stall"
        /\ m.dropped => n.pc = "parked"
        /\ \/ Kept1(m, n) /\ chan' = Reported(c, m, ch)
           \/ /\ Pushed(m, n) /\ c = Host
              /\ \E x \in Console :
                   /\ x.resume = n.tick /\ x.world = m.world
                   /\ chan' = Sent(Reported(c, m, ch), c, PushFrames(x))

(* The gate of a tick: it stays shut, or the tick is run and kept, with a  *)
(* report where one is due, or the host pushes.                            *)
LEMMA GateOutcome ==
  ASSUME TypeOK, NEW c \in Seat, NEW m \in Console, NEW ch, Gate(c, m, ch)
  PROVE  \E n \in Console : Outcome(c, m, ch, n)
<1>1. CASE ~Open(m)
  <2>. DEFINE n == [Freeze(m) EXCEPT !.pc = "stall", !.begun = FALSE]
  <2>1. con' = [con EXCEPT ![c] = n] /\ chan' = ch
    BY <1>1 DEF Gate
  <2>2. Freeze(m) \in Console /\ Same(m, Freeze(m)) /\ Still(m, Freeze(m))
    BY FreezeType, FreezeLooks
  <2>3. /\ n \in Console /\ n.pc = "stall" /\ Same(Freeze(m), n)
        /\ Still(Freeze(m), n)
    BY <2>2 DEF Console, Same, Looks, Still
  <2>4. Same(m, n) /\ Still(m, n)
    BY <2>2, <2>3 DEF Same, Looks, Still
  <2>. HIDE DEF n
  <2>5. n.dropped = m.dropped /\ Leaves(m, n)
    BY <2>4 DEF Same, Looks, Still, Leaves
  <2>. QED
    BY <1>1, <2>1, <2>3, <2>4, <2>5 DEF Outcome
<1>2. CASE Open(m)
  <2>. DEFINE ran == Unfreeze(m)
              reported == IF CrcDue(m.tick) THEN RecordCrc(ran) ELSE ran
              d == [reported EXCEPT !.tick = Plus(m.tick, 1)]
              net == Reported(c, m, ch)
              waited == [d EXCEPT !.ptmo = @ + 1]
              held == [EnterHold(waited) EXCEPT
                         !.resume = Plus(d.tick, ResumeAhead)]
              back == Rebase(held)
  <2>1. ran \in Console /\ Same(m, ran) /\ Still(m, ran)
    BY UnfreezeType, FreezeLooks
  <2>2. /\ reported \in Console
        /\ reported.dropped = m.dropped /\ reported.wm = m.wm
        /\ reported.epoch = m.epoch /\ reported.ring = m.ring
        /\ reported.pend = m.pend /\ reported.hold = m.hold
        /\ reported.resume = m.resume /\ Still(m, reported)
        /\ \A x \in CrcSlots :
             reported.crc[x] = m.crc[x] \/ reported.crc[x].t = m.tick
        /\ \A x \in CrcSlots : \/ reported.crc[x] = m.crc[x]
                               \/ reported.crc[x].sum = Cksum(m.world)
    <3>1. RecordCrc(ran) \in Console
      BY <2>1, RecordCrcType
    <3>2. /\ RecordCrc(ran).dropped = ran.dropped
          /\ RecordCrc(ran).wm = ran.wm
          /\ RecordCrc(ran).epoch = ran.epoch
          /\ RecordCrc(ran).ring = ran.ring
          /\ RecordCrc(ran).pend = ran.pend
          /\ RecordCrc(ran).hold = ran.hold
          /\ RecordCrc(ran).resume = ran.resume
          /\ RecordCrc(ran).world = ran.world
          /\ RecordCrc(ran).applied = ran.applied
          /\ \A x \in CrcSlots : \/ RecordCrc(ran).crc[x] = ran.crc[x]
                                 \/ /\ RecordCrc(ran).crc[x].t = ran.tick
                                    /\ RecordCrc(ran).crc[x].sum
                                         = Cksum(ran.world)
      <4>. HIDE DEF ran
      <4>. QED
        BY <2>1 DEF RecordCrc, Console
    <3>. QED
      BY <2>1, <3>1, <3>2 DEF Same, Looks, Still
  <2>. HIDE DEF ran, reported
  <2>3. Plus(m.tick, 1) \in Tick
    BY PlusType DEF Console, Tick
  <2>4. /\ d \in Console /\ d.dropped = m.dropped /\ d.wm = m.wm
        /\ d.epoch = m.epoch /\ d.ring = m.ring /\ d.pend = m.pend
        /\ d.hold = m.hold /\ d.resume = m.resume /\ Still(m, d)
        /\ d.crc = reported.crc /\ d.tick = Plus(m.tick, 1)
    BY <2>2, <2>3 DEF Console, Still
  <2>5. Pending(c, d, net)
    BY <1>2 DEF Gate, RunTick, Reported, Report, ran, reported
  <2>. HIDE DEF d, net
  <2>6. waited \in Console /\ Same(d, waited) /\ Still(d, waited)
    <3>1. d.ptmo + 1 \in Nat
      BY <2>4 DEF Console
    <3>. QED
      BY <2>4, <3>1 DEF Console, Same, Looks, Still
  <2>7. \A y \in Console : Same(d, y) /\ Still(d, y) =>
          Kept1(m, Pass(y)) /\ Pass(y) \in Console /\ Leaves(m, Pass(y))
    <3>. SUFFICES ASSUME NEW y \in Console, Same(d, y), Still(d, y)
                  PROVE  /\ Kept1(m, Pass(y)) /\ Pass(y) \in Console
                         /\ Leaves(m, Pass(y))
      OBVIOUS
    <3>1. Pass(y) \in Console /\ Same(y, Pass(y)) /\ Still(y, Pass(y))
      BY PassType, PassLooks
    <3>2. /\ \A x \in CrcSlots : d.crc[x] = m.crc[x] \/ d.crc[x].t = m.tick
          /\ \A x \in CrcSlots : \/ d.crc[x] = m.crc[x]
                                 \/ d.crc[x].sum = Cksum(m.world)
      BY <2>2, <2>4
    <3>3. Leaves(m, Pass(y))
      BY <2>4, <3>1, <3>2 DEF Same, Looks, Leaves, Still
    <3>. QED
      BY <2>4, <3>1, <3>2, <3>3 DEF Same, Looks, Kept1
  <2>8. CASE /\ m.pend /\ c = Host /\ ~m.hold
             /\ con' = [con EXCEPT ![c] = Pass(back)]
             /\ chan' = Sent(net, c, PushFrames(held))
    <3>1. Plus(d.tick, ResumeAhead) \in Tick
      <4>1. d.tick \in Int /\ ResumeAhead \in Int
        BY <2>4, SizeAssumption DEF Console, Tick
      <4>. QED
        BY <4>1, PlusType
    <3>2. EnterHold(waited) \in Console /\ EnterHold(waited).pend = d.pend
          /\ EnterHold(waited).epoch = d.epoch
          /\ EnterHold(waited).dropped = d.dropped
          /\ EnterHold(waited).world = d.world
      <4>1. EnterHold(waited) \in Console
        BY <2>6, EnterHoldType
      <4>. HIDE DEF waited
      <4>. QED
        BY <2>6, <4>1 DEF EnterHold, Console, Same, Looks, Still
    <3>3. /\ held \in Console /\ held.epoch = d.epoch
          /\ held.dropped = d.dropped /\ held.world = m.world
          /\ held.resume = Plus(d.tick, ResumeAhead)
      BY <2>4, <3>1, <3>2 DEF Console, Still
    <3>. HIDE DEF held
    <3>4. /\ back \in Console /\ back.tick = held.resume
          /\ back.wm = Plus(back.tick, Delay - 1)
          /\ back.epoch = held.epoch + 1 /\ back.ring = IdleRings
          /\ ~back.pend /\ ~back.hold /\ back.crc = NoCrc
          /\ back.dropped = held.dropped /\ back.world = held.world
      BY ZenonT(40), <3>3, RebaseType DEF Rebase, Console
    <3>. HIDE DEF back
    <3>5. /\ Pass(back) \in Console /\ Same(back, Pass(back))
          /\ Still(back, Pass(back))
          /\ back.dropped => Pass(back).pc = "parked"
          /\ Pass(back).pc # "stall"
      BY <3>4, PassType, PassLooks
    <3>6. Pushed(m, Pass(back))
      BY <2>4, <2>8, <3>3, <3>4, <3>5 DEF Pushed, Same, Looks
    <3>7. /\ Pass(back).dropped = m.dropped
          /\ m.dropped => Pass(back).pc = "parked"
          /\ Pass(back).tick = held.resume
      BY <2>4, <3>3, <3>4, <3>5 DEF Same, Looks
    <3>8. Leaves(m, Pass(back))
      <4>1. \A x \in CrcSlots : NoCrc[x].t = TickSpan - 1
        BY DEF NoCrc
      <4>. QED
        BY <3>3, <3>4, <3>5, <4>1 DEF Same, Looks, Still, Leaves
    <3>9. Outcome(c, m, ch, Pass(back))
      BY <1>2, <2>8, <3>3, <3>5, <3>6, <3>7, <3>8, Zenon DEF net, Outcome
    <3>. QED
      BY <3>5, <3>9
  <2>9. ASSUME NEW y \in Console, Same(d, y), Still(d, y),
               con' = [con EXCEPT ![c] = Pass(y)], chan' = net
        PROVE  \E n \in Console : Outcome(c, m, ch, n)
    <3>1. /\ Kept1(m, Pass(y)) /\ Pass(y) \in Console
          /\ Leaves(m, Pass(y))
      BY <2>7, <2>9
    <3>2. /\ Pass(y).dropped = m.dropped
          /\ m.dropped => Pass(y).pc = "parked"
          /\ Pass(y).pc # "stall"
      BY <2>4, <2>9, PassLooks DEF Same, Looks
    <3>3. Outcome(c, m, ch, Pass(y))
      BY <1>2, <2>9, <3>1, <3>2 DEF net, Outcome
    <3>. QED
      BY <3>1, <3>3
  <2>10. Same(d, d) /\ Still(d, d)
    BY DEF Same, Looks, Still
  <2>11. \/ con' = [con EXCEPT ![c] = Pass(waited)] /\ chan' = net
         \/ con' = [con EXCEPT ![c] = Pass(d)] /\ chan' = net
         \/ /\ m.pend /\ c = Host /\ ~m.hold
            /\ con' = [con EXCEPT ![c] = Pass(back)]
            /\ chan' = Sent(net, c, PushFrames(held))
    BY <2>4, <2>5 DEF Pending
  <2>. HIDE DEF waited, held, back
  <2>. QED
    BY <2>4, <2>6, <2>8, <2>9, <2>10, <2>11, Zenon
<1>. QED
  BY <1>1, <1>2
=============================================================================
