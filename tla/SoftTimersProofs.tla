-------------------------- MODULE SoftTimersProofs --------------------------
(***************************************************************************)
(* The CH570 soft timers, proved: SlotInvariant is inductive, and from it  *)
(* NeverEarly, Covered and ClockContinuous follow for any slots, delays,   *)
(* periods, word and register widths that DistanceAssumption admits: delays*)
(* longer than the end register holds among them.                          *)
(*                                                                         *)
(* Deadlines and the clock are words, and only their difference means      *)
(* something.  Two words are Alike when they differ by whole turns, and a  *)
(* distance under half a turn is what Signed reads (SignedIs).  That every *)
(* distance the scheduler meets is one is itself part of the invariant:    *)
(* none is far ahead (NotFar), none being further than a delay, and none   *)
(* is far behind (Punctual), since a slot that is late lets no caller      *)
(* re-arm the timer and every callback until it has run disarms a slot.    *)
(*                                                                         *)
(* An interval that the end register cut short ends early, and the clock   *)
(* then runs ahead to the deadline it was armed for (Skipped).  It passes  *)
(* no other deadline, the timer being armed to the nearest (Aimed), unless *)
(* the timer goes on from interval to interval in a dispatch that no call  *)
(* has re-armed yet; the slots it then passes are late by what was cut     *)
(* (Overrun), and each callback of that dispatch disarms one (Undisturbed).*)
(*                                                                         *)
(* A call is summarised by Called, a step of the interrupt by Kept: what   *)
(* both leave is a timer that is Sound, and the distance of every slot     *)
(* that waited and still waits.  One lemma for each summary then shows     *)
(* that the step keeps the invariant.                                      *)
(***************************************************************************)
EXTENDS SoftTimers, FiniteSetTheorems, WellFoundedInduction, TLAPS
-----------------------------------------------------------------------------
(* Remainders *)

LEMMA Quotient ==
  ASSUME NEW m \in Nat \ {0}, NEW x \in Int
  PROVE  /\ x % m \in 0 .. m - 1
         /\ x \div m \in Int
         /\ x = m * (x \div m) + (x % m)
OBVIOUS

LEMMA Unique ==
  ASSUME NEW m \in Nat \ {0}, NEW q \in Int, NEW k \in Int,
         NEW d \in 0 .. m - 1, NEW e \in 0 .. m - 1, m * q + d = m * k + e
  PROVE  d = e
<1>1. m * (q - k) = e - d
  OBVIOUS
<1>2. CASE q = k
  BY <1>1, <1>2
<1>3. CASE q > k
  <2>1. PICK j \in Nat : q - k = 1 + j
    <3>1. q - k - 1 \in Nat /\ q - k = 1 + (q - k - 1)
      BY <1>3
    <3> QED BY <3>1
  <2>2. m * (q - k) = m + m * j /\ m * j \in Nat
    BY <2>1
  <2> QED BY <1>1, <2>2
<1>4. CASE q < k
  <2>1. PICK j \in Nat : k - q = 1 + j
    <3>1. k - q - 1 \in Nat /\ k - q = 1 + (k - q - 1)
      BY <1>4
    <3> QED BY <3>1
  <2>2. m * (k - q) = m + m * j /\ m * j \in Nat
    BY <2>1
  <2>3. m * (k - q) = d - e
    OBVIOUS
  <2> QED BY <2>2, <2>3
<1> QED BY <1>2, <1>3, <1>4

\* A remainder may be taken before an addition or after it.
LEMMA PlusRemainder ==
  ASSUME NEW m \in Nat \ {0}, NEW x \in Int, NEW y \in Int
  PROVE  ((x % m) + y) % m = (x + y) % m
<1> DEFINE r == (x % m) + y
           z == x + y
<1>1. x % m \in 0 .. m - 1 /\ x \div m \in Int /\ x = m * (x \div m) + (x % m)
  BY Quotient
<1>2. r \in Int /\ z \in Int /\ r = (x % m) + y /\ z = x + y
  BY <1>1
<1> HIDE DEF r, z
<1>3. r % m \in 0 .. m - 1 /\ r \div m \in Int /\ r = m * (r \div m) + (r % m)
  BY <1>2, Quotient
<1>4. z % m \in 0 .. m - 1 /\ z \div m \in Int /\ z = m * (z \div m) + (z % m)
  BY <1>2, Quotient
<1>5. \A a, b, c, d, e, f \in Int :
         x = m * a + b /\ r = b + y /\ r = m * c + d /\ z = x + y /\ z = m * e + f
            => m * (c + a) + d = m * e + f
  BY <1>2
<1>6. m * ((r \div m) + (x \div m)) + (r % m) = m * (z \div m) + (z % m)
  BY <1>1, <1>2, <1>3, <1>4, <1>5
<1>7. (r \div m) + (x \div m) \in Int
  BY <1>1, <1>3
<1>8. r % m = z % m
  BY <1>3, <1>4, <1>6, <1>7, Unique
<1> QED BY <1>8 DEF r, z

-----------------------------------------------------------------------------
(* Words that mean the same distance *)

Half == Mod \div 2
Alike(x, y) == x % Mod = y % Mod

LEMMA Halves ==
  /\ Mod \in Nat \ {0} /\ Half \in Nat /\ Quarter \in Nat /\ HwMod \in Nat \ {0}
  /\ 2 * Half <= Mod /\ Mod <= 2 * Half + 1 /\ 2 * Quarter <= Half
  /\ HwMod <= Quarter
<1>1. Mod \in Nat \ {0} /\ HwMod \in Nat \ {0}
  BY SoftTimersAssumption
<1>2. /\ Half \in Int /\ Mod = 2 * Half + (Mod % 2) /\ Mod % 2 \in 0 .. 1
  BY <1>1, Quotient DEF Half
<1>3. /\ Quarter \in Int /\ Mod = 4 * Quarter + (Mod % 4) /\ Mod % 4 \in 0 .. 3
  BY <1>1, Quotient DEF Quarter
<1>4. HwMod <= Quarter
  BY DistanceAssumption
<1> QED BY <1>1, <1>2, <1>3, <1>4

LEMMA AlikeWord ==
  ASSUME NEW x \in Int
  PROVE  x % Mod \in 0 .. Mod - 1 /\ x % Mod \in Int /\ Alike(x % Mod, x)
<1> DEFINE d == x % Mod
<1>1. d \in 0 .. Mod - 1 /\ d \in Int
  BY Halves, Quotient
<1> HIDE DEF d
<1>2. d % Mod = d
  BY <1>1, Halves
<1> QED BY <1>1, <1>2 DEF Alike, d

LEMMA AlikePlus ==
  ASSUME NEW x \in Int, NEW y \in Int, NEW z \in Int, Alike(x, y)
  PROVE  Alike(x + z, y + z)
<1>1. ((x % Mod) + z) % Mod = (x + z) % Mod
  BY Halves, PlusRemainder
<1>2. ((y % Mod) + z) % Mod = (y + z) % Mod
  BY Halves, PlusRemainder
<1> QED BY <1>1, <1>2 DEF Alike

LEMMA AlikeMinus ==
  ASSUME NEW x \in Int, NEW y \in Int, NEW z \in Int, Alike(x, y)
  PROVE  Alike(z - x, z - y)
<1> DEFINE w == z - x - y
<1>1. w \in Int /\ x + w = z - y /\ y + w = z - x
  OBVIOUS
<1> HIDE DEF w
<1>2. Alike(x + w, y + w)
  BY <1>1, AlikePlus
<1> QED BY <1>1, <1>2 DEF Alike

LEMMA AlikeSigned ==
  ASSUME NEW x \in Int
  PROVE  /\ Signed(x) \in Int /\ -Half - 1 <= Signed(x) /\ Signed(x) < Half
         /\ Alike(Signed(x), x)
<1> DEFINE d == x % Mod
<1>1. d \in 0 .. Mod - 1 /\ d \in Int /\ Alike(d, x)
  BY AlikeWord
<1>2. Signed(x) = IF d < Half THEN d ELSE d - Mod
  BY DEF Signed, Half
<1> HIDE DEF d
<1>3. Alike(d - Mod, d)
  <2>1. (d - Mod) % Mod = d
    BY <1>1, Halves
  <2>2. d % Mod = d
    BY <1>1, Halves
  <2> QED BY <2>1, <2>2 DEF Alike
<1>4. Signed(x) \in Int /\ -Half - 1 <= Signed(x) /\ Signed(x) < Half
  BY <1>1, <1>2, Halves
<1> QED BY <1>1, <1>2, <1>3, <1>4 DEF Alike

\* A distance of less than half a word is what the word is read as.
LEMMA SignedIs ==
  ASSUME NEW x \in Int, NEW y \in Int, Alike(x, y), -Half <= y, y < Half
  PROVE  Signed(x) = y
<1>1. CASE 0 <= y
  <2>1. y % Mod = y
    BY <1>1, Halves
  <2> QED BY <2>1 DEF Signed, Alike, Half
<1>2. CASE y < 0
  <2>1. y % Mod = y + Mod
    BY <1>2, Halves
  <2>2. ~(y + Mod < Half) /\ (y + Mod) - Mod = y
    BY Halves
  <2> QED BY <2>1, <2>2 DEF Signed, Alike, Half
<1> QED BY <1>1, <1>2

LEMMA SignedAlike ==
  ASSUME NEW x, NEW y, Alike(x, y)
  PROVE  Signed(x) = Signed(y)
BY DEF Signed, Alike

-----------------------------------------------------------------------------
(* The constants *)

LEMMA Bounds ==
  /\ MinDelta \in Nat \ {0} /\ MaxWait \in Nat \ {0} /\ MaxLate \in Nat \ {0}
  /\ Runaway \in Nat \ {0}
  /\ Cardinality(Slots) \in Nat /\ Cardinality(Slots) <= Runaway
BY SoftTimersAssumption, DistanceAssumption, FS_CardinalityType

LEMMA SmallestIs ==
  ASSUME NEW S \in SUBSET Nat, S # {}
  PROVE  Smallest(S) \in S /\ \A y \in S : Smallest(S) <= y
<1> DEFINE R == {ss \in Nat \X Nat : ss[1] < ss[2]}
<1>0. IsWellFoundedOn(R, Nat)
  BY NatLessThanWellFounded DEF OpToRel
<1>1. PICK x \in S : \A y \in S : ~(<<y, x>> \in R)
  <2> HIDE DEF R
  <2> QED BY <1>0, WFMin
<1>2. \A y \in S : x <= y
  <2> TAKE y \in S
  <2>1. ~(y < x)
    BY <1>1
  <2> QED BY <2>1
<1> QED BY <1>2 DEF Smallest

\* The least of the numbers that no member of S exceeds
Bounding(S) == Smallest({b \in Nat : \A x \in S : x <= b})

LEMMA BoundingIs ==
  ASSUME NEW S \in SUBSET Nat, NEW b \in Nat, \A x \in S : x <= b
  PROVE  Bounding(S) \in Nat /\ Bounding(S) <= b /\ \A x \in S : x <= Bounding(S)
<1> DEFINE B == {c \in Nat : \A x \in S : x <= c}
<1>1. B \in SUBSET Nat /\ b \in B
  OBVIOUS
<1>2. Smallest(B) \in B /\ \A c \in B : Smallest(B) <= c
  BY <1>1, SmallestIs
<1> QED BY <1>1, <1>2 DEF Bounding

\* The longest cycle of the timer that is not the wait for a deadline: the floor,
\* or a period of the grid with its stretch; and the furthest a deadline can be
Longest  == Bounding(Cycles)
Furthest == Bounding(Delays \cup {MinDelta})

LEMMA CycleFits ==
  /\ Longest \in Nat /\ Furthest \in Nat
  /\ MaxLate + 3 * MaxWait + Longest + Furthest < Quarter
  /\ MinDelta < HwMod /\ MinDelta <= Longest /\ MinDelta <= Furthest
  /\ \A d \in Delays : d \in Nat /\ d <= Furthest
  /\ \A p \in Periods, f \in Nudges \cup {0} :
       /\ f \in Nat
       /\ Larger(p, MinDelta) \in Nat \ {0}
       /\ Larger(p, MinDelta) + f < HwMod
       /\ Larger(p, MinDelta) + f <= Longest
<1> DEFINE W == Delays \cup {MinDelta}
           q == Quarter - MaxLate - 3 * MaxWait - 1
<1>1. MinDelta \in Cycles /\ \A p \in Periods, f \in Nudges \cup {0} : Larger(p, MinDelta) + f \in Cycles
  BY DEF Cycles
<1>2. \A p \in Periods, f \in Nudges \cup {0} : f \in Nat /\ Larger(p, MinDelta) \in Nat \ {0}
  BY SoftTimersAssumption DEF Larger
<1>3. Cycles \in SUBSET Nat /\ W \in SUBSET Nat /\ MinDelta \in W /\ MinDelta \in Nat
  <2>1. MinDelta \in Nat /\ Delays \subseteq Nat
    BY Bounds, SoftTimersAssumption
  <2>2. \A p \in Periods, f \in Nudges \cup {0} : Larger(p, MinDelta) + f \in Nat
    BY <1>2
  <2>3. Cycles \subseteq Nat
    BY <2>1, <2>2 DEF Cycles
  <2> QED BY <2>1, <2>3
<1>4. ASSUME NEW c \in Cycles, NEW d \in W PROVE c < HwMod /\ c <= q - d
  <2>1. c < HwMod /\ MaxLate + 3 * MaxWait + c + d < Quarter /\ c \in Nat /\ d \in Nat
    BY <1>3, DistanceAssumption
  <2> QED BY <2>1, Halves, Bounds
<1>5. q \in Int
  BY Halves, Bounds
<1> HIDE DEF W, q
<1>6. ASSUME NEW d \in W
      PROVE  Longest \in Nat /\ d <= q - Longest /\ \A c \in Cycles : c <= Longest
  <2>1. q - d \in Nat
    <3>1. MinDelta <= q - d /\ d \in Nat
      BY <1>1, <1>3, <1>4
    <3> QED BY <1>3, <1>5, <3>1
  <2>2. Longest \in Nat /\ Longest <= q - d /\ \A c \in Cycles : c <= Longest
    BY <1>3, <1>4, <2>1, BoundingIs DEF Longest
  <2> QED BY <1>3, <1>5, <2>2
<1>7. Furthest \in Nat /\ Furthest <= q - Longest /\ \A d \in W : d <= Furthest
  <2>1. q - Longest \in Nat
    <3>1. MinDelta <= q - Longest /\ Longest \in Nat
      BY <1>3, <1>6
    <3> QED BY <1>3, <1>5, <3>1
  <2> QED BY <1>3, <1>6, <2>1, BoundingIs DEF Furthest, W
<1>8. MaxLate + 3 * MaxWait + Longest + Furthest < Quarter
  <2>1. Longest \in Nat
    BY <1>3, <1>6
  <2> QED BY <1>7, <2>1, Halves, Bounds DEF q
<1>9. MinDelta < HwMod /\ MinDelta <= Longest /\ MinDelta <= Furthest
  BY <1>1, <1>3, <1>6, <1>7, DistanceAssumption
<1>10. ASSUME NEW p \in Periods, NEW f \in Nudges \cup {0}
       PROVE  Larger(p, MinDelta) + f < HwMod /\ Larger(p, MinDelta) + f <= Longest
  BY <1>1, <1>3, <1>4, <1>6
<1>11. \A d \in Delays : d \in Nat /\ d <= Furthest
  BY <1>7, SoftTimersAssumption DEF W
<1> QED BY <1>2, <1>3, <1>6, <1>7, <1>8, <1>9, <1>10, <1>11

-----------------------------------------------------------------------------
(* Distances *)

\* Moving the epoch moves the clock and every deadline by as much.
LEMMA Rebased ==
  ASSUME NEW a \in Int, NEW b \in Int, NEW n \in Int
  PROVE  /\ Signed(((a - n) % Mod) - (b - n)) = Signed(a - b)
         /\ Signed(((a - n) % Mod) - ((b - n) % Mod)) = Signed(a - b)
<1> DEFINE x == (a - n) % Mod
           y == (b - n) % Mod
<1>1. x \in Int /\ Alike(x, a - n) /\ y \in Int /\ Alike(y, b - n)
  BY AlikeWord
<1> HIDE DEF x, y
<1>2. Alike(x - (b - n), a - b)
  <2> DEFINE p == a - n
             z == -(b - n)
  <2>1. p \in Int /\ z \in Int /\ Alike(x, p) /\ x + z = x - (b - n) /\ p + z = a - b
    BY <1>1
  <2> HIDE DEF p, z
  <2>2. Alike(x + z, p + z)
    BY <1>1, <2>1, AlikePlus
  <2> QED BY <2>1, <2>2
<1>3. Alike(x - y, x - (b - n))
  BY <1>1, AlikeMinus
<1>4. Alike(x - y, a - b)
  BY <1>2, <1>3 DEF Alike
<1> QED BY <1>2, <1>4, SignedAlike DEF x, y

\* The clock goes on from b to c.
LEMMA Moved ==
  ASSUME NEW a \in Int, NEW b \in Int, NEW c \in Int,
         -Half <= Signed(a - b) + b - c, Signed(a - b) + b - c < Half
  PROVE  /\ Signed(a - c) = Signed(a - b) + b - c
         /\ Signed(a - (c % Mod)) = Signed(a - b) + b - c
<1> DEFINE r == Signed(a - b)
           w == c % Mod
<1>1. r \in Int /\ Alike(r, a - b) /\ w \in Int /\ Alike(w, c)
  BY AlikeSigned, AlikeWord
<1> HIDE DEF r, w
<1>2. Alike(r + b - c, a - c)
  <2> DEFINE p == a - b
             z == b - c
  <2>1. p \in Int /\ z \in Int /\ Alike(r, p) /\ r + z = r + b - c /\ p + z = a - c
    BY <1>1
  <2> HIDE DEF p, z
  <2>2. Alike(r + z, p + z)
    BY <1>1, <2>1, AlikePlus
  <2> QED BY <2>1, <2>2
<1>3. r + b - c \in Int
  BY <1>1
<1>4. Alike(a - c, r + b - c) /\ Alike(a - w, a - c)
  BY <1>1, <1>2, AlikeMinus DEF Alike
<1>5. Alike(a - w, r + b - c)
  BY <1>4 DEF Alike
<1>6. -Half <= r + b - c /\ r + b - c < Half
  BY DEF r
<1>7. Signed(a - c) = r + b - c /\ Signed(a - w) = r + b - c
  BY <1>1, <1>3, <1>4, <1>5, <1>6, SignedIs
<1> QED BY <1>7 DEF r, w

\* Two deadlines compare as their distances do.
LEMMA Compared ==
  ASSUME NEW a \in Int, NEW b \in Int, NEW c \in Int,
         -Half <= Signed(a - c) - Signed(b - c), Signed(a - c) - Signed(b - c) < Half
  PROVE  Signed(a - b) = Signed(a - c) - Signed(b - c)
<1> DEFINE x == Signed(a - c)
           y == Signed(b - c)
<1>1. x \in Int /\ Alike(x, a - c) /\ y \in Int /\ Alike(y, b - c)
  BY AlikeSigned
<1> HIDE DEF x, y
<1>4. x - y \in Int
  BY <1>1
<1>5. Alike(a - b, x - y)
  <2> DEFINE p == a - c
             v == b - c
             z == -y
  <2>1. /\ p \in Int /\ v \in Int /\ z \in Int /\ Alike(x, p) /\ Alike(y, v)
        /\ x + z = x - y /\ p + z = p - y /\ p - v = a - b
    BY <1>1
  <2> HIDE DEF p, v, z
  <2>2. Alike(x + z, p + z)
    BY <1>1, <2>1, AlikePlus
  <2>3. Alike(p - y, p - v)
    BY <1>1, <2>1, AlikeMinus
  <2> QED BY <2>1, <2>2, <2>3 DEF Alike
<1>6. -Half <= x - y /\ x - y < Half
  BY DEF x, y
<1>7. Signed(a - b) = x - y
  BY <1>4, <1>5, <1>6, SignedIs
<1> QED BY <1>7 DEF x, y

\* A deadline d ahead of the clock is read d ahead.
LEMMA SetAhead ==
  ASSUME NEW b \in Int, NEW d \in Nat, d < Half
  PROVE  Signed(((b + d) % Mod) - b) = d
<1> DEFINE x == (b + d) % Mod
<1>1. x \in Int /\ Alike(x, b + d)
  BY AlikeWord
<1> HIDE DEF x
<1>2. Alike(x - b, d)
  <2> DEFINE p == b + d
             z == -b
  <2>1. p \in Int /\ z \in Int /\ Alike(x, p) /\ x + z = x - b /\ p + z = d
    BY <1>1
  <2> HIDE DEF p, z
  <2>2. Alike(x + z, p + z)
    BY <1>1, <2>1, AlikePlus
  <2> QED BY <2>1, <2>2
<1>3. x - b \in Int
  BY <1>1
<1>4. Signed(x - b) = d
  BY <1>2, <1>3, Halves, SignedIs
<1> QED BY <1>4 DEF x

-----------------------------------------------------------------------------
(* The timer *)

Words  == 0 .. Mod - 1
TmType == [active : SUBSET Slots, deadline : [Slots -> Words], armed : Nat,
           owner : Cadence \cup {None}, period : Nat, since : Words, req : Nat,
           applied : Nat, on : BOOLEAN, count : Nat, end : Nat, flag : BOOLEAN]

\* While the grid runs the timer reloads at its period, stretched or not; in
\* one-shot mode it runs whenever a slot is armed, to what the end register keeps
\* of the interval the clock will be moved by.
Limit(t)    == IF t.end = 0 THEN HwMod ELSE t.end
Counting(t) == t.on /\ t.count < Limit(t) /\ t.end < HwMod
Sound(t) ==
  IF t.owner = None
    THEN /\ t.active # {} => t.on
         /\ t.on => /\ Counting(t) /\ t.end = t.armed % HwMod
                    /\ 1 <= t.armed /\ t.armed <= Furthest
    ELSE /\ t.owner \in t.active /\ Counting(t)
         /\ t.end = t.period + t.applied /\ {t.req, t.applied} \subseteq Nudges \cup {0}
         /\ \E p \in Periods : t.period = Larger(p, MinDelta)

\* The register holds the interval, or less of it by the width of the register.
LEMMA CutWord ==
  ASSUME NEW m \in Nat \ {0}, NEW a \in Nat, 1 <= a
  PROVE  /\ a % m \in 0 .. m - 1 /\ a % m <= a
         /\ a = m \/ m + m <= a \/ a % m # 0
         /\ a = a % m \/ (a % m) + m <= a
<1> DEFINE e == a % m
           k == a \div m
<1>1. e \in 0 .. m - 1 /\ k \in Int /\ a = m * k + e
  BY Quotient
<1> HIDE DEF e, k
<1>2. CASE k < 0
  <2>1. PICK j \in Nat : k = -1 - j
    <3>1. -1 - k \in Nat /\ k = -1 - (-1 - k)
      BY <1>1, <1>2
    <3> QED BY <3>1
  <2>2. m * k = -m - m * j /\ m * j \in Nat
    BY <2>1
  <2> QED BY <1>1, <2>2
<1>3. CASE k = 0
  <2>1. a = e
    BY <1>1, <1>3
  <2> QED BY <1>1, <2>1 DEF e
<1>4. CASE k = 1
  <2>1. a = m + e
    BY <1>1, <1>4
  <2>2. e <= a /\ e + m <= a /\ (a = m \/ e # 0)
    BY <1>1, <2>1
  <2> QED BY <1>1, <2>2 DEF e
<1>5. CASE k > 1
  <2>1. PICK j \in Nat : k = 2 + j
    <3>1. k - 2 \in Nat /\ k = 2 + (k - 2)
      BY <1>1, <1>5
    <3> QED BY <3>1
  <2>2. m * k = m + m + m * j /\ m * j \in Nat
    BY <2>1
  <2>3. e <= a /\ e + m <= a /\ m + m <= a
    BY <1>1, <2>2
  <2> QED BY <1>1, <2>3 DEF e
<1> QED BY <1>1, <1>2, <1>3, <1>4, <1>5

LEMMA Cut ==
  ASSUME NEW t, t.armed \in Nat, 1 <= t.armed, t.end = t.armed % HwMod
  PROVE  /\ t.end \in 0 .. HwMod - 1 /\ t.end <= t.armed
         /\ Limit(t) \in 1 .. HwMod
         /\ t.armed = Limit(t) \/ Limit(t) + HwMod <= t.armed
<1>1. HwMod \in Nat \ {0}
  BY Halves
<1>2. /\ t.end \in 0 .. HwMod - 1 /\ t.end <= t.armed
      /\ t.armed = HwMod \/ HwMod + HwMod <= t.armed \/ t.end # 0
      /\ t.armed = t.end \/ t.end + HwMod <= t.armed
  BY <1>1, CutWord
<1> QED BY <1>1, <1>2 DEF Limit

\* How far the epoch is behind the clock; a grid re-bases it by itself
Elapsed(t) == IF t.owner = None THEN Now(t) ELSE 0

\* No distance is half a word
InReach(t) == \A s \in Waiting(t) : /\ -Quarter < Remaining(t, s)
                                    /\ Remaining(t, s) + Elapsed(t) <= Furthest

\* Same(t, u, S): the slots of S are as far from their deadlines in u as in t
Same(t, u, S) == \A s \in S : Remaining(u, s) = Remaining(t, s)

LEMMA Typed ==
  ASSUME NEW t \in TmType
  PROVE  /\ t.active \in SUBSET Slots /\ t.owner \in Cadence \cup {None}
         /\ \A s \in Slots : t.deadline[s] \in Int
         /\ t.armed \in Nat /\ t.count \in Nat /\ t.end \in Nat /\ t.since \in Nat
         /\ Now(t) \in Nat /\ Waiting(t) \in SUBSET Slots
         /\ \A s \in Slots : Remaining(t, s) \in Int
<1>1. /\ t.active \in SUBSET Slots /\ t.owner \in Cadence \cup {None}
      /\ \A s \in Slots : t.deadline[s] \in Int
      /\ t.armed \in Nat /\ t.count \in Nat /\ t.end \in Nat /\ t.since \in Nat
  BY Halves DEF TmType, Words
<1>2. Now(t) \in Nat /\ Waiting(t) \in SUBSET Slots
  BY <1>1 DEF Now, Waiting
<1>3. \A s \in Slots : Remaining(t, s) \in Int
  BY <1>1, <1>2, AlikeSigned DEF Remaining
<1> QED BY <1>1, <1>2, <1>3

\* Moving the epoch
LEMMA ShiftIs ==
  ASSUME NEW t \in TmType, NEW n \in Int
  PROVE  /\ Shift(t, n) \in TmType
         /\ \A s \in Waiting(t) : Shift(t, n).deadline[s] = (t.deadline[s] - n) % Mod
         /\ Shift(t, n).active = t.active /\ Shift(t, n).armed = t.armed
         /\ Shift(t, n).owner = t.owner /\ Shift(t, n).period = t.period
         /\ Shift(t, n).since = t.since /\ Shift(t, n).req = t.req
         /\ Shift(t, n).applied = t.applied /\ Shift(t, n).on = t.on
         /\ Shift(t, n).count = t.count /\ Shift(t, n).end = t.end
         /\ Shift(t, n).flag = t.flag
<1> DEFINE f == [s \in Slots |-> IF s \in Waiting(t) THEN (t.deadline[s] - n) % Mod ELSE 0]
<1>1. Shift(t, n) = [t EXCEPT !.deadline = f]
  BY DEF Shift, TmType
<1>2. \A s \in Slots : (t.deadline[s] - n) % Mod \in Words
  BY Typed, AlikeWord DEF Words
<1>3. f \in [Slots -> Words] /\ 0 \in Words
  BY <1>2, Halves DEF Words
<1>4. \A s \in Waiting(t) : f[s] = (t.deadline[s] - n) % Mod
  BY Typed
<1> HIDE DEF f
<1> QED BY <1>1, <1>3, <1>4 DEF TmType

\* A slot whose deadline moved with the clock is as far away as before.
LEMMA RebasedSlot ==
  ASSUME NEW t \in TmType, NEW u \in TmType, NEW n \in Int, NEW s \in Slots,
         u.deadline[s] = (t.deadline[s] - n) % Mod,
         Now(u) = Now(t) - n \/ Now(u) = (Now(t) - n) % Mod
  PROVE  Remaining(u, s) = Remaining(t, s)
BY Typed, Rebased DEF Remaining

\* st_advance
LEMMA AdvanceKeeps ==
  ASSUME NEW t \in TmType
  PROVE  /\ Advance(t) \in TmType
         /\ Advance(t).active = t.active /\ Advance(t).owner = t.owner
         /\ t.owner = None => ~Advance(t).flag /\ Now(Advance(t)) = t.count
         /\ t.owner # None => Advance(t) = t
         /\ Advance(t).on = t.on /\ Advance(t).count = t.count
         /\ Advance(t).end = t.end /\ Advance(t).armed = t.armed
         /\ Same(t, Advance(t), Waiting(t))
<1>1. CASE ~(t.owner = None /\ t.flag)
  <2>1. Advance(t) = t
    BY <1>1 DEF Advance
  <2>2. t.owner = None => ~t.flag /\ Now(t) = t.count
    BY <1>1, Typed DEF Now, TmType
  <2> QED BY <2>1, <2>2 DEF Same
<1>2. CASE t.owner = None /\ t.flag
  <2> DEFINE u == Shift(t, t.armed)
             v == [u EXCEPT !.flag = FALSE]
  <2>1. Advance(t) = v
    BY <1>2 DEF Advance
  <2>2. /\ u \in TmType /\ \A s \in Waiting(t) : u.deadline[s] = (t.deadline[s] - t.armed) % Mod
        /\ u.active = t.active /\ u.owner = t.owner /\ u.on = t.on /\ u.count = t.count
        /\ u.end = t.end /\ u.armed = t.armed
    <3>1. t.armed \in Int
      BY Typed
    <3> QED BY <3>1, ShiftIs
  <2> HIDE DEF u
  <2>3. /\ v \in TmType /\ v.deadline = u.deadline /\ v.active = u.active /\ v.owner = u.owner
        /\ v.on = u.on /\ v.count = u.count /\ v.end = u.end /\ v.armed = u.armed /\ ~v.flag
    BY <2>2 DEF TmType
  <2> HIDE DEF v
  <2>4. Now(v) = t.count /\ Now(t) = t.count + t.armed
    BY <1>2, <2>2, <2>3, Typed DEF Now
  <2>5. Now(v) = Now(t) - t.armed
    BY <2>4, Typed
  <2>6. Same(t, v, Waiting(t))
    <3> SUFFICES ASSUME NEW s \in Waiting(t) PROVE Remaining(v, s) = Remaining(t, s)
      BY DEF Same
    <3>1. s \in Slots /\ t.armed \in Int
      BY Typed
    <3> QED BY <2>2, <2>3, <2>5, <3>1, RebasedSlot
  <2> QED BY <1>2, <2>1, <2>2, <2>3, <2>4, <2>6
<1> QED BY <1>1, <1>2

\* st_periodic_exit_locked
LEMMA ExitKeeps ==
  ASSUME NEW t \in TmType, t.owner # None
  PROVE  /\ ExitGrid(t) \in TmType
         /\ ExitGrid(t).active = t.active /\ ExitGrid(t).owner = None
         /\ ~ExitGrid(t).on /\ ~ExitGrid(t).flag /\ ExitGrid(t).count = 0
         /\ Same(t, ExitGrid(t), Waiting(t))
<1> DEFINE u == Shift(t, Now(t))
           v == ExitGrid(t)
<1>1. /\ u \in TmType /\ \A s \in Waiting(t) : u.deadline[s] = (t.deadline[s] - Now(t)) % Mod
      /\ u.active = t.active
  <2>1. Now(t) \in Int
    BY Typed
  <2> QED BY <2>1, ShiftIs
<1>2. v = [StopTimer(u) EXCEPT !.armed = 0, !.req = 0, !.applied = 0, !.owner = None, !.since = 0]
  BY DEF ExitGrid
<1> HIDE DEF u, v
<1>3. /\ v \in TmType /\ v.deadline = u.deadline /\ v.active = u.active /\ v.owner = None
      /\ ~v.on /\ ~v.flag /\ v.count = 0
  <2>1. 0 \in Words
    BY Halves DEF Words
  <2> QED BY <1>1, <1>2, <2>1 DEF TmType, StopTimer
<1>4. Now(v) = Now(t) - Now(t)
  BY <1>3, Typed DEF Now
<1>5. Same(t, v, Waiting(t))
  <2> SUFFICES ASSUME NEW s \in Waiting(t) PROVE Remaining(v, s) = Remaining(t, s)
    BY DEF Same
  <2>1. s \in Slots /\ Now(t) \in Int
    BY Typed
  <2> QED BY <1>1, <1>3, <1>4, <2>1, RebasedSlot
<1> QED BY <1>1, <1>3, <1>5 DEF v

\* The slot st_rearm arms the timer to is armed, and none is nearer.
LEMMA NearestIs ==
  ASSUME NEW t \in TmType, t.owner = None, t.active # {},
         \A s \in t.active : -Quarter < Remaining(t, s) /\ Remaining(t, s) < Quarter
  PROVE  /\ Nearest(t) \in t.active
         /\ \A s \in t.active : Remaining(t, Nearest(t)) <= Remaining(t, s)
<1>1. t.active \in SUBSET Slots
  BY Typed
<1>2. \A s, o \in t.active : Signed(t.deadline[s] - t.deadline[o]) = Remaining(t, s) - Remaining(t, o)
  <2> TAKE s, o \in t.active
  <2>1. /\ t.deadline[s] \in Int /\ t.deadline[o] \in Int /\ Now(t) \in Int
        /\ Remaining(t, s) \in Int /\ Remaining(t, o) \in Int
    BY <1>1, Typed
  <2>2. -Half <= Remaining(t, s) - Remaining(t, o) /\ Remaining(t, s) - Remaining(t, o) < Half
    BY <2>1, Halves
  <2> QED BY <2>1, <2>2, Compared DEF Remaining
<1>3. PICK s \in t.active : \A o \in t.active : Remaining(t, s) <= Remaining(t, o)
  <2> DEFINE far(s) == Remaining(t, s) + Quarter
             S == {far(s) : s \in t.active}
  <2>1. \A s \in t.active : far(s) \in Nat /\ Remaining(t, s) \in Int
    BY <1>1, Typed, Halves
  <2>2. S \in SUBSET Nat /\ S # {}
    BY <2>1
  <2> HIDE DEF S
  <2>3. Smallest(S) \in S /\ \A y \in S : Smallest(S) <= y
    BY <2>2, SmallestIs
  <2>4. PICK s \in t.active : far(s) = Smallest(S)
    BY <2>3 DEF S
  <2>5. \A o \in t.active : far(s) <= far(o)
    BY <2>3, <2>4 DEF S
  <2>6. \A o \in t.active : Remaining(t, s) <= Remaining(t, o)
    BY <2>1, <2>5, Halves
  <2> QED BY <2>6
<1>4. \A o \in t.active : Signed(t.deadline[s] - t.deadline[o]) <= 0
  BY <1>1, <1>2, <1>3, Typed
<1>5. Nearest(t) \in t.active /\ \A o \in t.active : Signed(t.deadline[Nearest(t)] - t.deadline[o]) <= 0
  BY <1>4 DEF Nearest
<1> QED BY <1>1, <1>2, <1>5, Typed

\* The clock is moved to no later than any deadline, or the floor, when the timer
\* ends.
Aimed(t) == t.owner = None /\ ~t.flag =>
              \A s \in t.active : t.armed - t.count <= Larger(Remaining(t, s), MinDelta)

\* TMR armed to an interval, whether the end register can hold it or not
LEMMA StartIs ==
  ASSUME NEW t \in TmType, NEW d \in Nat
  PROVE  LET u == StartTimer(t, d) IN
         /\ u \in TmType /\ u.deadline = t.deadline /\ u.active = t.active
         /\ u.owner = t.owner /\ u.since = t.since /\ u.period = t.period
         /\ u.req = t.req /\ u.applied = t.applied
         /\ u.on /\ ~u.flag /\ u.count = 0 /\ u.armed = d /\ u.end = d % HwMod
<1>1. d % HwMod \in Nat
  BY Halves
<1> QED BY <1>1 DEF StartTimer, TmType

\* st_rearm
LEMMA RearmKeeps ==
  ASSUME NEW t \in TmType, t.owner # None => Sound(t),
         t.owner = None => \A s \in t.active : -Quarter < Remaining(t, s) /\ Remaining(t, s) <= Furthest
  PROVE  /\ Rearm(t) \in TmType /\ Sound(Rearm(t)) /\ Aimed(Rearm(t))
         /\ Rearm(t).active = t.active /\ Rearm(t).owner = t.owner
         /\ Same(t, Rearm(t), Waiting(t))
         /\ t.owner = None => ~Rearm(t).flag /\ Now(Rearm(t)) = 0
         /\ t.owner # None => Rearm(t) = t
<1>1. CASE t.owner # None
  <2>1. Rearm(t) = t
    BY <1>1 DEF Rearm
  <2> QED BY <1>1, <2>1 DEF Same, Aimed
<1>2. CASE t.owner = None /\ t.active = {}
  <2> DEFINE u == Rearm(t)
  <2>1. u = [t EXCEPT !.on = FALSE, !.count = 0, !.flag = FALSE]
    BY <1>2 DEF Rearm, StopTimer
  <2> HIDE DEF u
  <2>2. /\ u \in TmType /\ u.active = {} /\ u.owner = None /\ ~u.on /\ ~u.flag /\ u.count = 0
    BY <1>2, <2>1 DEF TmType
  <2>3. Sound(u) /\ Aimed(u) /\ Now(u) = 0
    BY <2>2 DEF Sound, Aimed, Now
  <2>4. Waiting(t) = {}
    BY <1>2 DEF Waiting
  <2> QED BY <1>2, <2>2, <2>3, <2>4 DEF Same, u
<1>3. CASE t.owner = None /\ t.active # {}
  <2> DEFINE b == Nearest(t)
             d == Larger(Remaining(t, b), MinDelta)
             v == Shift(t, Now(t))
             u == StartTimer(v, d)
  <2>1. Rearm(t) = u
    BY <1>3 DEF Rearm
  <2>2. \A s \in t.active : s \in Slots /\ Remaining(t, s) \in Int /\ Remaining(t, s) < Quarter
    <3>1. \A x \in Int : x <= Furthest => x < Quarter
      BY CycleFits, Bounds, Halves
    <3> QED BY <1>3, <3>1, Typed
  <2>3. b \in t.active /\ \A s \in t.active : Remaining(t, b) <= Remaining(t, s)
    BY <1>3, <2>2, NearestIs
  <2>4. d \in Nat /\ d > 0 /\ d <= Furthest /\ d = Larger(Remaining(t, b), MinDelta)
    BY <1>3, <2>2, <2>3, Bounds, CycleFits DEF Larger
  <2>5. /\ v \in TmType /\ \A s \in Waiting(t) : v.deadline[s] = (t.deadline[s] - Now(t)) % Mod
        /\ v.active = t.active /\ v.owner = t.owner
    <3>1. Now(t) \in Int
      BY Typed
    <3> QED BY <3>1, ShiftIs
  <2> HIDE DEF b, d, v
  <2>6. /\ u \in TmType /\ u.deadline = v.deadline /\ u.active = t.active /\ u.owner = None
        /\ u.on /\ ~u.flag /\ u.count = 0 /\ u.armed = d /\ u.end = d % HwMod
    BY <1>3, <2>4, <2>5, StartIs
  <2> HIDE DEF u
  <2>7. Now(u) = 0
    BY <2>6 DEF Now
  <2>8. Same(t, u, Waiting(t))
    <3> SUFFICES ASSUME NEW s \in Waiting(t) PROVE Remaining(u, s) = Remaining(t, s)
      BY DEF Same
    <3>1. s \in Slots /\ Now(t) \in Int
      BY Typed
    <3>2. Now(u) = Now(t) - Now(t)
      BY <2>7, <3>1
    <3> QED BY <2>5, <2>6, <3>1, <3>2, RebasedSlot
  <2>9. Sound(u)
    <3>1. u.end \in 0 .. HwMod - 1 /\ Limit(u) \in 1 .. HwMod
      BY <2>4, <2>6, Cut
    <3> QED BY <2>4, <2>6, <3>1, Halves DEF Sound, Counting, Limit
  <2>10. Aimed(u)
    <3> SUFFICES ASSUME NEW s \in t.active PROVE u.armed - u.count <= Larger(Remaining(u, s), MinDelta)
      BY <2>6 DEF Aimed
    <3>1. s \in Waiting(t)
      BY <1>3, SoftTimersAssumption, <2>2 DEF Waiting
    <3>2. Remaining(u, s) = Remaining(t, s) /\ Remaining(t, b) <= Remaining(t, s)
      BY <2>3, <2>8, <3>1 DEF Same
    <3>3. Remaining(t, b) \in Int /\ Remaining(t, s) \in Int
      BY <2>2, <2>3
    <3> QED BY <2>4, <2>6, <3>2, <3>3, Bounds DEF Larger
  <2> QED BY <1>3, <2>1, <2>6, <2>7, <2>8, <2>9, <2>10
<1> QED BY <1>1, <1>2, <1>3

-----------------------------------------------------------------------------
(* What a call leaves behind *)

\* Every slot that waits, those of S apart, waited before and is as far from its
\* deadline; the timer is armed for them.
Called(t, u, S) ==
  /\ u \in TmType /\ Sound(u) /\ Aimed(u)
  /\ \A s \in Waiting(u) \ S : s \in Waiting(t) /\ Remaining(u, s) = Remaining(t, s)
  /\ u.owner = None => ~u.flag /\ Now(u) = 0

\* st_set
LEMMA SetCalled ==
  ASSUME NEW t \in TmType, Sound(t), InReach(t), NEW s \in Slots, NEW d \in Nat, d <= Furthest
  PROVE  /\ Called(t, SetOneShot(t, s, d), {s})
         /\ s \in Waiting(SetOneShot(t, s, d)) /\ Remaining(SetOneShot(t, s, d), s) = d
<1> DEFINE e == IF t.owner = s THEN ExitGrid(t) ELSE t
           a == Advance(e)
           b == [a EXCEPT !.deadline[s] = (Now(a) + d) % Mod, !.active = @ \cup {s}]
           u == SetOneShot(t, s, d)
<1>a. t.active \in SUBSET Slots /\ Waiting(t) \in SUBSET Slots /\ None # s /\ None \notin Slots
  BY Typed, SoftTimersAssumption
<1>1. /\ e \in TmType /\ e.active = t.active /\ Same(t, e, Waiting(t))
      /\ e.owner = IF t.owner = s THEN None ELSE t.owner
      /\ t.owner # s => e = t
      /\ Waiting(t) \subseteq Waiting(e)
  <2>1. CASE t.owner = s
    BY <1>a, <2>1, ExitKeeps DEF Waiting
  <2>2. CASE t.owner # s
    BY <2>2 DEF Same
  <2> QED BY <2>1, <2>2
<1> HIDE DEF e
<1>2. /\ a \in TmType /\ a.active = t.active /\ a.owner = e.owner
      /\ Same(t, a, Waiting(t)) /\ (e.owner # None => a = t) /\ Now(a) \in Nat
  <2>1. a \in TmType /\ a.active = e.active /\ a.owner = e.owner /\ Same(e, a, Waiting(e))
        /\ (e.owner # None => a = e)
    BY <1>1, AdvanceKeeps
  <2>2. Same(t, a, Waiting(t))
    BY <1>1, <2>1 DEF Same
  <2> QED BY <1>1, <2>1, <2>2, Typed
<1>3. u = Rearm(b)
  BY DEF SetOneShot, a, b, e
<1> HIDE DEF a
<1>4. (Now(a) + d) % Mod \in Words
  BY <1>2, AlikeWord DEF Words
<1>5. /\ b \in TmType /\ b.active = t.active \cup {s} /\ b.owner = a.owner
      /\ b.deadline[s] = (Now(a) + d) % Mod
      /\ \A o \in Slots \ {s} : b.deadline[o] = a.deadline[o]
      /\ b.count = a.count /\ b.flag = a.flag /\ b.armed = a.armed /\ b.since = a.since
      /\ b.on = a.on /\ b.end = a.end /\ b.period = a.period /\ b.applied = a.applied /\ b.req = a.req
  BY <1>2, <1>4 DEF TmType
<1> HIDE DEF b
<1>6. Now(b) = Now(a)
  BY <1>5 DEF Now
<1>7. Remaining(b, s) = d
  <2>1. d < Half
    BY CycleFits, Bounds, Halves
  <2>2. Signed(((Now(a) + d) % Mod) - Now(a)) = d
    BY <1>2, <2>1, SetAhead
  <2> QED BY <1>5, <1>6, <2>2 DEF Remaining
<1>8. \A o \in Slots \ {s} : Remaining(b, o) = Remaining(a, o)
  BY <1>5, <1>6 DEF Remaining
<1>9. b.owner # s /\ Waiting(b) \ {s} \subseteq Waiting(t) /\ s \in Waiting(b)
  BY <1>a, <1>1, <1>2, <1>5 DEF Waiting
<1>10. \A o \in Waiting(b) \ {s} : Remaining(b, o) = Remaining(t, o)
  BY <1>a, <1>2, <1>8, <1>9 DEF Same
<1>11. b.owner # None => Sound(b)
  BY <1>1, <1>2, <1>5 DEF Sound, Counting, Limit
<1>12. b.owner = None => \A o \in b.active : -Quarter < Remaining(b, o) /\ Remaining(b, o) <= Furthest
  <2> SUFFICES ASSUME b.owner = None, NEW o \in b.active
               PROVE  -Quarter < Remaining(b, o) /\ Remaining(b, o) <= Furthest
    OBVIOUS
  <2>1. CASE o = s
    BY <1>7, <2>1, Halves
  <2>2. CASE o # s
    <3>1. o \in Waiting(b) \ {s}
      BY <1>a, <1>5, <2>2 DEF Waiting
    <3>2. o \in Waiting(t) /\ Remaining(b, o) = Remaining(t, o) /\ Remaining(t, o) \in Int
      BY <1>a, <1>9, <1>10, <3>1, Typed
    <3>3. -Quarter < Remaining(t, o) /\ Remaining(t, o) + Elapsed(t) <= Furthest
      BY <3>2 DEF InReach
    <3>4. Elapsed(t) \in Nat
      BY Typed DEF Elapsed
    <3> QED BY <3>2, <3>3, <3>4, CycleFits
  <2> QED BY <2>1, <2>2
<1>13. /\ u \in TmType /\ Sound(u) /\ Aimed(u) /\ u.active = b.active /\ u.owner = b.owner
       /\ Same(b, u, Waiting(b)) /\ (b.owner = None => ~u.flag /\ Now(u) = 0)
  BY <1>3, <1>5, <1>11, <1>12, RearmKeeps
<1>14. Waiting(u) = Waiting(b)
  BY <1>13 DEF Waiting
<1> HIDE DEF u
<1>15. Remaining(u, s) = d
  BY <1>7, <1>9, <1>13 DEF Same
<1>16. \A o \in Waiting(u) \ {s} : o \in Waiting(t) /\ Remaining(u, o) = Remaining(t, o)
  BY <1>9, <1>10, <1>13, <1>14 DEF Same
<1> QED BY <1>9, <1>13, <1>14, <1>15, <1>16 DEF Called, u

\* What st_rearm finds of slots that were in reach before
LEMMA RearmCalled ==
  ASSUME NEW t \in TmType, InReach(t), NEW b \in TmType, b.owner # None => Sound(b),
         Waiting(b) \subseteq Waiting(t), Same(t, b, Waiting(b))
  PROVE  Called(t, Rearm(b), {})
<1> DEFINE u == Rearm(b)
<1>1. b.owner = None => \A o \in b.active : -Quarter < Remaining(b, o) /\ Remaining(b, o) <= Furthest
  <2> SUFFICES ASSUME b.owner = None, NEW o \in b.active
               PROVE  -Quarter < Remaining(b, o) /\ Remaining(b, o) <= Furthest
    OBVIOUS
  <2>1. o \in Waiting(b)
    BY Typed, SoftTimersAssumption DEF Waiting
  <2>2. o \in Waiting(t) /\ Remaining(b, o) = Remaining(t, o) /\ Remaining(t, o) \in Int
    BY <2>1, Typed DEF Same
  <2>3. -Quarter < Remaining(t, o) /\ Remaining(t, o) + Elapsed(t) <= Furthest
    BY <2>2 DEF InReach
  <2>4. Elapsed(t) \in Nat
    BY Typed DEF Elapsed
  <2> QED BY <2>2, <2>3, <2>4, CycleFits
<1>2. /\ u \in TmType /\ Sound(u) /\ Aimed(u) /\ u.active = b.active /\ u.owner = b.owner
      /\ Same(b, u, Waiting(b)) /\ (b.owner = None => ~u.flag /\ Now(u) = 0)
  BY <1>1, RearmKeeps
<1> HIDE DEF u
<1>3. Waiting(u) = Waiting(b)
  BY <1>2 DEF Waiting
<1>4. \A o \in Waiting(u) : o \in Waiting(t) /\ Remaining(u, o) = Remaining(t, o)
  BY <1>2, <1>3 DEF Same
<1> QED BY <1>2, <1>4 DEF Called, u

\* st_cancel
LEMMA CancelCalled ==
  ASSUME NEW t \in TmType, Sound(t), InReach(t), NEW s \in Slots
  PROVE  Called(t, CancelSlot(t, s), {})
<1>1. CASE t.owner = s
  <2> DEFINE c == [t EXCEPT !.active = @ \ {s}]
             b == ExitGrid(c)
  <2>1. None # s
    BY SoftTimersAssumption
  <2>2. /\ c \in TmType /\ c.owner = s /\ c.active = t.active \ {s}
        /\ c.deadline = t.deadline /\ c.since = t.since
    BY <1>1 DEF TmType
  <2> HIDE DEF c
  <2>3. b \in TmType /\ b.active = c.active /\ b.owner = None /\ Same(c, b, Waiting(c))
    BY <2>1, <2>2, ExitKeeps
  <2>4. \A o : Remaining(c, o) = Remaining(t, o)
    BY <1>1, <2>1, <2>2 DEF Remaining, Now
  <2>5. CancelSlot(t, s) = Rearm(b)
    BY <1>1 DEF CancelSlot, b, c
  <2> HIDE DEF b
  <2>6. t.active \in SUBSET Slots /\ None \notin Slots
    BY Typed, SoftTimersAssumption
  <2>7. Waiting(b) = t.active \ {s} /\ Waiting(c) = t.active \ {s} /\ Waiting(t) = t.active \ {s}
    BY <1>1, <2>2, <2>3, <2>6 DEF Waiting
  <2>8. Same(t, b, Waiting(b))
    BY <2>3, <2>4, <2>7 DEF Same
  <2> QED BY <2>3, <2>5, <2>7, <2>8, RearmCalled
<1>2. CASE t.owner # s
  <2> DEFINE a == Advance(t)
             b == [a EXCEPT !.active = @ \ {s}]
  <2>1. /\ a \in TmType /\ a.active = t.active /\ a.owner = t.owner
        /\ Same(t, a, Waiting(t)) /\ (t.owner # None => a = t)
    BY AdvanceKeeps
  <2>2. CancelSlot(t, s) = Rearm(b)
    BY <1>2 DEF CancelSlot
  <2> HIDE DEF a
  <2>3. /\ b \in TmType /\ b.active = t.active \ {s} /\ b.owner = t.owner /\ b.deadline = a.deadline
        /\ b.count = a.count /\ b.flag = a.flag /\ b.armed = a.armed /\ b.since = a.since
        /\ b.on = a.on /\ b.end = a.end /\ b.period = a.period /\ b.applied = a.applied /\ b.req = a.req
    BY <2>1 DEF TmType
  <2> HIDE DEF b
  <2>4. \A o : Remaining(b, o) = Remaining(a, o)
    BY <2>1, <2>3 DEF Remaining, Now
  <2>5. Waiting(b) \subseteq Waiting(t)
    BY <2>3 DEF Waiting
  <2>6. Same(t, b, Waiting(b))
    BY <2>1, <2>4, <2>5 DEF Same
  <2>7. b.owner # None => Sound(b)
    BY <1>2, <2>1, <2>3 DEF Sound, Counting, Limit
  <2> QED BY <2>2, <2>3, <2>5, <2>6, <2>7, RearmCalled
<1> QED BY <1>1, <1>2

\* st_set_periodic
LEMMA GridCalled ==
  ASSUME NEW t \in TmType, NEW s \in Cadence, NEW p \in Periods
  PROVE  Called(t, SetGrid(t, s, p), {})
<1> DEFINE a == Advance(t)
           n == Larger(p, MinDelta)
           v == Shift(a, Now(a))
           w == [v EXCEPT !.since = 0, !.owner = s, !.period = n, !.req = 0, !.applied = 0,
                          !.active = (@ \ {a.owner}) \cup {s}]
           u == StartTimer(w, n)
<1>1. SetGrid(t, s, p) = u
  BY DEF SetGrid
<1>a. s \in Slots /\ None \notin Slots /\ s # None
  BY SoftTimersAssumption
<1>2. /\ a \in TmType /\ a.active = t.active /\ a.owner = t.owner /\ Same(t, a, Waiting(t))
  BY AdvanceKeeps
<1> HIDE DEF a
<1>3. Now(a) \in Int /\ Waiting(a) \in SUBSET Slots /\ a.active \in SUBSET Slots
  BY <1>2, Typed
<1>4. /\ v \in TmType /\ \A o \in Waiting(a) : v.deadline[o] = (a.deadline[o] - Now(a)) % Mod
      /\ v.active = a.active
  BY <1>2, <1>3, ShiftIs
<1> HIDE DEF v
<1>5. n \in Nat \ {0} /\ n < HwMod /\ n = Larger(p, MinDelta)
  <2>1. 0 \in Nudges \cup {0}
    OBVIOUS
  <2>2. Larger(p, MinDelta) \in Nat \ {0} /\ Larger(p, MinDelta) + 0 < HwMod
    BY <2>1, CycleFits
  <2> QED BY <2>2, Halves
<1> HIDE DEF n
<1>6. 0 \in Words
  BY Halves DEF Words
<1>7. /\ w \in TmType /\ w.deadline = v.deadline /\ w.since = 0 /\ w.owner = s /\ w.period = n
      /\ w.req = 0 /\ w.applied = 0 /\ w.active = (a.active \ {a.owner}) \cup {s}
  BY <1>a, <1>3, <1>4, <1>5, <1>6 DEF TmType
<1> HIDE DEF w
<1>8. /\ u \in TmType /\ u.deadline = w.deadline /\ u.active = w.active
      /\ u.owner = s /\ u.since = 0 /\ u.period = n /\ u.req = 0 /\ u.applied = 0
      /\ u.on /\ ~u.flag /\ u.count = 0 /\ u.end = n
  <2>1. n % HwMod = n
    BY <1>5, Halves
  <2> QED BY <1>5, <1>7, <2>1, StartIs
<1> HIDE DEF u
<1>9. Sound(u) /\ Aimed(u)
  BY <1>a, <1>5, <1>7, <1>8 DEF Sound, Counting, Limit, Aimed
<1>10. Waiting(u) \subseteq Waiting(a) /\ Waiting(a) = Waiting(t)
  BY <1>2, <1>7, <1>8 DEF Waiting
<1>11. Now(u) = Now(a) - Now(a)
  BY <1>a, <1>3, <1>8 DEF Now
<1>12. ASSUME NEW o \in Waiting(u) PROVE o \in Waiting(t) /\ Remaining(u, o) = Remaining(t, o)
  <2>1. o \in Waiting(a) /\ o \in Waiting(t) /\ o \in Slots
    BY <1>3, <1>10
  <2>2. Remaining(u, o) = Remaining(a, o)
    BY <1>2, <1>3, <1>4, <1>7, <1>8, <1>11, <2>1, RebasedSlot
  <2> QED BY <1>2, <2>1, <2>2 DEF Same
<1> QED BY <1>1, <1>a, <1>8, <1>9, <1>12 DEF Called

\* st_periodic_transfer
LEMMA TransferCalled ==
  ASSUME NEW t \in TmType, Sound(t), NEW f \in Cadence, NEW s \in Cadence, t.owner = f
  PROVE  Called(t, Transferred(t, f, s), {})
<1> DEFINE u == Transferred(t, f, s)
<1>1. f \in Slots /\ s \in Slots /\ f # None /\ s # None
  BY SoftTimersAssumption
<1>2. /\ u \in TmType /\ u.owner = s /\ u.active = (t.active \ {f}) \cup {s}
      /\ u.deadline = t.deadline /\ u.since = t.since /\ u.period = t.period /\ u.req = t.req
      /\ u.applied = t.applied /\ u.on = t.on /\ u.count = t.count /\ u.end = t.end
  BY <1>1 DEF Transferred, TmType
<1> HIDE DEF u
<1>3. Sound(u) /\ Aimed(u)
  BY <1>1, <1>2 DEF Sound, Counting, Limit, Aimed
<1>4. Waiting(u) \subseteq Waiting(t)
  BY <1>2 DEF Waiting
<1>5. \A o : Remaining(u, o) = Remaining(t, o)
  BY <1>1, <1>2 DEF Remaining, Now
<1> QED BY <1>1, <1>2, <1>3, <1>4, <1>5 DEF Called, u

\* st_periodic_nudge
LEMMA NudgeCalled ==
  ASSUME NEW t \in TmType, Sound(t), t.owner # None, NEW d \in Nudges
  PROVE  Called(t, [t EXCEPT !.req = d], {})
<1> DEFINE u == [t EXCEPT !.req = d]
<1>1. d \in Nat
  BY SoftTimersAssumption
<1>2. /\ u \in TmType /\ u.owner = t.owner /\ u.active = t.active
      /\ u.deadline = t.deadline /\ u.since = t.since /\ u.period = t.period /\ u.req = d
      /\ u.applied = t.applied /\ u.on = t.on /\ u.count = t.count /\ u.end = t.end
  BY <1>1 DEF TmType
<1> HIDE DEF u
<1>3. Sound(u) /\ Aimed(u)
  BY <1>2 DEF Sound, Counting, Limit, Aimed
<1>4. Waiting(u) = Waiting(t) /\ \A o : Remaining(u, o) = Remaining(t, o)
  BY <1>2 DEF Waiting, Remaining, Now
<1> QED BY <1>2, <1>3, <1>4 DEF Called, u

\* Becomes: a slot that waits for nothing keeps no deadline.
Tidy(t) == [t EXCEPT !.deadline = [s \in Slots |-> IF s \in Waiting(t) THEN @[s] ELSE 0]]

LEMMA TidyIs ==
  ASSUME NEW t \in TmType
  PROVE  /\ Tidy(t) \in TmType
         /\ Tidy(t).active = t.active /\ Tidy(t).armed = t.armed /\ Tidy(t).owner = t.owner
         /\ Tidy(t).period = t.period /\ Tidy(t).since = t.since /\ Tidy(t).req = t.req
         /\ Tidy(t).applied = t.applied /\ Tidy(t).on = t.on /\ Tidy(t).count = t.count
         /\ Tidy(t).end = t.end /\ Tidy(t).flag = t.flag
         /\ Waiting(Tidy(t)) = Waiting(t) /\ Now(Tidy(t)) = Now(t)
         /\ Same(t, Tidy(t), Waiting(t))
<1> DEFINE f == [s \in Slots |-> IF s \in Waiting(t) THEN t.deadline[s] ELSE 0]
           u == Tidy(t)
<1>1. u = [t EXCEPT !.deadline = f]
  BY DEF Tidy
<1>2. 0 \in Words /\ t.deadline \in [Slots -> Words] /\ Waiting(t) \in SUBSET Slots
  BY Halves, Typed DEF Words, TmType
<1>3. f \in [Slots -> Words] /\ \A s \in Waiting(t) : f[s] = t.deadline[s]
  BY <1>2
<1> HIDE DEF f, u
<1>4. /\ u \in TmType /\ u.deadline = f
      /\ u.active = t.active /\ u.armed = t.armed /\ u.owner = t.owner
      /\ u.period = t.period /\ u.since = t.since /\ u.req = t.req
      /\ u.applied = t.applied /\ u.on = t.on /\ u.count = t.count
      /\ u.end = t.end /\ u.flag = t.flag
  BY <1>1, <1>3 DEF TmType
<1>5. Waiting(u) = Waiting(t) /\ Now(u) = Now(t)
  BY <1>4 DEF Waiting, Now
<1>6. Same(t, u, Waiting(t))
  BY <1>3, <1>4, <1>5 DEF Same, Remaining
<1> QED BY <1>4, <1>5, <1>6 DEF u

LEMMA TidySound ==
  ASSUME NEW t \in TmType
  PROVE  /\ Sound(t) => Sound(Tidy(t))
         /\ Aimed(t) => Aimed(Tidy(t))
<1> DEFINE u == Tidy(t)
<1>1. Sound(t) => Sound(u)
  BY TidyIs DEF Sound, Counting, Limit
<1>2. ASSUME Aimed(t), u.owner = None, ~u.flag, NEW s \in u.active
      PROVE  u.armed - u.count <= Larger(Remaining(u, s), MinDelta)
  <2>1. t.owner = None /\ ~t.flag /\ s \in t.active /\ u.armed = t.armed /\ u.count = t.count
    BY <1>2, TidyIs
  <2>2. s \in Waiting(t)
    BY <2>1, Typed, SoftTimersAssumption DEF Waiting
  <2>3. Remaining(u, s) = Remaining(t, s)
    BY <2>2, TidyIs DEF Same
  <2> QED BY <1>2, <2>1, <2>3 DEF Aimed
<1> QED BY <1>1, <1>2 DEF Aimed

LEMMA TidyCalled ==
  ASSUME NEW t \in TmType, NEW u, NEW S, Called(t, u, S)
  PROVE  Called(t, Tidy(u), S)
<1>1. u \in TmType /\ Sound(u) /\ Aimed(u)
  BY DEF Called
<1>2. Sound(Tidy(u)) /\ Aimed(Tidy(u))
  BY <1>1, TidySound
<1> QED BY <1>1, <1>2, TidyIs DEF Called, Same

-----------------------------------------------------------------------------
(* The invariant *)

Places == {"idle", "pollCb", "drain", "drainCb", "dispatch", "dispatchCb"}
TypeOK ==
  /\ tm \in TmType
  /\ isr \in [at : Places, n : Nat]
  /\ left \in [Slots -> Nat]
  /\ wait \in 0 .. MaxWait

\* A callback that left the grid returns to a timer its call has armed
OneShotCallback == tm.owner = None /\ isr.at \in {"pollCb", "drainCb"}

\* In a dispatch the timer goes on from interval to interval until a call or the
\* end of the dispatch re-arms it.  Until a call does, every callback has disarmed
\* a slot and none has been armed.
Dispatching == isr.at \in {"dispatch", "dispatchCb"}
Undisturbed == isr.n + Cardinality(tm.active) <= Cardinality(Slots)

\* What a second interval, ended in the dispatch of the first, can have skipped
Overrun == IF Dispatching /\ tm.owner = None /\ tm.flag THEN tm.armed - tm.end ELSE 0

\* How late a waiting slot can be.  Between two interrupts: MaxLate, one delay
\* of the interrupt and one cycle when the timer ends, and as much more as the
\* expiry then waits.  In an interrupt a slot is either not late by more than
\* MaxLate and the time spent there; or it was late at the entry, or passed by an
\* overrun since, no call is made until it has run, and so every callback disarms
\* a slot.
Punctual(s) ==
  LET r == Remaining(tm, s) IN
  IF isr.at = "idle"
    THEN r + MaxLate + MaxWait + Longest >= IF tm.flag THEN -wait ELSE Limit(tm) - tm.count
    ELSE \/ r + MaxLate + wait > 0
         \/ /\ r + MaxLate + 2 * MaxWait + Longest + wait + Overrun >= 0
            /\ Undisturbed
            /\ ~OneShotCallback

NotFar(t) == \A s \in Waiting(t) : Remaining(t, s) + Elapsed(t) <= Furthest

\* The requested delay has not passed before the software deadline has.
Honest(s) == left[s] > 0 => s \in Waiting(tm) /\ Remaining(tm, s) >= left[s]

SlotInvariant ==
  /\ Sound(tm) /\ NotFar(tm)
  /\ Aimed(tm) \/ (Dispatching /\ Undisturbed)
  /\ isr.at = "drain" => tm.owner # None
  /\ \A s \in Waiting(tm) : Punctual(s)
  /\ \A s \in Slots : Honest(s)

-----------------------------------------------------------------------------
(* What the invariant says at once *)

LEMMA Times ==
  ASSUME TypeOK
  PROVE  /\ tm \in TmType /\ wait \in Nat /\ wait <= MaxWait /\ isr.n \in Nat /\ isr.at \in Places
         /\ isr = [at |-> isr.at, n |-> isr.n]
         /\ left \in [Slots -> Nat] /\ tm.count \in Nat /\ tm.end \in Nat /\ tm.armed \in Nat
         /\ Elapsed(tm) \in Nat
         /\ \A s \in Waiting(tm) : s \in Slots /\ Remaining(tm, s) \in Int
         /\ tm.active \in SUBSET Slots /\ IsFiniteSet(tm.active) /\ Cardinality(tm.active) \in Nat
         /\ Cardinality(tm.active) <= Cardinality(Slots)
<1>1. tm \in TmType /\ wait \in Nat /\ wait <= MaxWait /\ isr.n \in Nat /\ isr.at \in Places
      /\ isr = [at |-> isr.at, n |-> isr.n] /\ left \in [Slots -> Nat]
  BY Bounds DEF TypeOK
<1>2. /\ tm.count \in Nat /\ tm.end \in Nat /\ tm.armed \in Nat /\ Elapsed(tm) \in Nat
      /\ \A s \in Waiting(tm) : s \in Slots /\ Remaining(tm, s) \in Int
      /\ tm.active \in SUBSET Slots
  BY <1>1, Typed DEF Elapsed
<1>3. IsFiniteSet(tm.active) /\ Cardinality(tm.active) <= Cardinality(Slots)
  BY <1>2, SoftTimersAssumption, FS_Subset
<1> QED BY <1>1, <1>2, <1>3, FS_CardinalityType

\* A grid cycle, stretched or not, lasts no more than Longest.
LEMMA GridFits ==
  ASSUME NEW t \in TmType, Sound(t), t.owner # None
  PROVE  /\ t.period \in Nat \ {0} /\ t.period < HwMod /\ t.end <= Longest
         /\ Limit(t) = t.end /\ t.req \in Nat /\ t.period + t.req < HwMod
<1>1. PICK p \in Periods : t.period = Larger(p, MinDelta)
  BY DEF Sound
<1>2. /\ t.end = t.period + t.applied
      /\ t.req \in Nudges \cup {0} /\ t.applied \in Nudges \cup {0} /\ 0 \in Nudges \cup {0}
  BY DEF Sound
<1>3. t.period \in Nat \ {0} /\ t.period + 0 < HwMod
  BY <1>1, <1>2, CycleFits
<1>4. t.req \in Nat /\ t.period + t.req < HwMod /\ t.end <= Longest
  BY <1>1, <1>2, CycleFits
<1>5. t.applied \in Nat
  BY <1>2, CycleFits
<1>6. t.end # 0
  BY <1>2, <1>3, <1>5
<1> QED BY <1>3, <1>4, <1>6, Halves DEF Limit

\* A one-shot timer that a slot waits for runs, to an interval no further than a
\* delay.
LEMMA Runs ==
  ASSUME NEW t \in TmType, Sound(t), NEW s \in Waiting(t)
  PROVE  /\ Counting(t) /\ Limit(t) \in Nat /\ Limit(t) <= HwMod
         /\ t.owner = None => /\ t.armed <= Furthest /\ t.end <= t.armed /\ t.end <= Limit(t)
                              /\ t.armed = Limit(t) \/ Limit(t) + HwMod <= t.armed
<1>1. s \in t.active /\ t.armed \in Nat /\ t.end \in Nat
  BY Typed DEF Waiting
<1>2. CASE t.owner = None
  <2>1. Counting(t) /\ t.end = t.armed % HwMod /\ 1 <= t.armed /\ t.armed <= Furthest
    BY <1>1, <1>2 DEF Sound
  <2>2. /\ t.end \in 0 .. HwMod - 1 /\ t.end <= t.armed /\ Limit(t) \in 1 .. HwMod
        /\ t.armed = Limit(t) \/ Limit(t) + HwMod <= t.armed
    BY <1>1, <2>1, Cut
  <2>3. t.end <= Limit(t)
    BY <1>1, <2>2, Halves DEF Limit
  <2> QED BY <2>1, <2>2, <2>3, Halves
<1>3. CASE t.owner # None
  <2>1. Counting(t) /\ Limit(t) = t.end
    BY <1>3, GridFits DEF Sound
  <2> QED BY <1>1, <1>3, <2>1, Halves DEF Counting
<1> QED BY <1>2, <1>3

LEMMA OverrunIs ==
  ASSUME TypeOK, SlotInvariant, NEW s \in Waiting(tm)
  PROVE  Overrun \in Nat /\ Overrun <= Furthest
<1>1. /\ tm \in TmType /\ Sound(tm) /\ tm.armed \in Nat /\ tm.end \in Nat /\ Furthest \in Nat
  BY Times, CycleFits DEF SlotInvariant
<1>2. tm.owner = None => tm.armed <= Furthest /\ tm.end <= tm.armed
  BY <1>1, Runs
<1> QED BY <1>1, <1>2 DEF Overrun

\* Lateness stays below a quarter of a word.
LEMMA Reaches ==
  ASSUME TypeOK, SlotInvariant
  PROVE  InReach(tm)
<1> SUFFICES ASSUME NEW s \in Waiting(tm) PROVE -Quarter < Remaining(tm, s)
  BY DEF InReach, SlotInvariant, NotFar
<1> DEFINE r == Remaining(tm, s)
           togo == Limit(tm) - tm.count
<1>1. r \in Int /\ wait \in Nat /\ wait <= MaxWait /\ tm.count \in Nat
  BY Times
<1>2. togo \in Int /\ togo > 0
  <2>1. Counting(tm) /\ Limit(tm) \in Nat
    BY Runs, Times DEF SlotInvariant
  <2> QED BY <1>1, <2>1 DEF Counting
<1>3. Punctual(s) /\ Overrun \in Nat /\ Overrun <= Furthest
  BY OverrunIs DEF SlotInvariant
<1>4. \/ r + MaxLate + MaxWait + Longest >= -wait
      \/ r + MaxLate + MaxWait + Longest >= togo
      \/ r + MaxLate + wait > 0
      \/ r + MaxLate + 2 * MaxWait + Longest + wait + Overrun >= 0
  BY <1>3 DEF Punctual
<1>5. /\ Longest \in Nat /\ Furthest \in Nat
      /\ MaxLate + 3 * MaxWait + Longest + Furthest < Quarter
  BY CycleFits
<1> HIDE DEF r, togo
<1>6. -Quarter < r
  BY <1>1, <1>2, <1>3, <1>4, <1>5, Bounds, Halves
<1> QED BY <1>6 DEF r

\* A slot not late by more than a call and an interrupt allow, with the timer
\* armed for it, is as punctual as it has to be between two interrupts.
LEMMA Rested ==
  ASSUME NEW t \in TmType, Sound(t), Aimed(t), NEW s \in Waiting(t),
         Remaining(t, s) + MaxLate + MaxWait >= 0
  PROVE  /\ Remaining(t, s) + MaxLate + MaxWait + Longest >= 0
         /\ ~t.flag => Remaining(t, s) + MaxLate + MaxWait + Longest >= Limit(t) - t.count
<1> DEFINE r == Remaining(t, s)
           togo == Limit(t) - t.count
<1>0. Counting(t) /\ Limit(t) \in Nat /\ (t.owner = None => Limit(t) <= t.armed)
  <2>1. t.armed \in Nat
    BY Typed
  <2> QED BY <2>1, Runs, Halves
<1>1. /\ s \in t.active /\ r \in Int /\ t.armed \in Nat /\ t.count \in Nat /\ togo \in Int
      /\ togo <= Limit(t) /\ (t.owner = None => togo <= t.armed - t.count)
  BY <1>0, Typed DEF Waiting
<1>2. Longest \in Int /\ Longest >= MinDelta /\ MinDelta \in Nat /\ MaxLate \in Nat /\ MaxWait \in Nat
  BY CycleFits, Bounds
<1>3. ~t.flag => togo <= Longest \/ togo <= r
  <2>1. CASE t.owner = None
    <3>1. ~t.flag => t.armed - t.count <= Larger(r, MinDelta)
      BY <1>1, <2>1 DEF Aimed
    <3> QED BY <1>1, <1>2, <2>1, <3>1 DEF Larger
  <2>2. CASE t.owner # None
    <3>1. Limit(t) = t.end /\ t.end <= Longest
      BY <2>2, GridFits
    <3> QED BY <1>0, <1>1, <1>2, <3>1
  <2> QED BY <2>1, <2>2
<1> HIDE DEF r, togo
<1>4. r + MaxLate + MaxWait + Longest >= 0 /\ (~t.flag => r + MaxLate + MaxWait + Longest >= togo)
  <2>1. r + MaxLate + MaxWait >= 0
    BY DEF r
  <2> QED BY <1>1, <1>2, <1>3, <2>1
<1> QED BY <1>4 DEF r, togo

-----------------------------------------------------------------------------
(* The calls *)

LEMMA CallKeeps ==
  ASSUME TypeOK, SlotInvariant, Calls, NEW S \in SUBSET Slots, NEW u, NEW l \in [Slots -> Nat],
         Called(tm, u, S), Becomes(u, l),
         \A s \in Slots \ S : l[s] = left[s],
         \A s \in S : s \in Waiting(u) /\ Remaining(u, s) = l[s] /\ l[s] <= Furthest
  PROVE  TypeOK' /\ SlotInvariant'
<1>1. /\ u \in TmType /\ Called(tm, Tidy(u), S) /\ Waiting(Tidy(u)) = Waiting(u)
      /\ Same(u, Tidy(u), Waiting(u))
  BY TidyCalled, TidyIs DEF Called
<1>2. tm' = Tidy(u) /\ left' = [s \in Slots |-> IF s \in Waiting(u) THEN l[s] ELSE 0]
  BY DEF Becomes, Tidy
<1>3. /\ isr' = isr /\ (isr.at = "idle" \/ InCallback)
      /\ \A s \in Waiting(tm) : Remaining(tm, s) > -MaxLate
      /\ wait' \in {0, wait} /\ (InCallback => wait' = wait)
  BY DEF Calls
<1>4. /\ tm' \in TmType /\ Sound(tm') /\ Aimed(tm') /\ (tm'.owner = None => Elapsed(tm') = 0)
      /\ \A s \in Waiting(tm') \ S : s \in Waiting(tm) /\ Remaining(tm', s) = Remaining(tm, s)
      /\ \A s \in S : s \in Waiting(tm') /\ Remaining(tm', s) = l[s]
      /\ Waiting(tm') = Waiting(u)
  BY <1>1, <1>2 DEF Called, Elapsed, Same
<1>5. Elapsed(tm') = 0
  BY <1>4 DEF Elapsed
<1>6. TypeOK'
  <2>1. left' \in [Slots -> Nat]
    BY <1>2
  <2>2. wait' \in 0 .. MaxWait
    BY <1>3, Bounds DEF TypeOK
  <2> QED BY <1>3, <1>4, <2>1, <2>2 DEF TypeOK
<1>7. \A s \in Waiting(tm') : /\ s \in Slots /\ Remaining(tm', s) \in Int
                              /\ Remaining(tm', s) > -MaxLate
                              /\ Remaining(tm', s) <= Furthest
  <2> SUFFICES ASSUME NEW s \in Waiting(tm')
               PROVE  /\ s \in Slots /\ Remaining(tm', s) \in Int
                      /\ Remaining(tm', s) > -MaxLate
                      /\ Remaining(tm', s) <= Furthest
    OBVIOUS
  <2>1. s \in Slots
    BY <1>4, Typed
  <2>2. CASE s \in S
    BY <1>4, <2>1, <2>2, Bounds
  <2>3. CASE s \notin S
    <3>1. /\ s \in Waiting(tm) /\ Remaining(tm', s) = Remaining(tm, s) /\ Remaining(tm, s) \in Int
          /\ Remaining(tm, s) > -MaxLate
      BY <1>3, <1>4, <2>3, Times
    <3>2. Remaining(tm, s) + Elapsed(tm) <= Furthest /\ Elapsed(tm) \in Nat
      BY <3>1, Times DEF SlotInvariant, NotFar
    <3> QED BY <2>1, <3>1, <3>2, CycleFits
  <2> QED BY <2>2, <2>3
<1>8. NotFar(tm')
  BY <1>5, <1>7, CycleFits DEF NotFar
<1>9. \A s \in Slots : Honest(s)'
  <2> SUFFICES ASSUME NEW s \in Slots, left'[s] > 0
               PROVE  s \in Waiting(tm') /\ Remaining(tm', s) >= left'[s]
    BY DEF Honest
  <2>1. s \in Waiting(tm') /\ left'[s] = l[s] /\ l[s] \in Nat
    BY <1>2, <1>4
  <2>2. CASE s \in S
    BY <1>4, <2>1, <2>2
  <2>3. CASE s \notin S
    <3>1. Remaining(tm', s) = Remaining(tm, s) /\ l[s] = left[s]
      BY <1>4, <2>1, <2>3
    <3>2. Remaining(tm, s) >= left[s]
      BY <2>1, <3>1 DEF SlotInvariant, Honest
    <3> QED BY <2>1, <3>1, <3>2
  <2> QED BY <2>2, <2>3
<1>10. ASSUME NEW s \in Waiting(tm') PROVE Punctual(s)'
  <2> DEFINE r == Remaining(tm', s)
  <2>1. r \in Int /\ r > -MaxLate /\ wait' \in Nat /\ wait \in Nat
    BY <1>3, <1>7, Times
  <2>2. CASE isr.at = "idle"
    <3>1. /\ r + MaxLate + MaxWait + Longest >= 0
          /\ ~tm'.flag => r + MaxLate + MaxWait + Longest >= Limit(tm') - tm'.count
      <4>1. r + MaxLate + MaxWait >= 0
        BY <2>1, Bounds
      <4> QED BY <1>4, <4>1, Rested
    <3>2. r + MaxLate + MaxWait + Longest \in Int
      BY <2>1, Bounds, CycleFits
    <3>3. \A x \in Int, w \in Nat : x >= 0 => x >= -w
      OBVIOUS
    <3>4. r + MaxLate + MaxWait + Longest >= -wait'
      BY <2>1, <3>1, <3>2, <3>3
    <3> QED BY <1>3, <2>2, <3>1, <3>4 DEF Punctual
  <2>3. CASE isr.at # "idle"
    <3>1. r + MaxLate + wait' > 0
      BY <2>1, Bounds
    <3> QED BY <1>3, <2>3, <3>1 DEF Punctual
  <2> QED BY <2>2, <2>3
<1>11. (isr.at = "drain" => tm.owner # None)'
  BY <1>3 DEF InCallback
<1> QED BY <1>4, <1>6, <1>8, <1>9, <1>10, <1>11 DEF SlotInvariant

-----------------------------------------------------------------------------
(* The interrupt *)

\* A step that moves no waiting slot, and may disarm some
Kept(u) ==
  /\ u \in TmType /\ Sound(u)
  /\ Waiting(u) \subseteq Waiting(tm) /\ Same(tm, u, Waiting(u))
  /\ Elapsed(u) <= Elapsed(tm)

\* What such a step leaves of the invariant, wherever the interrupt stands
LEMMA KeptSteps ==
  ASSUME TypeOK, SlotInvariant, NEW u, Kept(u), Becomes(u, left)
  PROVE  /\ tm' \in TmType /\ left' \in [Slots -> Nat]
         /\ Sound(tm') /\ NotFar(tm') /\ \A s \in Slots : Honest(s)'
         /\ tm'.owner = u.owner /\ tm'.active = u.active /\ tm'.flag = u.flag
         /\ tm'.armed = u.armed /\ tm'.end = u.end
         /\ (Aimed(u) => Aimed(tm'))
         /\ \A s \in Waiting(tm') : s \in Waiting(tm) /\ Remaining(tm', s) = Remaining(tm, s)
<1>1. /\ u \in TmType /\ tm' = Tidy(u)
      /\ left' = [s \in Slots |-> IF s \in Waiting(u) THEN left[s] ELSE 0]
  BY DEF Becomes, Tidy, Kept
<1>2. /\ tm' \in TmType /\ Sound(tm') /\ (Aimed(u) => Aimed(tm'))
      /\ tm'.owner = u.owner /\ tm'.active = u.active /\ tm'.flag = u.flag
      /\ tm'.armed = u.armed /\ tm'.end = u.end
      /\ Waiting(tm') = Waiting(u) /\ Now(tm') = Now(u) /\ Same(u, tm', Waiting(u))
  BY <1>1, TidyIs, TidySound DEF Kept
<1>3. Elapsed(tm') = Elapsed(u) /\ Elapsed(u) \in Nat
  BY <1>1, <1>2, Typed DEF Elapsed
<1>4. \A s \in Waiting(tm') : s \in Waiting(tm) /\ Remaining(tm', s) = Remaining(tm, s)
  BY <1>2 DEF Kept, Same
<1>5. NotFar(tm')
  <2> SUFFICES ASSUME NEW s \in Waiting(tm') PROVE Remaining(tm', s) + Elapsed(tm') <= Furthest
    BY DEF NotFar
  <2>1. /\ s \in Waiting(tm) /\ Remaining(tm', s) = Remaining(tm, s)
        /\ Remaining(tm, s) \in Int /\ Elapsed(tm) \in Nat
    BY <1>4, Times
  <2>2. Remaining(tm, s) + Elapsed(tm) <= Furthest
    BY <2>1 DEF SlotInvariant, NotFar
  <2> QED BY <1>3, <2>1, <2>2, CycleFits DEF Kept
<1>6. left \in [Slots -> Nat]
  BY DEF TypeOK
<1>7. left' \in [Slots -> Nat]
  BY <1>1, <1>6
<1>8. ASSUME NEW s \in Slots PROVE Honest(s)'
  <2>1. left'[s] > 0 => s \in Waiting(tm') /\ left'[s] = left[s]
    BY <1>1, <1>2
  <2>2. left[s] > 0 => Remaining(tm, s) >= left[s]
    BY DEF SlotInvariant, Honest
  <2> QED BY <1>4, <2>1, <2>2 DEF Honest
<1> QED BY <1>2, <1>4, <1>5, <1>7, <1>8

\* An expiry is entered no later than the timer's end and one delay.
LEMMA EnteredPunctual ==
  ASSUME TypeOK, SlotInvariant, isr.at = "idle", tm.flag,
         Cardinality(tm'.active) <= Cardinality(Slots), Cardinality(tm'.active) \in Nat,
         isr'.n = 0, isr'.at # "idle", ~OneShotCallback', wait' = 0, Overrun' = 0,
         NEW s \in Waiting(tm), Remaining(tm', s) = Remaining(tm, s)
  PROVE  Punctual(s)'
<1> DEFINE r == Remaining(tm, s)
<1>1. r \in Int /\ wait \in Nat /\ wait <= MaxWait
  BY Times
<1>2. r + MaxLate + MaxWait + Longest >= -wait
  BY DEF SlotInvariant, Punctual
<1> HIDE DEF r
<1>3. r + MaxLate + 2 * MaxWait + Longest + wait' + Overrun' >= 0
  BY <1>1, <1>2, Bounds, CycleFits
<1>4. Undisturbed'
  BY Bounds DEF Undisturbed
<1> QED BY <1>3, <1>4 DEF Punctual, r

\* Epoch syncs of the periodic interrupt: the epoch and the last sync move on
\* together.
SyncBy(t, n) == [Shift(t, n) EXCEPT !.since = (@ - n) % Mod]

LEMMA SyncIs ==
  ASSUME NEW t \in TmType, t.owner # None, NEW n \in Int
  PROVE  LET u == SyncBy(t, n) IN
         /\ u \in TmType /\ Same(t, u, Waiting(t))
         /\ u.active = t.active /\ u.owner = t.owner /\ u.period = t.period /\ u.req = t.req
         /\ u.applied = t.applied /\ u.on = t.on /\ u.count = t.count /\ u.end = t.end
<1> DEFINE v == Shift(t, n)
           u == SyncBy(t, n)
<1>1. /\ v \in TmType /\ \A s \in Waiting(t) : v.deadline[s] = (t.deadline[s] - n) % Mod
      /\ v.active = t.active /\ v.owner = t.owner /\ v.period = t.period /\ v.req = t.req
      /\ v.applied = t.applied /\ v.on = t.on /\ v.count = t.count /\ v.end = t.end
      /\ v.since = t.since
  BY ShiftIs
<1>2. u = [v EXCEPT !.since = (t.since - n) % Mod]
  BY <1>1 DEF SyncBy
<1> HIDE DEF v, u
<1>3. (t.since - n) % Mod \in Words
  <2>1. t.since - n \in Int
    BY Typed
  <2> QED BY <2>1, AlikeWord DEF Words
<1>4. /\ u \in TmType /\ u.deadline = v.deadline /\ u.active = v.active /\ u.owner = v.owner
      /\ u.period = v.period /\ u.req = v.req /\ u.applied = v.applied /\ u.on = v.on
      /\ u.count = v.count /\ u.end = v.end /\ u.since = (t.since - n) % Mod
  BY <1>1, <1>2, <1>3 DEF TmType
<1>5. Now(u) = (Now(t) - n) % Mod
  BY <1>1, <1>4 DEF Now
<1>6. Same(t, u, Waiting(t))
  <2> SUFFICES ASSUME NEW s \in Waiting(t) PROVE Remaining(u, s) = Remaining(t, s)
    BY DEF Same
  <2>1. s \in Slots
    BY Typed
  <2> QED BY <1>1, <1>4, <1>5, <2>1, RebasedSlot
<1> QED BY <1>1, <1>4, <1>6 DEF u

\* The sync and the nudge of a cycle that ended
CycleEnd(t) == LET u == IF t.applied # 0 THEN SyncStretched(t) ELSE Sync(t)
               IN ApplyNudge([u EXCEPT !.flag = FALSE])

LEMMA CycleEndKeeps ==
  ASSUME TypeOK, SlotInvariant, tm.owner # None
  PROVE  /\ Kept(CycleEnd(tm))
         /\ CycleEnd(tm).active = tm.active /\ CycleEnd(tm).owner = tm.owner
<1> DEFINE u == IF tm.applied # 0 THEN SyncStretched(tm) ELSE Sync(tm)
           v == [u EXCEPT !.flag = FALSE]
           w == ApplyNudge(v)
<1>1. tm \in TmType /\ Sound(tm) /\ Waiting(tm) \in SUBSET Slots
  BY Typed DEF SlotInvariant, TypeOK
<1>2. /\ tm.period \in Nat \ {0} /\ tm.req \in Nat /\ tm.period + tm.req < HwMod /\ tm.period < HwMod
      /\ tm.applied \in Nat /\ tm.since \in Nat
  BY <1>1, GridFits, Typed DEF TmType
<1>3. /\ u \in TmType /\ Same(tm, u, Waiting(tm))
      /\ u.active = tm.active /\ u.owner = tm.owner /\ u.period = tm.period /\ u.req = tm.req
      /\ u.applied = 0 /\ u.on = tm.on /\ u.count = tm.count /\ u.end = tm.end
  <2>1. CASE tm.applied # 0
    <3> DEFINE n == tm.period + tm.applied
               x == SyncBy(tm, n)
    <3>1. n \in Int
      BY <1>2
    <3>2. u = [Shift(tm, n) EXCEPT !.since = (@ - n) % Mod, !.applied = 0]
      BY <2>1 DEF SyncStretched
    <3>3. Shift(tm, n) \in TmType
      BY <1>1, <3>1, ShiftIs
    <3>4. u = [x EXCEPT !.applied = 0]
      BY <3>2, <3>3 DEF TmType, SyncBy
    <3> HIDE DEF n, u
    <3>5. /\ x \in TmType /\ Same(tm, x, Waiting(tm))
          /\ x.active = tm.active /\ x.owner = tm.owner /\ x.period = tm.period /\ x.req = tm.req
          /\ x.on = tm.on /\ x.count = tm.count /\ x.end = tm.end
      BY <1>1, <3>1, SyncIs
    <3> HIDE DEF x
    <3>6. /\ u \in TmType /\ u.deadline = x.deadline /\ u.since = x.since
          /\ u.active = x.active /\ u.owner = x.owner /\ u.period = x.period /\ u.req = x.req
          /\ u.applied = 0 /\ u.on = x.on /\ u.count = x.count /\ u.end = x.end
          /\ u.flag = x.flag /\ u.armed = x.armed
      BY <3>4, <3>5 DEF TmType
    <3>7. \A s : Remaining(u, s) = Remaining(x, s)
      BY <3>6 DEF Remaining, Now
    <3> QED BY <3>5, <3>6, <3>7 DEF Same
  <2>2. CASE tm.applied = 0
    <3> DEFINE n == Larger(1, tm.since \div tm.period) * tm.period
    <3>1. n \in Int
      <4>1. tm.since \div tm.period \in Int
        BY <1>2, Quotient
      <4>2. Larger(1, tm.since \div tm.period) \in Int
        BY <4>1 DEF Larger
      <4> QED BY <1>2, <4>2
    <3>2. u = SyncBy(tm, n)
      BY <2>2 DEF Sync, SyncBy
    <3> HIDE DEF n, u
    <3> QED BY <1>1, <2>2, <3>1, <3>2, SyncIs
  <2> QED BY <1>2, <2>1, <2>2
<1> HIDE DEF u
<1>4. /\ v \in TmType /\ v.deadline = u.deadline /\ v.since = u.since
      /\ v.active = tm.active /\ v.owner = tm.owner /\ v.period = tm.period /\ v.req = tm.req
      /\ v.applied = 0 /\ v.on = tm.on /\ v.count = tm.count /\ v.end = tm.end
  BY <1>3 DEF TmType
<1> HIDE DEF v
<1>5. /\ w \in TmType /\ w.deadline = u.deadline /\ w.since = u.since
      /\ w.active = tm.active /\ w.owner = tm.owner /\ w.period = tm.period
      /\ w.req = 0 /\ w.applied = tm.req /\ w.end = tm.period + tm.req
      /\ w.on = tm.on /\ w.count \in {0, tm.count}
      /\ w.count = 0 \/ tm.end = tm.period + tm.req
  <2>1. (tm.period + tm.req) % HwMod = tm.period + tm.req /\ tm.period % HwMod = tm.period
    BY <1>2, Halves
  <2>2. CASE tm.req # 0
    <3> DEFINE e == tm.period + tm.req
    <3>a. e \in Nat
      BY <1>2
    <3>1. w = [v EXCEPT !.applied = tm.req, !.req = 0, !.end = e, !.count = 0]
      BY <1>4, <2>1, <2>2 DEF ApplyNudge
    <3> HIDE DEF e
    <3>2. /\ w \in TmType /\ w.deadline = v.deadline /\ w.since = v.since
          /\ w.active = v.active /\ w.owner = v.owner /\ w.period = v.period
          /\ w.req = 0 /\ w.applied = tm.req /\ w.end = e
          /\ w.on = v.on /\ w.count = 0
      BY <1>2, <1>4, <3>a, <3>1 DEF TmType
    <3> QED BY <1>4, <3>2 DEF e
  <2>3. CASE tm.req = 0 /\ tm.end # tm.period
    <3>1. w = [v EXCEPT !.end = tm.period, !.count = 0]
      BY <1>4, <2>1, <2>3 DEF ApplyNudge
    <3>2. tm.period + tm.req = tm.period
      BY <1>2, <2>3
    <3> QED BY <1>2, <1>4, <2>3, <3>1, <3>2 DEF TmType
  <2>4. CASE tm.req = 0 /\ tm.end = tm.period
    <3>1. w = v
      BY <1>4, <2>4 DEF ApplyNudge
    <3>2. tm.period + tm.req = tm.period
      BY <1>2, <2>4
    <3> QED BY <1>2, <1>4, <2>4, <3>1, <3>2
  <2> QED BY <2>2, <2>3, <2>4
<1>6. CycleEnd(tm) = w
  BY DEF CycleEnd, u, v
<1> HIDE DEF w
<1>7. Sound(w)
  <2>1. tm.owner \in tm.active /\ tm.on /\ tm.count < tm.end
        /\ tm.req \in Nudges \cup {0} /\ \E p \in Periods : tm.period = Larger(p, MinDelta)
    <3>1. Limit(tm) = tm.end
      BY <1>1, GridFits
    <3> QED BY <1>1, <3>1 DEF Sound, Counting
  <2>2. w.count < w.end /\ w.end < HwMod /\ w.end # 0
    BY <1>2, <1>5, <2>1
  <2> QED BY <1>5, <2>1, <2>2 DEF Sound, Counting, Limit
<1>8. Waiting(w) = Waiting(tm) /\ \A s : Remaining(w, s) = Remaining(u, s)
  BY <1>3, <1>5 DEF Waiting, Remaining, Now
<1>9. Same(tm, w, Waiting(w)) /\ Elapsed(w) = 0 /\ Elapsed(tm) = 0
  BY <1>3, <1>5, <1>8 DEF Same, Elapsed
<1> QED BY <1>5, <1>6, <1>7, <1>8, <1>9 DEF Kept

LEMMA EnterGridKeeps ==
  ASSUME TypeOK, SlotInvariant, EnterGrid
  PROVE  /\ TypeOK' /\ SlotInvariant'
         /\ \A s \in Waiting(tm)' : s \in Waiting(tm) /\ Remaining(tm', s) = Remaining(tm, s)
<1>1. isr.at = "idle" /\ tm.flag /\ tm.owner # None /\ Becomes(CycleEnd(tm), left) /\ wait' = 0
  BY DEF EnterGrid, CycleEnd
<1>2. tm.owner \in tm.active
  BY <1>1 DEF SlotInvariant, Sound
<1>3. isr' = [at |-> "pollCb", n |-> 0]
  BY <1>2 DEF EnterGrid, At
<1>4. Kept(CycleEnd(tm)) /\ CycleEnd(tm).active = tm.active /\ CycleEnd(tm).owner = tm.owner
  BY <1>1, CycleEndKeeps
<1>5. /\ tm' \in TmType /\ left' \in [Slots -> Nat]
      /\ Sound(tm') /\ NotFar(tm') /\ \A s \in Slots : Honest(s)'
      /\ tm'.owner = tm.owner /\ tm'.active = tm.active
      /\ \A s \in Waiting(tm') : s \in Waiting(tm) /\ Remaining(tm', s) = Remaining(tm, s)
  BY <1>1, <1>4, KeptSteps
<1>6. TypeOK'
  BY <1>1, <1>3, <1>5, Bounds DEF TypeOK, Places
<1>7. Aimed(tm')
  BY <1>1, <1>5 DEF Aimed
<1>8. ~OneShotCallback'
  BY <1>1, <1>5 DEF OneShotCallback
<1>9. Overrun' = 0
  BY <1>3 DEF Overrun, Dispatching
<1>10. \A s \in Waiting(tm') : Punctual(s)'
  BY <1>1, <1>3, <1>5, <1>8, <1>9, Times, EnteredPunctual
<1> QED BY <1>3, <1>5, <1>6, <1>7, <1>10 DEF SlotInvariant

LEMMA EnterOneShotKeeps ==
  ASSUME TypeOK, SlotInvariant, EnterOneShot
  PROVE  /\ TypeOK' /\ SlotInvariant'
         /\ \A s \in Waiting(tm)' : s \in Waiting(tm) /\ Remaining(tm', s) = Remaining(tm, s)
<1>1. /\ isr.at = "idle" /\ tm.flag /\ tm.owner = None /\ Becomes(Advance(tm), left) /\ wait' = 0
      /\ isr' = [at |-> "dispatch", n |-> 0]
  BY DEF EnterOneShot, At
<1>2. tm \in TmType /\ Sound(tm)
  BY DEF SlotInvariant, TypeOK
<1> DEFINE a == Advance(tm)
<1>3. /\ a \in TmType /\ a.active = tm.active /\ a.owner = tm.owner
      /\ Now(a) = tm.count /\ a.on = tm.on /\ a.count = tm.count /\ a.end = tm.end /\ a.armed = tm.armed
      /\ ~a.flag /\ Same(tm, a, Waiting(tm))
  BY <1>1, <1>2, AdvanceKeeps
<1>4. Kept(a) /\ a.active = tm.active
  <2>1. Waiting(a) = Waiting(tm)
    BY <1>3 DEF Waiting
  <2>2. Sound(a)
    BY <1>1, <1>2, <1>3 DEF Sound, Counting, Limit
  <2>3. Elapsed(a) <= Elapsed(tm)
    BY <1>1, <1>2, <1>3, Typed DEF Elapsed, Now
  <2> QED BY <1>3, <2>1, <2>2, <2>3 DEF Kept
<1>5. /\ tm' \in TmType /\ left' \in [Slots -> Nat]
      /\ Sound(tm') /\ NotFar(tm') /\ \A s \in Slots : Honest(s)'
      /\ tm'.active = tm.active /\ ~tm'.flag
      /\ \A s \in Waiting(tm') : s \in Waiting(tm) /\ Remaining(tm', s) = Remaining(tm, s)
  BY <1>1, <1>3, <1>4, KeptSteps DEF a
<1>6. TypeOK'
  BY <1>1, <1>5, Bounds DEF TypeOK, Places
<1>7. ~OneShotCallback'
  BY <1>1 DEF OneShotCallback
<1>8. Overrun' = 0
  BY <1>5 DEF Overrun
<1>9. \A s \in Waiting(tm') : Punctual(s)'
  BY <1>1, <1>5, <1>7, <1>8, Times, EnteredPunctual
<1>10. Dispatching' /\ Undisturbed'
  <2>1. isr'.n = 0 /\ isr'.at = "dispatch"
    BY <1>1
  <2> QED BY <1>5, <2>1, Times, Bounds DEF Dispatching, Undisturbed
<1> QED BY <1>1, <1>5, <1>6, <1>9, <1>10 DEF SlotInvariant

\* Disarming the most urgent due slot
LEMMA FireKeeps ==
  ASSUME TypeOK, SlotInvariant, NEW place \in {"dispatchCb", "drainCb"}, FireFirst(place),
         isr.at # "idle", ~OneShotCallback, place = "drainCb" => tm.owner # None,
         place = "dispatchCb" => isr.at = "dispatch"
  PROVE  /\ TypeOK' /\ SlotInvariant'
         /\ \A s \in Waiting(tm)' : s \in Waiting(tm) /\ Remaining(tm', s) = Remaining(tm, s)
<1> DEFINE x == Smallest(Due(tm))
           u == [tm EXCEPT !.active = @ \ {x}]
<1>1. /\ Due(tm) # {} /\ Becomes(u, left) /\ isr' = [at |-> place, n |-> isr.n + 1] /\ wait' = wait
  BY DEF FireFirst, At
<1>2. tm \in TmType /\ Sound(tm)
  BY DEF SlotInvariant, TypeOK
<1>3. x \in tm.active /\ x # tm.owner
  <2>1. Due(tm) \in SUBSET Nat /\ Due(tm) \subseteq Waiting(tm)
    BY Times, SoftTimersAssumption DEF Due
  <2>2. x \in Due(tm)
    BY <1>1, <2>1, SmallestIs
  <2> QED BY <2>1, <2>2 DEF Waiting
<1> HIDE DEF x
<1>4. /\ u \in TmType /\ u.active = tm.active \ {x} /\ u.deadline = tm.deadline /\ u.owner = tm.owner
      /\ u.since = tm.since /\ u.count = tm.count /\ u.flag = tm.flag /\ u.armed = tm.armed
      /\ u.on = tm.on /\ u.end = tm.end /\ u.period = tm.period /\ u.req = tm.req
      /\ u.applied = tm.applied
  BY <1>2 DEF TmType
<1> HIDE DEF u
<1>5. Kept(u)
  <2>1. Waiting(u) \subseteq Waiting(tm) /\ Now(u) = Now(tm)
    BY <1>4 DEF Waiting, Now
  <2>2. Same(tm, u, Waiting(u))
    BY <1>4, <2>1 DEF Same, Remaining
  <2>3. Sound(u)
    BY <1>2, <1>3, <1>4 DEF Sound, Counting, Limit
  <2>4. Elapsed(u) = Elapsed(tm) /\ Elapsed(tm) \in Nat
    BY <1>4, <2>1, Times DEF Elapsed
  <2> QED BY <1>4, <2>1, <2>2, <2>3, <2>4 DEF Kept
<1>6. /\ tm' \in TmType /\ left' \in [Slots -> Nat]
      /\ Sound(tm') /\ NotFar(tm') /\ \A s \in Slots : Honest(s)'
      /\ tm'.active = tm.active \ {x} /\ tm'.owner = tm.owner /\ tm'.flag = tm.flag
      /\ tm'.armed = tm.armed /\ tm'.end = tm.end /\ (Aimed(u) => Aimed(tm'))
      /\ \A s \in Waiting(tm') : s \in Waiting(tm) /\ Remaining(tm', s) = Remaining(tm, s)
  BY <1>1, <1>4, <1>5, KeptSteps
<1>7. TypeOK'
  <2>1. isr' \in [at : Places, n : Nat]
    BY <1>1, Times DEF Places
  <2> QED BY <1>1, <1>6, <2>1 DEF TypeOK
<1>8. Cardinality(tm'.active) = Cardinality(tm.active) - 1
  <2>1. IsFiniteSet(tm.active)
    BY Times
  <2>2. Cardinality(tm.active \ {x}) = Cardinality(tm.active) - 1
    BY <1>3, <2>1, FS_RemoveElement
  <2> QED BY <1>6, <2>2
<1>9. ~OneShotCallback'
  BY <1>1, <1>6 DEF OneShotCallback
<1>10. isr'.at = place /\ isr'.n = isr.n + 1 /\ isr.n \in Nat /\ Cardinality(tm.active) \in Nat
  BY <1>1, Times
<1>11. Undisturbed => Undisturbed'
  BY <1>8, <1>10, Bounds DEF Undisturbed
<1>12. Aimed(tm') \/ (Dispatching' /\ Undisturbed')
  <2>1. CASE place = "drainCb"
    BY <1>6, <2>1 DEF Aimed
  <2>2. CASE Undisturbed /\ place = "dispatchCb"
    BY <1>10, <1>11, <2>2 DEF Dispatching
  <2>3. CASE Aimed(tm)
    <3>1. Now(u) = Now(tm)
      BY <1>4 DEF Now
    <3>2. Aimed(u)
      BY <1>4, <2>3, <3>1 DEF Aimed, Remaining
    <3> QED BY <1>6, <3>2
  <2> QED BY <2>1, <2>2, <2>3 DEF SlotInvariant
<1>13. Overrun' = Overrun
  BY <1>6, <1>10 DEF Overrun, Dispatching
<1>14. ASSUME NEW s \in Waiting(tm') PROVE Punctual(s)'
  <2> DEFINE r == Remaining(tm, s)
  <2>1. s \in Waiting(tm) /\ Remaining(tm', s) = r /\ r \in Int
    BY <1>6, Times
  <2>2. \/ r + MaxLate + wait > 0
        \/ /\ r + MaxLate + 2 * MaxWait + Longest + wait + Overrun >= 0
           /\ Undisturbed
    BY <2>1 DEF SlotInvariant, Punctual
  <2> HIDE DEF r
  <2>3. \/ Remaining(tm', s) + MaxLate + wait' > 0
        \/ /\ Remaining(tm', s) + MaxLate + 2 * MaxWait + Longest + wait' + Overrun' >= 0
           /\ Undisturbed'
    BY <1>1, <1>11, <1>13, <2>1, <2>2
  <2>4. isr'.at # "idle"
    BY <1>10
  <2> QED BY <1>9, <2>3, <2>4 DEF Punctual
<1> QED BY <1>6, <1>7, <1>10, <1>12, <1>14 DEF SlotInvariant

\* When a dispatch or a drain ends no slot is later than a call and the
\* interrupt made it: what was later at the entry has run.
LEMMA NoneLeft ==
  ASSUME TypeOK, SlotInvariant, isr.at # "idle", Due(tm) = {} \/ isr.n >= Cardinality(Slots),
         NEW s \in Waiting(tm)
  PROVE  Remaining(tm, s) + MaxLate + MaxWait >= 0
<1> DEFINE r == Remaining(tm, s)
<1>1. r \in Int /\ wait \in Nat /\ wait <= MaxWait /\ isr.n \in Nat
  BY Times
<1>2. CASE Due(tm) = {}
  <2>1. ~(r <= 0)
    BY <1>2 DEF Due
  <2> QED BY <1>1, <2>1, Bounds
<1>3. CASE isr.n >= Cardinality(Slots)
  <2>1. s \in tm.active
    BY DEF Waiting
  <2>2. Cardinality(tm.active) \in Nat /\ Cardinality(tm.active) # 0
    BY <2>1, Times, FS_EmptySet
  <2>3. ~(isr.n + Cardinality(tm.active) <= Cardinality(Slots))
    BY <1>1, <1>3, <2>2, Bounds
  <2>4. r + MaxLate + wait > 0
    BY <2>3 DEF SlotInvariant, Punctual, Undisturbed
  <2> HIDE DEF r
  <2>5. r + MaxLate + MaxWait >= 0
    BY <1>1, <2>4, Bounds
  <2> QED BY <2>5 DEF r
<1> QED BY <1>2, <1>3

LEMMA RestedPunctual ==
  ASSUME TypeOK', Sound(tm'), Aimed(tm'), isr'.at = "idle",
         NEW s \in Waiting(tm'), Remaining(tm', s) + MaxLate + MaxWait >= 0
  PROVE  Punctual(s)'
<1> DEFINE x == Remaining(tm', s) + MaxLate + MaxWait + Longest
<1>1. tm' \in TmType /\ wait' \in Nat
  BY Bounds DEF TypeOK
<1>2. x \in Int
  BY <1>1, Typed, Bounds, CycleFits
<1>3. x >= 0 /\ (~tm'.flag => x >= Limit(tm') - tm'.count)
  BY <1>1, Rested
<1> HIDE DEF x
<1>4. \A w \in Nat : x >= -w
  BY <1>2, <1>3
<1>5. x >= -wait'
  BY <1>1, <1>4
<1> QED BY <1>3, <1>5 DEF Punctual, x

LEMMA DispatchEndsKeeps ==
  ASSUME TypeOK, SlotInvariant, DispatchEnds
  PROVE  /\ TypeOK' /\ SlotInvariant'
         /\ \A s \in Waiting(tm)' : s \in Waiting(tm) /\ Remaining(tm', s) = Remaining(tm, s)
<1>1. /\ isr.at = "dispatch" /\ (Due(tm) = {} \/ isr.n = Runaway)
      /\ Becomes(Rearm(tm), left) /\ isr' = [at |-> "idle", n |-> 0] /\ wait' = 0
  BY DEF DispatchEnds, At
<1>2. tm \in TmType /\ Sound(tm) /\ InReach(tm)
  BY Reaches DEF SlotInvariant, TypeOK
<1> DEFINE u == Rearm(tm)
<1>3. Called(tm, u, {}) /\ (tm.owner # None => u = tm)
  <2>1. Same(tm, tm, Waiting(tm))
    BY DEF Same
  <2>2. tm.owner # None => u = tm
    BY DEF Rearm
  <2> QED BY <1>2, <2>1, <2>2, RearmCalled
<1> HIDE DEF u
<1>4. Kept(u) /\ Aimed(u)
  <2>1. /\ u \in TmType /\ Sound(u) /\ Aimed(u)
        /\ \A s \in Waiting(u) : s \in Waiting(tm) /\ Remaining(u, s) = Remaining(tm, s)
        /\ u.owner = None => Now(u) = 0
    BY <1>3 DEF Called
  <2>2. Elapsed(u) <= Elapsed(tm)
    BY <2>1, Times DEF Elapsed
  <2> QED BY <2>1, <2>2 DEF Kept, Same
<1>5. /\ tm' \in TmType /\ left' \in [Slots -> Nat]
      /\ Sound(tm') /\ NotFar(tm') /\ \A s \in Slots : Honest(s)'
      /\ Aimed(tm')
      /\ \A s \in Waiting(tm') : s \in Waiting(tm) /\ Remaining(tm', s) = Remaining(tm, s)
  BY <1>1, <1>4, KeptSteps DEF u
<1>6. TypeOK'
  BY <1>1, <1>5, Bounds DEF TypeOK, Places
<1>7. \A s \in Waiting(tm') : Punctual(s)'
  <2> SUFFICES ASSUME NEW s \in Waiting(tm') PROVE Punctual(s)'
    OBVIOUS
  <2>1. isr.at # "idle" /\ (Due(tm) = {} \/ isr.n >= Cardinality(Slots))
    BY <1>1, Bounds
  <2>2. Remaining(tm', s) + MaxLate + MaxWait >= 0
    BY <1>5, <2>1, NoneLeft
  <2> QED BY <1>1, <1>5, <1>6, <2>2, RestedPunctual
<1> QED BY <1>1, <1>5, <1>6, <1>7 DEF SlotInvariant

LEMMA DrainEndsKeeps ==
  ASSUME TypeOK, SlotInvariant, DrainEnds
  PROVE  TypeOK' /\ SlotInvariant'
<1>1. /\ isr.at = "drain" /\ (Due(tm) = {} \/ isr.n = Cardinality(Slots))
      /\ isr' = [at |-> "idle", n |-> 0] /\ wait' = 0 /\ tm' = tm /\ left' = left
  BY DEF DrainEnds, At
<1>2. /\ tm' \in TmType /\ Sound(tm') /\ NotFar(tm') /\ \A s \in Slots : Honest(s)'
      /\ tm'.owner # None
  BY <1>1 DEF SlotInvariant, TypeOK, Honest
<1>3. TypeOK'
  BY <1>1, Bounds DEF TypeOK, Places
<1>4. Aimed(tm')
  BY <1>2 DEF Aimed
<1>5. \A s \in Waiting(tm') : Punctual(s)'
  <2> SUFFICES ASSUME NEW s \in Waiting(tm') PROVE Punctual(s)'
    OBVIOUS
  <2>1. isr.at # "idle" /\ (Due(tm) = {} \/ isr.n >= Cardinality(Slots))
    BY <1>1, Bounds
  <2>2. Remaining(tm', s) + MaxLate + MaxWait >= 0
    BY <1>1, <2>1, NoneLeft
  <2> QED BY <1>1, <1>2, <1>3, <1>4, <2>2, RestedPunctual
<1> QED BY <1>1, <1>2, <1>3, <1>4, <1>5 DEF SlotInvariant

LEMMA CallbackReturnsKeeps ==
  ASSUME TypeOK, SlotInvariant, CallbackReturns
  PROVE  TypeOK' /\ SlotInvariant'
<1>1. /\ isr.at \in {"pollCb", "drainCb", "dispatchCb"} /\ tm' = tm /\ left' = left
      /\ isr' = [at |-> IF isr.at = "dispatchCb" THEN "dispatch"
                        ELSE IF tm.owner = None THEN "idle" ELSE "drain",
                 n |-> IF isr.at # "dispatchCb" /\ tm.owner = None THEN 0 ELSE isr.n]
      /\ wait' = IF isr'.at = "idle" THEN 0 ELSE wait
  BY DEF CallbackReturns, InCallback, At
<1>2. /\ tm' \in TmType /\ Sound(tm') /\ NotFar(tm') /\ \A s \in Slots : Honest(s)'
  BY <1>1 DEF SlotInvariant, TypeOK, Honest
<1>3. TypeOK'
  <2>1. isr' \in [at : Places, n : Nat]
    BY <1>1, Times DEF Places
  <2>2. wait' \in 0 .. MaxWait
    BY <1>1, Bounds DEF TypeOK
  <2> QED BY <1>1, <2>1, <2>2 DEF TypeOK
<1>4. CASE isr'.at = "idle"
  <2>1. OneShotCallback /\ isr.at # "idle"
    BY <1>1, <1>4 DEF OneShotCallback
  <2>2. Aimed(tm')
    BY <1>1, <2>1 DEF SlotInvariant, OneShotCallback, Dispatching
  <2>3. \A s \in Waiting(tm') : Punctual(s)'
    <3> SUFFICES ASSUME NEW s \in Waiting(tm') PROVE Punctual(s)'
      OBVIOUS
    <3> DEFINE r == Remaining(tm, s)
    <3>1. /\ r \in Int /\ wait \in Nat /\ wait <= MaxWait /\ Remaining(tm', s) = r
          /\ s \in Waiting(tm)
      BY <1>1, Times
    <3>2. r + MaxLate + wait > 0
      BY <2>1, <3>1 DEF SlotInvariant, Punctual
    <3> HIDE DEF r
    <3>3. Remaining(tm', s) + MaxLate + MaxWait >= 0
      BY <3>1, <3>2, Bounds
    <3> QED BY <1>2, <1>3, <1>4, <2>2, <3>3, RestedPunctual
  <2> QED BY <1>2, <1>3, <1>4, <2>2, <2>3 DEF SlotInvariant
<1>5. CASE isr'.at # "idle"
  <2>1. isr'.at \in {"dispatch", "drain"} /\ isr'.n = isr.n /\ wait' = wait /\ isr.at # "idle"
    BY <1>1, <1>5
  <2>2. /\ Dispatching' <=> Dispatching
        /\ Undisturbed' <=> Undisturbed
        /\ Overrun' = Overrun
    BY <1>1, <2>1 DEF Dispatching, Undisturbed, Overrun
  <2>3. \A s \in Waiting(tm') : Punctual(s)'
    BY <1>1, <2>1, <2>2 DEF SlotInvariant, Punctual, OneShotCallback
  <2>4. isr'.at = "drain" => tm'.owner # None
    BY <1>1
  <2>5. Aimed(tm') \/ (Dispatching' /\ Undisturbed')
    BY <1>1, <2>2 DEF SlotInvariant
  <2> QED BY <1>2, <1>3, <2>1, <2>3, <2>4, <2>5 DEF SlotInvariant
<1> QED BY <1>4, <1>5

-----------------------------------------------------------------------------
(* The timer *)

\* The count meets the end register after as many ticks as Limit says.
LEMMA EndsIs ==
  ASSUME NEW t, t.count \in Nat, t.end \in Nat, Counting(t)
  PROVE  /\ Limit(t) \in Nat /\ t.count + 1 <= Limit(t)
         /\ (t.count + 1) % HwMod = t.end <=> t.count + 1 = Limit(t)
         /\ (t.count + 1) % HwMod # t.end =>
              (t.count + 1) % HwMod = t.count + 1 /\ t.count + 1 < Limit(t)
<1> DEFINE c == (t.count + 1) % HwMod
<1>1. t.count < Limit(t) /\ t.end < HwMod /\ HwMod \in Nat \ {0}
  BY Halves DEF Counting
<1>2. Limit(t) = IF t.end = 0 THEN HwMod ELSE t.end
  BY DEF Limit
<1>3. CASE t.count + 1 < HwMod
  <2>1. c = t.count + 1
    BY <1>1, <1>3
  <2> QED BY <1>1, <1>2, <1>3, <2>1
<1>4. CASE t.count + 1 = HwMod
  <2>1. c = 0
    BY <1>1, <1>4
  <2> QED BY <1>1, <1>2, <1>4, <2>1
<1> QED BY <1>1, <1>2, <1>3, <1>4

\* A tick takes one from the distance of every waiting slot, and what the end of
\* its interval skips; a second expiry before the first is served takes less.
LEMMA TickMoves ==
  ASSUME TypeOK, SlotInvariant, Tick, NEW s \in Waiting(tm)
  PROVE  /\ Waiting(tm') = Waiting(tm)
         /\ Remaining(tm', s) \in Int /\ Skipped \in Nat
         /\ Remaining(tm', s) >= Remaining(tm, s) - 1 - Skipped
         /\ ~ExpiresTwice => Remaining(tm', s) = Remaining(tm, s) - 1 - Skipped
         /\ Remaining(tm', s) + Elapsed(tm') <= Furthest
         /\ Skipped # 0 =>
              /\ tm.owner = None /\ ~tm.flag /\ tm'.flag /\ Skipped <= tm.armed - tm.end
              /\ Aimed(tm) => Remaining(tm', s) >= 0
<1> DEFINE r == Remaining(tm, s)
           k == Skipped
<1>1. /\ tm \in TmType /\ s \in Slots /\ tm.deadline[s] \in Int /\ Now(tm) \in Nat
      /\ tm.count \in Nat /\ tm.end \in Nat /\ tm.armed \in Nat /\ tm.since \in Nat
      /\ r \in Int
  BY Typed, Times
<1>2. tm' = [tm EXCEPT !.since = IF tm.owner # None THEN (@ + 1) % Mod ELSE @,
                       !.count = IF ~tm.on THEN @ ELSE IF Ends THEN 0 ELSE (@ + 1) % HwMod,
                       !.flag = @ \/ Ends]
  BY DEF Tick
<1>3. /\ Counting(tm) /\ tm.on
      /\ tm.owner = None => /\ tm.armed <= Furthest /\ tm.end <= Limit(tm)
                            /\ tm.armed = Limit(tm) \/ Limit(tm) + HwMod <= tm.armed
  <2>1. Sound(tm)
    BY DEF SlotInvariant
  <2>2. Counting(tm)
    BY <1>1, <2>1, Runs
  <2>3. tm.owner = None => /\ tm.armed <= Furthest /\ tm.end <= Limit(tm)
                           /\ tm.armed = Limit(tm) \/ Limit(tm) + HwMod <= tm.armed
    BY <1>1, <2>1, Runs
  <2> QED BY <2>2, <2>3 DEF Counting
<1>4. /\ Limit(tm) \in Nat /\ tm.count + 1 <= Limit(tm)
      /\ Ends <=> tm.count + 1 = Limit(tm)
      /\ ~Ends => (tm.count + 1) % HwMod = tm.count + 1
  BY <1>1, <1>3, EndsIs DEF Ends
<1>5. k = IF tm.owner = None /\ Ends /\ ~tm.flag THEN tm.armed - (tm.count + 1) ELSE 0
  BY DEF Skipped
<1>6. /\ tm'.active = tm.active /\ tm'.owner = tm.owner /\ tm'.deadline = tm.deadline
      /\ tm'.armed = tm.armed
      /\ tm'.count = (IF Ends THEN 0 ELSE tm.count + 1)
      /\ (tm'.flag <=> tm.flag \/ Ends)
      /\ tm.owner # None => tm'.since = (tm.since + 1) % Mod
  BY <1>1, <1>2, <1>3, <1>4 DEF TmType
<1>7. Waiting(tm') = Waiting(tm)
  BY <1>6 DEF Waiting
<1>8. -Quarter < r /\ r + Elapsed(tm) <= Furthest /\ Elapsed(tm) \in Nat
  BY Reaches, Times DEF InReach
<1>9. Furthest \in Nat /\ Furthest < Quarter
  BY CycleFits, Bounds, Halves
<1> HIDE DEF k
<1>10. CASE tm.owner # None
  <2>1. Now(tm) = tm.since /\ Now(tm') = (Now(tm) + 1) % Mod
    BY <1>6, <1>10 DEF Now
  <2>2. -Half <= r + Now(tm) - (Now(tm) + 1) /\ r + Now(tm) - (Now(tm) + 1) < Half
    BY <1>1, <1>8, <1>9, Halves
  <2>3. Now(tm) + 1 \in Int /\ Now(tm) \in Int
    BY <1>1
  <2>4. Signed(tm.deadline[s] - ((Now(tm) + 1) % Mod)) = r + Now(tm) - (Now(tm) + 1)
    BY <1>1, <2>2, <2>3, Moved DEF Remaining
  <2>5. Remaining(tm', s) = r - 1
    BY <1>1, <1>6, <2>1, <2>4 DEF Remaining
  <2>6. Elapsed(tm') = 0 /\ k = 0
    BY <1>5, <1>6, <1>10 DEF Elapsed
  <2> HIDE DEF r
  <2>7. Remaining(tm', s) + Elapsed(tm') <= Furthest
    BY <1>1, <1>8, <1>9, <2>5, <2>6
  <2>8. Remaining(tm', s) \in Int /\ Remaining(tm', s) = r - 1 - k
    BY <1>1, <2>5, <2>6
  <2> QED BY <1>1, <1>7, <2>6, <2>7, <2>8 DEF r, k
<1>11. CASE tm.owner = None
  <2> DEFINE n == Now(tm')
  <2>1. /\ Now(tm) = IF tm.flag THEN tm.count + tm.armed ELSE tm.count
        /\ n = IF tm.flag \/ Ends THEN tm'.count + tm.armed ELSE tm'.count
    BY <1>1, <1>6, <1>11 DEF Now
  <2>2. /\ n \in Nat /\ k \in Nat /\ n <= Now(tm) + 1 + k
        /\ ~(tm.flag /\ Ends) => n = Now(tm) + 1 + k
        /\ 1 + k <= tm.armed
    BY <1>1, <1>3, <1>4, <1>5, <1>6, <1>11, <2>1, Halves
  <2>3. Elapsed(tm) = Now(tm) /\ Elapsed(tm') = n
    BY <1>6, <1>11 DEF Elapsed
  <2>4. tm.flag /\ Ends => ExpiresTwice
    BY <1>6, <1>11 DEF ExpiresTwice
  <2> HIDE DEF n
  <2>5. -Half <= r + Now(tm) - n /\ r + Now(tm) - n < Half
    <3>1. 1 + k <= Furthest
      BY <1>1, <1>3, <1>9, <1>11, <2>2
    <3> HIDE DEF r
    <3> QED BY <1>1, <1>8, <1>9, <2>2, <2>3, <3>1, Halves
  <2>6. Signed(tm.deadline[s] - n) = r + Now(tm) - n
    <3>1. Now(tm) \in Int /\ n \in Int
      BY <1>1, <2>2
    <3> QED BY <1>1, <2>5, <3>1, Moved DEF Remaining
  <2>7. Remaining(tm', s) = r + Now(tm) - n
    BY <1>6, <2>6 DEF Remaining, n
  <2> HIDE DEF r
  <2>8. /\ Remaining(tm', s) >= r - 1 - k /\ Remaining(tm', s) \in Int
        /\ ~ExpiresTwice => Remaining(tm', s) = r - 1 - k
        /\ Remaining(tm', s) + Elapsed(tm') <= Furthest
    BY <1>1, <1>8, <1>9, <2>2, <2>3, <2>4, <2>7
  <2>9. ASSUME k # 0
        PROVE  /\ ~tm.flag /\ tm'.flag /\ k <= tm.armed - tm.end
               /\ Aimed(tm) => Remaining(tm', s) >= 0
    <3>1. Ends /\ ~tm.flag /\ k = tm.armed - (tm.count + 1) /\ tm.count + 1 = Limit(tm)
      BY <1>4, <1>5, <2>9
    <3>2. Limit(tm) + HwMod <= tm.armed /\ tm.end <= Limit(tm)
      BY <1>1, <1>3, <1>4, <1>11, <2>9, <3>1
    <3>3. k <= tm.armed - tm.end /\ MinDelta < tm.armed - tm.count
      BY <1>1, <1>4, <3>1, <3>2, CycleFits, Bounds, Halves
    <3>4. Aimed(tm) => tm.armed - tm.count <= Larger(r, MinDelta)
      BY <1>11, <3>1 DEF Aimed, Waiting, r
    <3>5. Aimed(tm) => tm.armed - tm.count <= r
      BY <1>1, <3>3, <3>4, Bounds DEF Larger
    <3>6. Remaining(tm', s) = r - (tm.armed - tm.count)
      <4>1. Now(tm) = tm.count /\ n = Now(tm) + 1 + k
        BY <2>1, <2>2, <3>1
      <4> QED BY <1>1, <2>2, <2>7, <3>1, <4>1
    <3> QED BY <1>1, <1>6, <3>1, <3>3, <3>5, <3>6
  <2> QED BY <1>7, <1>11, <2>2, <2>8, <2>9 DEF r, k
<1> QED BY <1>10, <1>11

LEMMA TickKeeps ==
  ASSUME TypeOK, SlotInvariant, Tick
  PROVE  TypeOK' /\ SlotInvariant'
<1> DEFINE c == (tm.count + 1) % HwMod
           ends == Ends
           k == Skipped
<1>1. /\ tm \in TmType /\ Sound(tm) /\ tm.count \in Nat /\ tm.end \in Nat /\ tm.since \in Nat
      /\ tm.armed \in Nat
  BY Typed DEF SlotInvariant, TypeOK
<1>2. /\ tm' = [tm EXCEPT !.since = IF tm.owner # None THEN (@ + 1) % Mod ELSE @,
                          !.count = IF ~tm.on THEN @ ELSE IF ends THEN 0 ELSE c,
                          !.flag = @ \/ ends]
      /\ left' = [s \in Slots |-> Larger(left[s] - (1 + k), 0)]
      /\ wait < MaxWait /\ wait' = IF tm.flag \/ isr.at # "idle" THEN wait + 1 ELSE 0
      /\ isr' = isr
  BY <1>1 DEF Tick
<1>3. /\ c \in Nat
      /\ Counting(tm) =>
           /\ Limit(tm) \in Nat /\ tm.count + 1 <= Limit(tm)
           /\ ends <=> tm.count + 1 = Limit(tm)
           /\ ~ends => c = tm.count + 1 /\ tm.count + 1 < Limit(tm)
  <2>1. c \in 0 .. HwMod - 1
    <3>1. tm.count + 1 \in Int
      BY <1>1
    <3> QED BY <3>1, Halves, Quotient
  <2>2. ASSUME Counting(tm)
        PROVE  /\ Limit(tm) \in Nat /\ tm.count + 1 <= Limit(tm)
               /\ ends <=> tm.count + 1 = Limit(tm)
               /\ ~ends => c = tm.count + 1 /\ tm.count + 1 < Limit(tm)
    <3>1. tm.on
      BY <2>2 DEF Counting
    <3> QED BY <1>1, <2>2, <3>1, EndsIs DEF Ends
  <2> QED BY <2>1, <2>2, Halves
<1>4. (tm.since + 1) % Mod \in Words
  BY <1>1, AlikeWord DEF Words
<1> HIDE DEF c
<1>5. ends \in BOOLEAN /\ k \in Int
  BY <1>1 DEF Ends, Skipped
<1> HIDE DEF ends, k
<1>6. /\ tm' \in TmType
      /\ tm'.active = tm.active /\ tm'.owner = tm.owner /\ tm'.armed = tm.armed
      /\ tm'.on = tm.on /\ tm'.end = tm.end /\ tm'.period = tm.period /\ tm'.req = tm.req
      /\ tm'.applied = tm.applied
      /\ tm'.count = (IF ~tm.on THEN tm.count ELSE IF ends THEN 0 ELSE c)
      /\ (tm'.flag <=> tm.flag \/ ends)
  BY <1>1, <1>2, <1>3, <1>4, <1>5 DEF TmType
<1>7. Limit(tm') = Limit(tm)
  BY <1>6 DEF Limit
<1>8. TypeOK'
  <2>1. left' \in [Slots -> Nat]
    <3>1. \A s \in Slots : Larger(left[s] - (1 + k), 0) \in Nat
      BY <1>5 DEF Larger, TypeOK
    <3> QED BY <1>2, <3>1
  <2>2. wait' \in 0 .. MaxWait
    BY <1>2, Bounds DEF TypeOK
  <2> QED BY <1>2, <1>6, <2>1, <2>2 DEF TypeOK
<1>9. Counting(tm) => Counting(tm')
  <2> SUFFICES ASSUME Counting(tm) PROVE Counting(tm')
    OBVIOUS
  <2>1. tm.on /\ tm.count + 1 <= Limit(tm) /\ Limit(tm) \in Nat
    BY <1>3 DEF Counting
  <2>2. CASE ends
    <3>1. tm'.count = 0
      BY <1>6, <2>1, <2>2
    <3> QED BY <1>1, <1>6, <1>7, <2>1, <3>1 DEF Counting
  <2>3. CASE ~ends
    <3>1. tm'.count = tm.count + 1 /\ tm.count + 1 < Limit(tm)
      BY <1>3, <1>6, <2>1, <2>3
    <3> QED BY <1>6, <1>7, <2>1, <3>1 DEF Counting
  <2> QED BY <2>2, <2>3
<1>10. Sound(tm')
  BY <1>1, <1>6, <1>9 DEF Sound
<1>11. Waiting(tm') = Waiting(tm)
  BY <1>6 DEF Waiting
<1>12. NotFar(tm')
  BY <1>11, TickMoves DEF NotFar
<1>13. ASSUME NEW s \in Waiting(tm)
       PROVE  LET r == Remaining(tm, s)
                  q == Remaining(tm', s)
              IN /\ r \in Int /\ q \in Int /\ k \in Nat /\ q >= r - 1 - k
                 /\ k # 0 => /\ tm.owner = None /\ ~tm.flag /\ tm'.flag /\ k <= tm.armed - tm.end
                             /\ Aimed(tm) => q >= 0
  BY <1>13, TickMoves, Times DEF k
<1>14. ASSUME NEW s \in Slots PROVE Honest(s)'
  <2> SUFFICES ASSUME left'[s] > 0 PROVE s \in Waiting(tm') /\ Remaining(tm', s) >= left'[s]
    BY DEF Honest
  <2>1. left[s] \in Nat
    BY DEF TypeOK
  <2>2. left'[s] = left[s] - (1 + k) /\ (k \in Nat => left[s] > 0)
    BY <1>2, <1>5, <2>1 DEF Larger
  <2>3. CASE left[s] > 0
    <3>1. s \in Waiting(tm) /\ Remaining(tm, s) >= left[s]
      BY <2>3 DEF SlotInvariant, Honest
    <3>2. /\ Remaining(tm', s) >= Remaining(tm, s) - 1 - k /\ k \in Nat
          /\ Remaining(tm, s) \in Int /\ Remaining(tm', s) \in Int
      BY <1>13, <3>1
    <3> QED BY <1>11, <2>1, <2>2, <3>1, <3>2
  <2>4. CASE ~(left[s] > 0)
    <3>1. ~(k \in Nat)
      BY <2>2, <2>4
    <3>2. tm.armed - (tm.count + 1) < 0 /\ tm.owner = None /\ ends
      BY <1>1, <3>1 DEF k, Skipped, ends
    <3>3. tm.on
      BY <3>2 DEF ends, Ends
    <3>4. /\ Counting(tm) /\ 1 <= tm.armed /\ tm.end = tm.armed % HwMod
      BY <1>1, <3>2, <3>3 DEF Sound
    <3>5. Limit(tm) \in Nat /\ Limit(tm) <= tm.armed
      BY <1>1, <3>4, Cut, Halves
    <3> QED BY <1>1, <1>3, <3>2, <3>4, <3>5
  <2> QED BY <2>3, <2>4
<1>15. ASSUME NEW s \in Waiting(tm') PROVE Punctual(s)'
  <2> DEFINE r == Remaining(tm, s)
             q == Remaining(tm', s)
  <2>1. /\ s \in Waiting(tm) /\ r \in Int /\ q \in Int /\ k \in Nat /\ q >= r - 1 - k
        /\ k # 0 => /\ tm.owner = None /\ ~tm.flag /\ tm'.flag /\ k <= tm.armed - tm.end
                    /\ Aimed(tm) => q >= 0
    BY <1>11, <1>13
  <2>2. Punctual(s)
    BY <2>1 DEF SlotInvariant
  <2>3. /\ wait \in Nat /\ tm.on /\ Limit(tm) \in Nat /\ (ends <=> tm.count + 1 = Limit(tm))
        /\ ~ends => c = tm.count + 1
    <3>1. Counting(tm)
      BY <1>1, <2>1, Runs
    <3>2. tm.on /\ wait \in Nat
      BY <3>1, Times DEF Counting
    <3>3. Limit(tm) \in Nat /\ (ends <=> tm.count + 1 = Limit(tm)) /\ (~ends => c = tm.count + 1)
      BY <1>3, <3>1
    <3> QED BY <3>2, <3>3
  <2>4. CASE isr.at = "idle"
    <3>1. r + MaxLate + MaxWait + Longest >= IF tm.flag THEN -wait ELSE Limit(tm) - tm.count
      BY <2>2, <2>4 DEF Punctual
    <3>2. wait' = IF tm.flag THEN wait + 1 ELSE 0
      BY <1>2, <2>4
    <3>3. Aimed(tm)
      BY <2>4 DEF SlotInvariant, Dispatching
    <3> HIDE DEF r, q
    <3>4. q + MaxLate + MaxWait + Longest >= IF tm'.flag THEN -wait' ELSE Limit(tm') - tm'.count
      <4>1. CASE tm.flag
        <5>1. r + MaxLate + MaxWait + Longest >= -wait /\ tm'.flag /\ wait' = wait + 1 /\ k = 0
          BY <1>6, <2>1, <3>1, <3>2, <4>1
        <5>2. q + MaxLate + MaxWait + Longest >= -(wait + 1)
          BY <2>1, <2>3, <5>1, Bounds, CycleFits
        <5> QED BY <5>1, <5>2
      <4>2. CASE ~tm.flag /\ k # 0
        <5>1. q >= 0 /\ tm'.flag /\ wait' = 0
          BY <2>1, <3>2, <3>3, <4>2
        <5>2. q + MaxLate + MaxWait + Longest >= -0
          BY <2>1, <5>1, Bounds, CycleFits
        <5> QED BY <5>1, <5>2
      <4>3. CASE ~tm.flag /\ k = 0
        <5>1. r + MaxLate + MaxWait + Longest >= Limit(tm) - tm.count /\ wait' = 0 /\ (tm'.flag <=> ends)
          BY <1>6, <3>1, <3>2, <4>3
        <5>2. q + MaxLate + MaxWait + Longest >= Limit(tm) - (tm.count + 1)
          BY <1>1, <2>1, <2>3, <4>3, <5>1, Bounds, CycleFits
        <5>3. CASE ends
          <6>1. Limit(tm) - (tm.count + 1) = 0
            BY <1>1, <2>3, <5>3
          <6>2. q + MaxLate + MaxWait + Longest >= -0
            BY <2>1, <5>2, <6>1, Bounds, CycleFits
          <6>3. tm'.flag /\ wait' = 0
            BY <5>1, <5>3
          <6> QED BY <6>2, <6>3
        <5>4. CASE ~ends
          <6>1. tm'.count = tm.count + 1
            BY <1>6, <2>3, <5>4
          <6> QED BY <1>7, <5>1, <5>2, <5>4, <6>1
        <5> QED BY <5>3, <5>4
      <4> QED BY <4>1, <4>2, <4>3
    <3> QED BY <1>2, <2>4, <3>4 DEF Punctual, q
  <2>5. CASE isr.at # "idle"
    <3>1. \/ r + MaxLate + wait > 0
          \/ /\ r + MaxLate + 2 * MaxWait + Longest + wait + Overrun >= 0
             /\ Undisturbed
             /\ ~OneShotCallback
      BY <2>2, <2>5 DEF Punctual
    <3>2. wait' = wait + 1
      BY <1>2, <2>5
    <3>3. /\ OneShotCallback' <=> OneShotCallback
          /\ Undisturbed' <=> Undisturbed
          /\ Dispatching' <=> Dispatching
      BY <1>2, <1>6 DEF OneShotCallback, Undisturbed, Dispatching
    <3>4. Overrun \in Nat
      BY <2>1, OverrunIs
    <3>5. tm.owner = None => tm.end <= tm.armed
      BY <1>1, <2>1, Runs
    <3>6. Overrun' \in Nat /\ Overrun' >= Overrun
      BY <1>1, <1>6, <3>3, <3>4, <3>5 DEF Overrun
    <3> HIDE DEF r, q
    <3>7. CASE k = 0
      <4>0. q >= r - 1 /\ wait' = wait + 1 /\ Overrun' >= Overrun
        BY <2>1, <3>2, <3>6, <3>7
      <4>1. /\ r + MaxLate + wait > 0 => q + MaxLate + wait' > 0
            /\ r + MaxLate + 2 * MaxWait + Longest + wait + Overrun >= 0
                 => q + MaxLate + 2 * MaxWait + Longest + wait' + Overrun' >= 0
        <5>1. r + MaxLate + wait > 0 => q + MaxLate + wait' > 0
          BY <2>1, <2>3, <4>0, Bounds
        <5>2. \A x, y, z, u, v, w \in Int : y >= x - 1 /\ v >= u /\ x + z + w + u >= 0
                                             => y + z + (w + 1) + v >= 0
          OBVIOUS
        <5>3. MaxLate + 2 * MaxWait + Longest \in Int
          BY Bounds, CycleFits
        <5>4. /\ r + MaxLate + 2 * MaxWait + Longest = r + (MaxLate + 2 * MaxWait + Longest)
              /\ q + MaxLate + 2 * MaxWait + Longest = q + (MaxLate + 2 * MaxWait + Longest)
          BY <2>1, Bounds, CycleFits
        <5> QED BY <2>1, <2>3, <3>4, <3>6, <4>0, <5>1, <5>2, <5>3, <5>4
      <4> QED BY <1>2, <2>5, <3>1, <3>3, <4>1 DEF Punctual, q
    <3>8. CASE k # 0 /\ Aimed(tm)
      <4>1. q + MaxLate + wait' > 0
        BY <2>1, <2>3, <3>2, <3>8, Bounds
      <4> QED BY <1>2, <2>5, <4>1 DEF Punctual, q
    <3>9. CASE k # 0 /\ ~Aimed(tm)
      <4>1. Dispatching /\ Undisturbed /\ ~OneShotCallback
        BY <3>9 DEF SlotInvariant, Dispatching, OneShotCallback
      <4>2. Overrun = 0 /\ Overrun' = tm.armed - tm.end
        BY <1>6, <2>1, <3>3, <3>9, <4>1 DEF Overrun
      <4>3. r + MaxLate + 2 * MaxWait + Longest + wait >= 0
        BY <2>1, <2>3, <3>1, <4>2, Bounds, CycleFits
      <4>4. q + MaxLate + 2 * MaxWait + Longest + wait' + Overrun' >= 0
        <5> DEFINE v == Overrun'
                   z == MaxLate + 2 * MaxWait + Longest
        <5>1. k <= v /\ v \in Nat /\ q \in Int /\ r \in Int /\ k \in Nat /\ q >= r - 1 - k
          BY <2>1, <3>6, <3>9, <4>2
        <5>2. z \in Int /\ r + z = r + MaxLate + 2 * MaxWait + Longest
              /\ q + z = q + MaxLate + 2 * MaxWait + Longest
          BY <5>1, Bounds, CycleFits
        <5>3. r + z + wait >= 0 /\ wait \in Nat
          BY <2>3, <4>3, <5>2
        <5> HIDE DEF v, z
        <5>4. q + z + (wait + 1) + v >= 0
          BY <5>1, <5>2, <5>3
        <5> QED BY <3>2, <5>2, <5>4 DEF v
      <4> QED BY <1>2, <2>5, <3>3, <4>1, <4>4 DEF Punctual, q
    <3> QED BY <3>7, <3>8, <3>9
  <2> QED BY <2>4, <2>5
<1>16. ASSUME Aimed(tm) PROVE Aimed(tm')
  <2> SUFFICES ASSUME tm.owner = None, ~tm'.flag, NEW s \in tm.active
               PROVE  tm'.armed - tm'.count <= Larger(Remaining(tm', s), MinDelta)
    BY <1>6 DEF Aimed
  <2>1. ~tm.flag /\ ~ends
    BY <1>6
  <2>2. s \in Waiting(tm)
    BY Times, SoftTimersAssumption DEF Waiting
  <2>3. tm.armed - tm.count <= Larger(Remaining(tm, s), MinDelta)
    BY <1>16, <2>1 DEF Aimed
  <2>4. Remaining(tm', s) >= Remaining(tm, s) - 1 /\ Remaining(tm, s) \in Int /\ Remaining(tm', s) \in Int
    BY <1>13, <2>2
  <2>5. tm.on /\ c = tm.count + 1
    <3>1. Counting(tm)
      BY <1>1, <2>2, Runs
    <3>2. tm.on
      BY <3>1 DEF Counting
    <3>3. c = tm.count + 1
      BY <1>3, <2>1, <3>1
    <3> QED BY <3>2, <3>3
  <2>6. tm'.armed = tm.armed /\ tm'.count = tm.count + 1
    BY <1>6, <2>1, <2>5
  <2> QED BY <1>1, <2>3, <2>4, <2>6, Bounds DEF Larger
<1>17. Aimed(tm') \/ (Dispatching' /\ Undisturbed')
  <2>1. Dispatching' = Dispatching /\ Undisturbed' = Undisturbed
    BY <1>2, <1>6 DEF Dispatching, Undisturbed
  <2> QED BY <1>16, <2>1 DEF SlotInvariant
<1> QED BY <1>2, <1>6, <1>8, <1>10, <1>12, <1>14, <1>15, <1>17 DEF SlotInvariant

-----------------------------------------------------------------------------
(* Every step *)

\* Every slot that waits before a step and after it is as far from its deadline,
\* but the one a call has set
Steady == \A s \in Waiting(tm) \cap Waiting(tm)' :
            (\E d \in Delays : Set(s, d)) \/ Remaining(tm, s)' = Remaining(tm, s)

LEMMA CallMoves ==
  ASSUME TypeOK, NEW u, NEW l, NEW S, Called(tm, u, S), Becomes(u, l)
  PROVE  \A s \in Waiting(tm') \ S : Remaining(tm', s) = Remaining(tm, s)
<1>1. tm \in TmType /\ tm' = Tidy(u)
  BY DEF TypeOK, Becomes, Tidy
<1>2. Called(tm, tm', S)
  BY <1>1, TidyCalled
<1> QED BY <1>2 DEF Called

LEMMA SetKeeps ==
  ASSUME TypeOK, SlotInvariant, NEW s \in Slots, NEW d \in Delays, Set(s, d)
  PROVE  TypeOK' /\ SlotInvariant' /\ Steady
<1> DEFINE u == SetOneShot(tm, s, d)
           l == [left EXCEPT ![s] = d]
<1>1. Becomes(u, l) /\ Calls
  BY DEF Set
<1>2. tm \in TmType /\ Sound(tm) /\ InReach(tm) /\ d \in Nat /\ d <= Furthest
  BY Reaches, CycleFits DEF SlotInvariant, TypeOK
<1>3. Called(tm, u, {s}) /\ s \in Waiting(u) /\ Remaining(u, s) = d
  BY <1>2, SetCalled
<1>4. l \in [Slots -> Nat] /\ l[s] = d /\ \A o \in Slots \ {s} : l[o] = left[o]
  BY <1>2, Times
<1> HIDE DEF u, l
<1>5. TypeOK' /\ SlotInvariant'
  <2>1. \A o \in {s} : o \in Waiting(u) /\ Remaining(u, o) = l[o] /\ l[o] <= Furthest
    BY <1>2, <1>3, <1>4
  <2>2. {s} \in SUBSET Slots
    OBVIOUS
  <2> QED BY <1>1, <1>3, <1>4, <2>1, <2>2, CallKeeps
<1>6. \A o \in Waiting(tm') \ {s} : Remaining(tm', o) = Remaining(tm, o)
  BY <1>1, <1>3, CallMoves
<1> QED BY <1>5, <1>6 DEF Steady

LEMMA QuietCallKeeps ==
  ASSUME TypeOK, SlotInvariant, Calls, NEW u, Called(tm, u, {}), Becomes(u, left)
  PROVE  TypeOK' /\ SlotInvariant' /\ Steady
<1>1. TypeOK' /\ SlotInvariant'
  <2>1. left \in [Slots -> Nat] /\ {} \in SUBSET Slots
    BY DEF TypeOK
  <2> QED BY <2>1, CallKeeps
<1>2. \A s \in Waiting(tm') \ {} : Remaining(tm', s) = Remaining(tm, s)
  BY CallMoves
<1> QED BY <1>1, <1>2 DEF Steady

LEMMA CallerKeeps ==
  ASSUME TypeOK, SlotInvariant, Caller
  PROVE  TypeOK' /\ SlotInvariant' /\ Steady
<1>1. tm \in TmType /\ Sound(tm) /\ InReach(tm)
  BY Reaches DEF SlotInvariant, TypeOK
<1>2. ASSUME NEW s \in Slots, NEW d \in Delays, Set(s, d)
      PROVE  TypeOK' /\ SlotInvariant' /\ Steady
  BY <1>2, SetKeeps
<1>3. ASSUME NEW s \in Slots, Cancel(s)
      PROVE  TypeOK' /\ SlotInvariant' /\ Steady
  <2>1. Becomes(CancelSlot(tm, s), left) /\ Calls
    BY <1>3 DEF Cancel
  <2>2. Called(tm, CancelSlot(tm, s), {})
    BY <1>1, CancelCalled
  <2> QED BY <2>1, <2>2, QuietCallKeeps
<1>4. ASSUME NEW s \in Cadence, NEW p \in Periods, SetPeriodic(s, p)
      PROVE  TypeOK' /\ SlotInvariant' /\ Steady
  <2>1. Becomes(SetGrid(tm, s, p), left) /\ Calls
    BY <1>4 DEF SetPeriodic
  <2>2. Called(tm, SetGrid(tm, s, p), {})
    BY <1>1, GridCalled
  <2> QED BY <2>1, <2>2, QuietCallKeeps
<1>5. ASSUME NEW f \in Cadence, NEW s \in Cadence, NEW p \in Periods, Promote(f, s, p)
      PROVE  TypeOK' /\ SlotInvariant' /\ Steady
  <2> DEFINE u == IF tm.owner = f THEN Transferred(tm, f, s) ELSE SetGrid(tm, s, p)
  <2>1. Becomes(u, left) /\ Calls
    BY <1>5 DEF Promote
  <2>2. Called(tm, u, {})
    <3>1. tm.owner = f => Called(tm, Transferred(tm, f, s), {})
      BY <1>1, TransferCalled
    <3>2. Called(tm, SetGrid(tm, s, p), {})
      BY <1>1, GridCalled
    <3> QED BY <3>1, <3>2
  <2> HIDE DEF u
  <2> QED BY <2>1, <2>2, QuietCallKeeps
<1>6. ASSUME NEW d \in Nudges, Nudge(d)
      PROVE  TypeOK' /\ SlotInvariant' /\ Steady
  <2>1. tm.owner # None /\ Becomes([tm EXCEPT !.req = d], left) /\ Calls
    BY <1>6 DEF Nudge
  <2>2. Called(tm, [tm EXCEPT !.req = d], {})
    BY <1>1, <2>1, NudgeCalled
  <2> QED BY <2>1, <2>2, QuietCallKeeps
<1> QED BY <1>2, <1>3, <1>4, <1>5, <1>6 DEF Caller

LEMMA InterruptKeeps ==
  ASSUME TypeOK, SlotInvariant, Interrupt
  PROVE  TypeOK' /\ SlotInvariant' /\ Steady
<1>1. CASE EnterGrid
  BY <1>1, EnterGridKeeps DEF Steady
<1>2. CASE EnterOneShot
  BY <1>2, EnterOneShotKeeps DEF Steady
<1>3. CASE DispatchFires
  <2>1. FireFirst("dispatchCb") /\ isr.at = "dispatch" /\ ~OneShotCallback
    BY <1>3 DEF DispatchFires, OneShotCallback
  <2>2. /\ TypeOK' /\ SlotInvariant'
        /\ \A s \in Waiting(tm)' : s \in Waiting(tm) /\ Remaining(tm', s) = Remaining(tm, s)
    BY <2>1, FireKeeps
  <2> QED BY <2>2 DEF Steady
<1>4. CASE DispatchEnds
  BY <1>4, DispatchEndsKeeps DEF Steady
<1>5. CASE DrainFires
  <2>1. FireFirst("drainCb") /\ isr.at = "drain" /\ ~OneShotCallback /\ tm.owner # None
    BY <1>5 DEF DrainFires, OneShotCallback, SlotInvariant
  <2>2. /\ TypeOK' /\ SlotInvariant'
        /\ \A s \in Waiting(tm)' : s \in Waiting(tm) /\ Remaining(tm', s) = Remaining(tm, s)
    BY <2>1, FireKeeps
  <2> QED BY <2>2 DEF Steady
<1>6. CASE DrainEnds
  <2>1. tm' = tm
    BY <1>6 DEF DrainEnds
  <2> QED BY <1>6, <2>1, DrainEndsKeeps DEF Steady
<1>7. CASE CallbackReturns
  <2>1. tm' = tm
    BY <1>7 DEF CallbackReturns
  <2> QED BY <1>7, <2>1, CallbackReturnsKeeps DEF Steady
<1> QED BY <1>1, <1>2, <1>3, <1>4, <1>5, <1>6, <1>7 DEF Interrupt

LEMMA InitHolds ==
  ASSUME Init
  PROVE  TypeOK /\ SlotInvariant
<1>1. /\ tm = [active |-> {}, deadline |-> [s \in Slots |-> 0], armed |-> 0,
               owner |-> None, period |-> 0, since |-> 0, req |-> 0, applied |-> 0,
               on |-> FALSE, count |-> 0, end |-> 0, flag |-> FALSE]
      /\ isr = [at |-> "idle", n |-> 0] /\ left = [s \in Slots |-> 0] /\ wait = 0
  BY DEF Init
<1>2. 0 \in Words
  BY Halves DEF Words
<1>3. TypeOK
  <2>1. tm \in TmType
    BY <1>1, <1>2 DEF TmType
  <2> QED BY <1>1, <2>1, Bounds DEF TypeOK, Places
<1>4. Waiting(tm) = {} /\ tm.active = {} /\ ~tm.on /\ tm.owner = None /\ isr.at = "idle"
      /\ \A s \in Slots : left[s] = 0
  BY <1>1 DEF Waiting
<1> QED BY <1>3, <1>4 DEF SlotInvariant, Sound, NotFar, Aimed, Honest

LEMMA NextKeeps ==
  ASSUME TypeOK, SlotInvariant, [Next]_vars
  PROVE  TypeOK' /\ SlotInvariant'
<1>1. CASE Next
  BY <1>1, TickKeeps, InterruptKeeps, CallerKeeps DEF Next
<1>2. CASE UNCHANGED vars
  <2>1. tm' = tm /\ isr' = isr /\ left' = left /\ wait' = wait
    BY <1>2 DEF vars
  <2> QED BY <2>1 DEF TypeOK, SlotInvariant, Honest, Punctual, OneShotCallback,
                    Dispatching, Undisturbed, Overrun
<1> QED BY <1>1, <1>2

-----------------------------------------------------------------------------
(* The theorems *)

\* In every reachable state, whatever calls, interrupts and ticks led to it, the
\* timer and its slots fit together: the end register holds what it can of the
\* interval the clock will be moved by, no slot is later than the interrupt can
\* make it, and no word is read as the wrong side of a deadline.
THEOREM SlotInvariantHolds == Spec => [](TypeOK /\ SlotInvariant)
<1>1. Init => TypeOK /\ SlotInvariant
  BY InitHolds
<1>2. (TypeOK /\ SlotInvariant) /\ [Next]_vars => (TypeOK /\ SlotInvariant)'
  BY NextKeeps
<1> QED BY <1>1, <1>2, PTL DEF Spec

\* No slot is dispatched before its delay has passed (sched.h: "fires not earlier
\* than the deadline"), but for what the clock skipped at the end of an interval
\* longer than the end register while the slot waited (st_rearm, TODO.md 96-155):
\* the software clock leaves a slot at least the true time less that.  With
\* intervals that fit the register nothing is skipped.
THEOREM NeverEarlyHolds == Spec => []NeverEarly
<1>1. TypeOK /\ SlotInvariant => NeverEarly
  BY DEF SlotInvariant, Honest, NeverEarly
<1>2. Spec => [](TypeOK /\ SlotInvariant)
  BY SlotInvariantHolds
<1> QED BY <1>1, <1>2, PTL

\* Between two interrupts the hardware timer runs whenever a slot is armed, and
\* ends by every slot's deadline, the floor, or the end of the grid's period
\* (st_rearm, st_set_periodic, the TMR interrupt).
THEOREM CoveredHolds == Spec => []Covered
<1>1. TypeOK /\ SlotInvariant => Covered
  <2> SUFFICES ASSUME TypeOK, SlotInvariant, isr.at = "idle", tm.active # {}
               PROVE  /\ tm.on /\ (tm.owner # None => tm.owner \in tm.active)
                      /\ tm.flag \/ \A s \in tm.active :
                           tm.end - tm.count <= IF tm.owner # None THEN tm.period + tm.applied
                                                ELSE Larger(Remaining(tm, s), MinDelta)
    BY DEF Covered
  <2>1. Sound(tm) /\ Aimed(tm)
    BY DEF SlotInvariant, Dispatching
  <2>2. CASE tm.owner = None
    <3> SUFFICES ASSUME ~tm.flag, NEW s \in tm.active
                 PROVE  tm.end - tm.count <= Larger(Remaining(tm, s), MinDelta)
      BY <2>1, <2>2 DEF Sound
    <3>1. tm.armed - tm.count <= Larger(Remaining(tm, s), MinDelta)
      BY <2>1, <2>2 DEF Aimed
    <3>2. s \in Waiting(tm)
      BY <2>2, Times, SoftTimersAssumption DEF Waiting
    <3>3. tm.end <= tm.armed
      BY <2>1, <2>2, <3>2, Times, Runs
    <3>4. Remaining(tm, s) \in Int
      BY <3>2, Times
    <3> QED BY <3>1, <3>3, <3>4, Times, Bounds DEF Larger
  <2>3. CASE tm.owner # None
    <3>1. tm.owner \in tm.active /\ tm.on /\ tm.end = tm.period + tm.applied
      BY <2>1, <2>3 DEF Sound, Counting, Limit
    <3>2. tm.end - tm.count <= tm.end
      BY Times
    <3> QED BY <2>3, <3>1, <3>2
  <2> QED BY <2>2, <2>3
<1>2. Spec => [](TypeOK /\ SlotInvariant)
  BY SlotInvariantHolds
<1> QED BY <1>1, <1>2, PTL

\* Only time moves the software clock under a waiting slot: neither a call for
\* another slot, nor an interrupt, nor entering or leaving the grid does (the
\* epochs of st_advance, st_periodic_sync and st_periodic_exit_locked).  A tick
\* moves it by one, or at the end of an interval longer than the end register by
\* one and what the register dropped; a second expiry before the first is served
\* is the exception.
THEOREM ClockContinuousHolds == Spec => ClockContinuous
<1> DEFINE Moves == ExpiresTwice \/ \A s \in Waiting(tm) \cap Waiting(tm)' :
                      \/ Remaining(tm, s)' = Remaining(tm, s) - IF Tick THEN 1 + Skipped ELSE 0
                      \/ \E d \in Delays : Set(s, d)
<1>1. TypeOK /\ SlotInvariant /\ [Next]_vars => [Moves]_vars
  <2> SUFFICES ASSUME TypeOK, SlotInvariant, Next, ~ExpiresTwice,
                      NEW s \in Waiting(tm) \cap Waiting(tm)'
               PROVE  \/ Remaining(tm, s)' = Remaining(tm, s) - IF Tick THEN 1 + Skipped ELSE 0
                      \/ \E d \in Delays : Set(s, d)
    OBVIOUS
  <2>1. CASE Tick
    <3>1. /\ Remaining(tm', s) = Remaining(tm, s) - 1 - Skipped
          /\ Skipped \in Nat /\ Remaining(tm, s) \in Int
      BY <2>1, TickMoves, Times
    <3>2. Remaining(tm', s) = Remaining(tm, s) - (1 + Skipped)
      BY <3>1
    <3> QED BY <2>1, <3>2
  <2>2. CASE ~Tick
    <3>1. Steady
      BY <2>2, InterruptKeeps, CallerKeeps DEF Next
    <3>2. Remaining(tm, s) \in Int
      BY Times
    <3>3. Remaining(tm, s) = Remaining(tm, s) - 0
      BY <3>2
    <3> QED BY <2>2, <3>1, <3>3 DEF Steady
  <2> QED BY <2>1, <2>2
<1>2. Spec => [](TypeOK /\ SlotInvariant)
  BY SlotInvariantHolds
<1> QED BY <1>1, <1>2, PTL DEF Spec, ClockContinuous

\* No slot that waits is ever overdue by more than its callers and the interrupt
\* allow: what a caller may find late, one cycle of the timer and three times the
\* interrupt's latency, and what a second interval skipped that ended in the same
\* dispatch.  This is the late side of NeverEarly, in the clock the code reads, and
\* it is why a distance to a deadline is never read with the wrong sign (st_rearm,
\* st_dispatch).
NeverLate == \A s \in Waiting(tm) :
               Remaining(tm, s) + MaxLate + 3 * MaxWait + Longest + Overrun >= 0
THEOREM NeverLateHolds == Spec => []NeverLate
<1>1. TypeOK /\ SlotInvariant => NeverLate
  <2> SUFFICES ASSUME TypeOK, SlotInvariant, NEW s \in Waiting(tm)
               PROVE  Remaining(tm, s) + MaxLate + 3 * MaxWait + Longest + Overrun >= 0
    BY DEF NeverLate
  <2> DEFINE r == Remaining(tm, s)
             togo == Limit(tm) - tm.count
  <2>1. r \in Int /\ wait \in Nat /\ wait <= MaxWait /\ tm.count \in Nat
    BY Times
  <2>2. togo \in Int /\ togo > 0
    <3>1. Counting(tm) /\ Limit(tm) \in Nat
      BY Runs, Times DEF SlotInvariant
    <3> QED BY <2>1, <3>1 DEF Counting
  <2>3. Punctual(s) /\ Overrun \in Nat
    BY OverrunIs DEF SlotInvariant
  <2>4. \/ r + MaxLate + MaxWait + Longest >= -wait
        \/ r + MaxLate + MaxWait + Longest >= togo
        \/ r + MaxLate + wait > 0
        \/ r + MaxLate + 2 * MaxWait + Longest + wait + Overrun >= 0
    BY <2>3 DEF Punctual
  <2> HIDE DEF r, togo
  <2>5. r + MaxLate + 3 * MaxWait + Longest + Overrun >= 0
    BY <2>1, <2>2, <2>3, <2>4, Bounds, CycleFits
  <2> QED BY <2>5 DEF r
<1>2. Spec => [](TypeOK /\ SlotInvariant)
  BY SlotInvariantHolds
<1> QED BY <1>1, <1>2, PTL
=============================================================================
