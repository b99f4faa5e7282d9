--------------------------- MODULE PmDeadlineProofs ---------------------------
(***************************************************************************)
(* Proof of TimersCovered: no sleep of the CH592 power manager runs past a *)
(* TMOS timer that is still running, nor past an expiry not yet            *)
(* dispatched.                                                             *)
(*                                                                         *)
(* The inductive invariant is DeadlineState.  An entry of pm_deadline      *)
(* follows its timer (EntryFollows); a plan, and the sleep armed from it,  *)
(* ends soon after every entry it keeps (PlanCovers, SleepCovers); and     *)
(* what a plan retires is owed to no timer (ClearsUnowed).  The last rests *)
(* on pm_settled comparing two distances modulo Mod, so how far an entry   *)
(* (Recent) and the previous clock read (ReadYoung) can be behind is       *)
(* bounded, and on the passes of an iteration leaving no expiry that the   *)
(* previous plan had seen undispatched (Settles).                          *)
(*                                                                         *)
(* A step other than a tick either leaves a timer alone and loses no pass, *)
(* or starts it afresh, or polls it (Carried); a tick moves every distance *)
(* by one.                                                                 *)
(***************************************************************************)
EXTENDS PmIdleProofs
-----------------------------------------------------------------------------
(* Distances of the RTC *)

Half == Mod \div 2

\* The signed distance of an entry, or of a clock read, from the count
Pos(x) == IF Past(x) THEN x - Mod ELSE x

LEMMA HalfMod == Half \in Nat /\ Mod \in Nat \ {0} /\ 2 * Half <= Mod /\ Mod <= 2 * Half + 1
BY PmIdleAssumption DEF Half

\* A remainder is the number itself, or the number a modulus further.
LEMMA Remainder ==
  ASSUME NEW x \in Int, NEW m \in Nat \ {0}
  PROVE  /\ 0 <= x /\ x < m => x % m = x
         /\ -m <= x /\ x < 0 => x % m = x + m
<1>1. 0 <= x /\ x < m => x % m = x
  OBVIOUS
<1>2. -m <= x /\ x < 0 => x % m = x + m
  OBVIOUS
<1> QED BY <1>1, <1>2

\* Multiples of the cap
LEMMA Times ==
  ASSUME NEW f \in Nat, NEW g \in Int, f < g, NEW c \in Nat
  PROVE  f * c \in Nat /\ f * c + c <= g * c
<1>1. PICK k \in Nat : g = f + 1 + k
  <2>1. g - f - 1 \in Nat /\ g = f + 1 + (g - f - 1)
    OBVIOUS
  <2> QED BY <2>1
<1>2. f * c \in Nat /\ k * c \in Nat
  OBVIOUS
<1>3. g * c = f * c + c + k * c
  BY <1>1
<1> QED BY <1>2, <1>3

LEMMA TimesNat == \A f, c \in Nat : f * c \in Nat
OBVIOUS

LEMMA PosRange ==
  ASSUME NEW x \in Clocks, x # Empty
  PROVE  Pos(x) \in Int /\ -Half - 1 <= Pos(x) /\ Pos(x) < Half
BY HalfMod DEF Pos, Past, Clocks, Half

\* A tick brings an entry a tick nearer, until half the modulus has passed.
LEMMA BackPos ==
  ASSUME NEW x \in Clocks, x # Empty, -Half < Pos(x)
  PROVE  Back(x) # Empty /\ Pos(Back(x)) = Pos(x) - 1
<1>1. x \in Nat /\ x < Mod /\ Half >= 1
  BY HalfMod, PosRange DEF Clocks
<1>2. Back(x) = IF x = 0 THEN Mod - 1 ELSE x - 1
  <2>1. x - 1 \in Int /\ Mod \in Nat \ {0}
    BY <1>1, HalfMod
  <2>2. (x - 1) % Mod = IF x = 0 THEN Mod - 1 ELSE x - 1
    BY <2>1, <1>1, Remainder
  <2> QED BY <2>2 DEF Back
<1> QED BY <1>1, <1>2, HalfMod, PmIdleAssumption DEF Pos, Past, Half

\* pm_settled compares the true order of an entry and the previous read, as
\* long as they are less than half the modulus apart.
LEMMA SettledMeans ==
  ASSUME NEW d \in Clocks, d # Empty, pm.prev \in Clocks, pm.prev # Empty,
         -Half < Pos(d) - Pos(pm.prev), Pos(d) - Pos(pm.prev) < Half
  PROVE  Settled(d) <=> Pos(d) <= Pos(pm.prev)
<1> DEFINE p == pm.prev
           s == (d - p) % Mod
<1>1. d \in Nat /\ p \in Nat /\ d < Mod /\ p < Mod
  BY HalfMod DEF Clocks
<1>2. s = IF d >= p THEN d - p ELSE d - p + Mod
  <2>1. d - p \in Int /\ Mod \in Nat \ {0} /\ -Mod <= d - p /\ d - p < Mod
    BY <1>1, HalfMod
  <2>2. (0 <= d - p => s = d - p) /\ (d - p < 0 => s = d - p + Mod)
    BY <2>1, Remainder
  <2> QED BY <2>2, <1>1
<1>3. (s = 0 \/ Past(s)) <=> Pos(d) <= Pos(p)
  <2> HIDE DEF s
  <2> QED BY <1>1, <1>2, HalfMod DEF Pos, Past, Half
<1> QED BY <1>3 DEF Settled

\* A delay as it is published
LEMMA DelayPos ==
  ASSUME NEW u \in Units
  PROVE  /\ u * Unit \in Nat /\ u * Unit > 0
         /\ (u * Unit) % Mod # Empty
         /\ Pos((u * Unit) % Mod) = u * Unit
<1>1. u \in Nat \ {0} /\ Unit \in Nat \ {0}
  BY PmIdleAssumption
<1>2. u * Unit \in Nat /\ u * Unit > 0
  BY <1>1
<1>3. u * Unit < Half /\ MaxSkew \in Nat
  BY <1>2, PmIdleAssumption, DistanceAssumption DEF Half
<1>4. (u * Unit) % Mod = u * Unit
  <2>1. u * Unit \in Int /\ u * Unit < Mod /\ Mod \in Nat \ {0}
    BY <1>2, <1>3, HalfMod
  <2> QED BY <2>1, <1>2, Remainder
<1> QED BY <1>2, <1>3, <1>4, PmIdleAssumption DEF Pos, Past, Half

-----------------------------------------------------------------------------
(* The invariant behind TimersCovered *)

\* The table speaks for the timer: it is not one of the excepted crossings, and
\* no start or stop is between its two steps.
Tracked(b) == /\ b \notin hist.loose
              /\ ~(pc.at \in {"starting", "stopping"} /\ pc.bit = b)

\* A timer runs, has expired, or its expiry is queued and nothing else.
Runs(b) == tmos.left[b] # Empty /\ tmos.left[b] > 0
Ripe(b) == tmos.left[b] = 0
Sent(b) == tmos.left[b] = Empty /\ b \in tmos.queued \ hist.posted
Live(b) == Tracked(b) /\ (Runs(b) \/ Ripe(b) \/ Sent(b))

\* Where the loop stands
Passing  == (pc.at = "pass" /\ pc.pass < 3) \/ pc.at = "try"
Passes   == IF pc.at = "try" THEN 1 ELSE pc.pass
Planning == pc.at \in {"plan", "mask", "check"} \/ (pc.at = "pass" /\ pc.pass = 3)
Leaving  == pc.at \in {"look", "prologue"}
Resting  == Asleep \/ Leaving

\* What is left of a sleep
SleepLeft == IF pc.at = "wait" THEN hw.tmr3 ELSE hw.trig

\* An entry is its timer's deadline, late by no more than the skew of a call.
EntryFollows(b) ==
  Live(b) => /\ table[b] # Empty
             /\ Pos(table[b]) <= MaxSkew + (IF Runs(b) THEN tmos.left[b] ELSE 0)
             /\ Runs(b) => tmos.left[b] <= Pos(table[b])

\* How far an expiry can be behind: hi after a sleep, lo once the loop has been
\* through its passes.  Two other tasks can put off its poll, or its dispatch,
\* past one sleep each, not past two.
OneSleep  == Unit + 2 * MaxSkew + MaxLate
TwoSleeps == OneSleep + MaxLate + Floor
Within(x, lo, hi) ==
  /\ Asleep => x + SleepLeft <= hi
  /\ ~Asleep => x <= hi + hist.late
  /\ Planning \/ Leaving => x <= lo + hist.late
  /\ Passing /\ x > lo + hist.late => tmos.others + Passes <= 2
Recent(b) ==
  Live(b) => /\ Ripe(b) => Within(-Pos(table[b]), 0, OneSleep)
             /\ Sent(b) => Within(-Pos(table[b]), OneSleep, TwoSleeps)

\* What had expired at the previous plan is polled, then dispatched, before the
\* next one retires its entry.
Settles(b) ==
  Live(b) /\ pm.prev # Empty /\ Pos(table[b]) <= Pos(pm.prev) =>
    /\ Ripe(b) => /\ Passing => tmos.others + Passes <= 2
                  /\ pc.at # "plan"
    /\ Sent(b) => /\ Passing => tmos.others + Passes <= 3
                  /\ pc.at = "plan" => tmos.others = 0

\* A planned sleep, and one under way, ends soon after the entry.
PlanCovers(b) ==
  Planned /\ b \notin pc.plan.clear /\ Live(b) =>
    pc.plan.best <= Floor \/ pc.plan.best <= Unit + pc.slow + Pos(table[b])
SleepCovers(b) ==
  Resting /\ Live(b) => SleepLeft <= Floor \/ SleepLeft <= Unit + MaxSkew + Pos(table[b])

\* What a plan retires has no timer, or the pass that follows dispatches it.
ClearsUnowed(b) ==
  Planned /\ b \in pc.plan.clear /\ b \notin hist.loose =>
    /\ tmos.left[b] = Empty
    /\ Sent(b) => pc.at = "pass" /\ tmos.others = 0

\* Between the TMOS call of a start and its entry
StartFollows ==
  pc.at = "starting" /\ pc.bit \notin hist.loose =>
    /\ pc.bit \in Bits /\ pc.units \in Units
    /\ tmos.left[pc.bit] # Empty => /\ pc.units * Unit <= tmos.left[pc.bit] + pc.slow
                                    /\ tmos.left[pc.bit] <= pc.units * Unit
    /\ tmos.left[pc.bit] = Empty => ~Sent(pc.bit)

\* The previous clock read is younger than half the modulus while it is used.
Fires   == IF hw.fired THEN pm.fires + 1 ELSE pm.fires
ReadAge(n) == hw.tmr3 - Pos(pm.prev) <= n + Fires * Cap
ReadYoung ==
  pm.prev # Empty =>
    /\ Pos(pm.prev) <= 0
    /\ pm.fires < MaxFires
    /\ ReadAge(2 * SuspendCap + MaxSkew)
    /\ Planned => ReadAge(SuspendCap) /\ -Pos(pm.prev) <= pc.slow
    /\ Leaving => ReadAge(SuspendCap + MaxSkew)
    /\ pc.at = "halted" => ReadAge(2 * SuspendCap + MaxSkew - hw.trig)

Bounds ==
  /\ hist.late <= MaxLate /\ pc.slow <= MaxSkew
  /\ pc.at = "app" => pc.slow = 0
  /\ hw.tmr3 <= SuspendCap /\ (hw.fired => hw.tmr3 = Cap)
  /\ pc.pass = 3 => pc.plan.best <= SuspendCap
  /\ Leaving \/ pc.at = "halted" => hw.trig \in 0 .. SuspendCap
  /\ pc.at = "prologue" => HaltGuard <= hw.trig + pc.slow

BitState(b) == /\ EntryFollows(b) /\ Recent(b) /\ Settles(b)
               /\ PlanCovers(b) /\ SleepCovers(b) /\ ClearsUnowed(b)
DeadlineState == Bounds /\ ReadYoung /\ StartFollows /\ \A b \in Bits : BitState(b)

-----------------------------------------------------------------------------
(* What a step that is not a tick does to one timer *)

LEMMA ConstantsNat ==
  /\ MaxSkew \in Nat /\ MaxLate \in Nat /\ Floor \in Nat /\ Unit \in Nat /\ Cap \in Nat
  /\ SuspendCap \in Nat /\ DueWindow \in Nat /\ OneSleep \in Nat /\ TwoSleeps \in Nat
  /\ MaxFires \in Int /\ HaltGuard \in Nat /\ HaltMin \in Nat /\ Floor <= Unit
  /\ Floor <= SuspendCap /\ Cap <= SuspendCap /\ DueWindow < Floor
  /\ MaxLate + Floor <= OneSleep /\ Unit + MaxSkew <= OneSleep
  /\ OneSleep + MaxLate + Floor <= TwoSleeps
  /\ TwoSleeps + MaxLate < Half
<1>1. /\ MaxSkew \in Nat /\ MaxLate \in Nat /\ Floor \in Nat /\ Unit \in Nat /\ Cap \in Nat \ {0}
      /\ SuspendCap \in Nat /\ DueWindow \in Nat /\ HaltGuard \in Nat /\ Floor <= Unit
      /\ HaltMin \in Nat /\ Floor <= Cap /\ Cap <= SuspendCap /\ DueWindow < Floor
  BY PmIdleAssumption, DistanceAssumption
<1>2. MaxFires \in Int
  <2>1. Mod \div 8 \in Int
    BY HalfMod
  <2>2. \A x \in Int, y \in Nat \ {0} : x \div y \in Int
    OBVIOUS
  <2> QED BY <1>1, <2>1, <2>2 DEF MaxFires
<1> QED BY <1>1, <1>2, DistanceAssumption DEF OneSleep, TwoSleeps, Half

\* The values a state gives to what the invariant counts
Numbers ==
  /\ hist.late \in Nat /\ tmos.others \in Nat /\ pc.slow \in Nat /\ Passes \in 0 .. 3
  /\ hw.tmr3 \in Nat \ {0} /\ pm.fires \in Nat /\ Fires \in Nat
  /\ hw.trig \in Counts /\ pm.prev \in Clocks
  /\ \A b \in Bits : table[b] \in Clocks /\ tmos.left[b] \in Counts
  /\ \A b \in Bits : table[b] # Empty => Pos(table[b]) \in Int
  /\ pm.prev # Empty => Pos(pm.prev) \in Int
LEMMA TypedNumbers == TypeOK => Numbers
<1> SUFFICES ASSUME TypeOK PROVE Numbers
  OBVIOUS
<1>1. /\ hist.late \in Nat /\ tmos.others \in Nat /\ pc.slow \in Nat /\ pc.pass \in 0 .. 3
      /\ hw.tmr3 \in Nat \ {0} /\ pm.fires \in Nat
      /\ hw.trig \in Counts /\ pm.prev \in Clocks
  BY DEF TypeOK, HistTypes, TmosTypes, PcTypes, HwTypes, PmTypes
<1>2. \A b \in Bits : table[b] \in Clocks /\ tmos.left[b] \in Counts
  BY DEF TypeOK, TmosTypes
<1> QED BY <1>1, <1>2, PosRange DEF Numbers, Passes, Fires

SleepNat == Resting => SleepLeft \in Nat
LEMMA SleepTyped == TypeOK /\ Bounds => SleepNat
BY TypedNumbers DEF Numbers, Bounds, SleepNat, Resting, Asleep, Leaving, SleepLeft

LEMMA NextNumbers ==
  /\ TypeOK' => Numbers'
  /\ TypeOK' /\ Bounds' => SleepNat'
BY TypedNumbers, SleepTyped, PTL

\* The step leaves the timer and its entry alone; the entry, if it is tracked
\* afterwards, was before.
Same(b) ==
  /\ table'[b] = table[b] /\ tmos'.left[b] = tmos.left[b]
  /\ Tracked(b)' => Tracked(b)
  /\ b \in tmos'.queued \ hist'.posted => b \in tmos.queued \ hist.posted

\* A timer with its own entry still ahead, or nothing that is owed
Fresh(b) ==
  Live(b) => /\ ~Sent(b) /\ (Ripe(b) => ~Asleep)
             /\ table[b] # Empty /\ 0 < Pos(table[b])
             /\ tmos.left[b] <= Pos(table[b]) /\ Pos(table[b]) <= MaxSkew + tmos.left[b]

\* TMOS takes the expiry.
Polled(b) ==
  /\ Ripe(b) /\ tmos'.left[b] = Empty /\ table'[b] = table[b] /\ (Tracked(b)' => Tracked(b))
  /\ tmos'.others = tmos.others /\ hist'.late = hist.late /\ pm'.prev = pm.prev
  /\ ~Asleep /\ ~Asleep'
  /\ Passing' => Passing /\ Passes' = Passes + 1
  /\ pc'.at = "plan" => Passing /\ Passes = 2

\* The loop goes on: no pass is gained on the other tasks.
Moves ==
  /\ hist'.late = hist.late
  /\ Asleep' => (Asleep /\ SleepLeft' = SleepLeft) \/ Planning \/ Leaving
  /\ Planning' \/ Leaving' => Planning \/ Leaving \/ (Passing /\ tmos.others + Passes > 2)
  /\ Passing' => \/ tmos'.others + Passes' <= 2
                 \/ Passing /\ tmos'.others + Passes' <= tmos.others + Passes
  /\ pc'.at = "plan" => \/ pc.at = "plan" /\ tmos'.others = tmos.others
                        \/ Passing /\ Passes = 2 /\ tmos'.others = tmos.others - 1
  /\ \/ pm'.prev = pm.prev \/ pm'.prev = Empty
     \/ ~Passing' /\ pc'.at # "plan"

Carried(b) == (Same(b) /\ Moves) \/ Fresh(b)' \/ Polled(b)

LEMMA LiveSame ==
  ASSUME NEW b \in Bits, Same(b)
  PROVE  /\ Live(b)' => Live(b)
         /\ Runs(b)' <=> Runs(b)
         /\ Ripe(b)' <=> Ripe(b)
         /\ Sent(b)' => Sent(b)
BY DEF Same, Live, Runs, Ripe, Sent

LEMMA LivePolled ==
  ASSUME NEW b \in Bits, Polled(b)
  PROVE  /\ Live(b)' => Live(b)
         /\ Ripe(b) /\ ~Runs(b) /\ ~Runs(b)' /\ ~Ripe(b)'
BY PmIdleAssumption DEF Polled, Live, Runs, Ripe, Sent

LEMMA EntryCarried ==
  ASSUME NEW b \in Bits, EntryFollows(b), Carried(b)
  PROVE  EntryFollows(b)'
<1>1. CASE Same(b)
  BY <1>1, LiveSame DEF EntryFollows, Same
<1>2. CASE Fresh(b)'
  <2> SUFFICES ASSUME Live(b)' PROVE EntryFollows(b)'
    BY DEF EntryFollows
  <2>1. Runs(b)' \/ tmos'.left[b] = 0
    BY <1>2 DEF Fresh, Live, Ripe
  <2> QED BY <1>2, <2>1 DEF EntryFollows, Fresh
<1>3. CASE Polled(b)
  BY <1>3, LivePolled DEF EntryFollows, Polled
<1> QED BY <1>1, <1>2, <1>3 DEF Carried

LEMMA WithinCarried ==
  ASSUME TypeOK, TypeOK', Bounds, Bounds', Moves,
         NEW x \in Int, NEW lo \in Nat, NEW hi \in Nat,
         lo + MaxLate + Floor <= hi, Unit + MaxSkew <= hi,
         Asleep' => SleepLeft' <= Floor \/ SleepLeft' <= Unit + MaxSkew - x,
         Within(x, lo, hi)
  PROVE  Within(x, lo, hi)'
<1>1. /\ hist.late \in Nat /\ tmos.others \in Nat /\ Passes \in 0 .. 3
      /\ tmos'.others \in Nat /\ Passes' \in 0 .. 3 /\ hist.late <= MaxLate
      /\ hist'.late = hist.late
  BY TypedNumbers, NextNumbers DEF Numbers, Bounds, Moves
<1>2. /\ Asleep => SleepLeft \in Nat
      /\ Asleep' => SleepLeft' \in Nat
  BY SleepTyped, NextNumbers DEF SleepNat, Resting
<1>3. Planning \/ Leaving => ~Asleep
  BY DEF Planning, Leaving, Asleep
<1>4. Asleep' => x + SleepLeft' <= hi
  <2> SUFFICES ASSUME Asleep' PROVE x + SleepLeft' <= hi
    OBVIOUS
  <2>1. CASE Asleep /\ SleepLeft' = SleepLeft
    BY <2>1 DEF Within
  <2>2. CASE Planning \/ Leaving
    <3>1. x <= lo + hist.late
      BY <2>2 DEF Within
    <3> QED BY <3>1, <1>1, <1>2, ConstantsNat
  <2> QED BY <2>1, <2>2 DEF Moves
<1>5. ~Asleep' => x <= hi + hist.late
  BY <1>1, <1>2 DEF Within
<1>6. Planning' \/ Leaving' => x <= lo + hist.late
  BY <1>1 DEF Within, Moves
<1>7. Passing' /\ x > lo + hist.late => tmos'.others + Passes' <= 2
  BY <1>1 DEF Within, Moves
<1> QED BY <1>1, <1>4, <1>5, <1>6, <1>7 DEF Within

LEMMA RecentCarried ==
  ASSUME TypeOK, TypeOK', Bounds, Bounds', NEW b \in Bits, EntryFollows(b), Recent(b),
         Carried(b), SleepCovers(b)'
  PROVE  Recent(b)'
<1> SUFFICES ASSUME Live(b)' PROVE Recent(b)'
  BY DEF Recent
<1>1. CASE Same(b) /\ Moves
  <2>0. Live(b) /\ table[b] # Empty /\ table'[b] = table[b]
    BY <1>1, LiveSame DEF EntryFollows, Same
  <2>1. PICK x \in Int : x = -Pos(table[b])
    BY <2>0, TypedNumbers DEF Numbers
  <2>2. Asleep' => SleepLeft' <= Floor \/ SleepLeft' <= Unit + MaxSkew - x
    <3>1. x = -Pos(table'[b]) /\ Pos(table'[b]) \in Int
      BY <2>0, <2>1, TypedNumbers DEF Numbers
    <3> QED BY <3>1, ConstantsNat DEF SleepCovers, Resting
  <2>3. Ripe(b)' => Within(x, 0, OneSleep)'
    <3>1. Ripe(b)' => Within(x, 0, OneSleep)
      BY <1>1, <2>0, <2>1, LiveSame DEF Recent
    <3> QED BY <3>1, <2>2, <1>1, ConstantsNat, WithinCarried
  <2>4. Sent(b)' => Within(x, OneSleep, TwoSleeps)'
    <3>1. Sent(b)' => Within(x, OneSleep, TwoSleeps)
      BY <1>1, <2>0, <2>1, LiveSame DEF Recent
    <3>2. Unit + MaxSkew <= TwoSleeps
      BY ConstantsNat
    <3> QED BY <3>1, <3>2, <2>2, <1>1, ConstantsNat, WithinCarried
  <2>5. x = -Pos(table'[b])
    BY <2>0, <2>1
  <2> QED BY <2>3, <2>4, <2>5 DEF Recent
<1>2. CASE Fresh(b)'
  <2>1. /\ ~Sent(b)' /\ (Ripe(b)' => ~Asleep') /\ 0 < Pos(table'[b])
        /\ Pos(table'[b]) \in Int /\ hist'.late \in Nat
    BY <1>2, NextNumbers DEF Fresh, Numbers
  <2>2. PICK x \in Int : x = -Pos(table'[b]) /\ x < 0
    BY <2>1
  <2>3. Ripe(b)' => Within(x, 0, OneSleep)'
    BY <2>1, <2>2, ConstantsNat DEF Within
  <2> QED BY <2>1, <2>2, <2>3 DEF Recent
<1>3. CASE Polled(b)
  <2>0. Live(b) /\ table[b] # Empty /\ table'[b] = table[b] /\ ~Ripe(b)'
    BY <1>3, LivePolled DEF EntryFollows, Polled
  <2>1. PICK x \in Int : x = -Pos(table[b])
    BY <2>0, TypedNumbers DEF Numbers
  <2>2. Within(x, 0, OneSleep) /\ ~Asleep
    BY <1>3, <2>0, <2>1, LivePolled DEF Recent, Polled
  <2>3. x <= OneSleep + hist'.late /\ hist'.late \in Nat /\ ~Asleep'
    BY <1>3, <2>2, TypedNumbers DEF Numbers, Within, Polled
  <2>4. Within(x, OneSleep, TwoSleeps)'
    BY <2>3, ConstantsNat DEF Within
  <2> QED BY <2>0, <2>1, <2>4 DEF Recent
<1> QED BY <1>1, <1>2, <1>3 DEF Carried

LEMMA SettlesCarried ==
  ASSUME TypeOK, TypeOK', NEW b \in Bits, EntryFollows(b), Settles(b), Carried(b),
         pm'.prev # Empty => Pos(pm'.prev) <= 0
  PROVE  Settles(b)'
<1> SUFFICES ASSUME Live(b)', pm'.prev # Empty, Pos(table'[b]) <= Pos(pm'.prev)
             PROVE  /\ Ripe(b)' => /\ Passing' => tmos'.others + Passes' <= 2
                                   /\ pc'.at # "plan"
                    /\ Sent(b)' => /\ Passing' => tmos'.others + Passes' <= 3
                                   /\ pc'.at = "plan" => tmos'.others = 0
  BY DEF Settles
<1>n. /\ tmos.others \in Nat /\ Passes \in 0 .. 3
      /\ tmos'.others \in Nat /\ Passes' \in 0 .. 3
  BY TypedNumbers, NextNumbers DEF Numbers
<1>1. CASE Same(b) /\ Moves
  <2>0. Live(b) /\ table'[b] = table[b]
    BY <1>1, LiveSame DEF Same
  <2>1. CASE ~Passing' /\ pc'.at # "plan"
    BY <2>1
  <2>2. CASE pm'.prev = pm.prev
    <3>1. /\ Ripe(b)' => /\ Passing => tmos.others + Passes <= 2
                         /\ pc.at # "plan"
          /\ Sent(b)' => /\ Passing => tmos.others + Passes <= 3
                         /\ pc.at = "plan" => tmos.others = 0
      BY <2>0, <2>2, <1>1, LiveSame DEF Settles
    <3>2. /\ Passing' => \/ tmos'.others + Passes' <= 2
                         \/ Passing /\ tmos'.others + Passes' <= tmos.others + Passes
          /\ pc'.at = "plan" => \/ pc.at = "plan" /\ tmos'.others = tmos.others
                                \/ Passing /\ Passes = 2 /\ tmos'.others = tmos.others - 1
      BY <1>1 DEF Moves
    <3> QED BY <3>1, <3>2, <1>n
  <2> QED BY <2>1, <2>2, <1>1 DEF Moves
<1>2. CASE Fresh(b)'
  <2>1. table'[b] # Empty /\ 0 < Pos(table'[b])
    BY <1>2 DEF Fresh
  <2>2. Pos(table'[b]) \in Int /\ Pos(pm'.prev) \in Int
    BY <2>1, NextNumbers DEF Numbers
  <2> QED BY <2>1, <2>2
<1>3. CASE Polled(b)
  <2>1. Live(b) /\ Ripe(b) /\ ~Ripe(b)' /\ table'[b] = table[b] /\ pm'.prev = pm.prev
    BY <1>3, LivePolled DEF Polled
  <2>2. Passing => tmos.others + Passes <= 2
    BY <2>1 DEF Settles
  <2> QED BY <2>1, <2>2, <1>3, <1>n DEF Polled
<1> QED BY <1>1, <1>2, <1>3 DEF Carried

-----------------------------------------------------------------------------
(* The actions, one by one *)

\* An interrupt leaves a timer alone, stops it, or starts it with its entry.
Alone(c) == /\ table'[c] = table[c] /\ tmos'.left[c] = tmos.left[c]
            /\ c \in hist'.loose <=> c \in hist.loose
            /\ c \in tmos'.queued \ hist'.posted => c \in tmos.queued \ hist.posted
Stopped(c) == /\ tmos'.left[c] = Empty /\ c \notin tmos'.queued
              /\ c \in hist'.loose <=> c \in hist.loose
Restarted(c) == \E u \in Units :
  /\ tmos'.left[c] = u * Unit /\ table'[c] = (u * Unit) % Mod
  /\ c \in hist'.loose <=> Planned \/ (pc.at = "starting" /\ pc.bit = c)

LEMMA SinkBits ==
  ASSUME TypeOK, StateMoves \/ SinkDoes
  PROVE  /\ \A c \in Bits : Alone(c) \/ Stopped(c) \/ Restarted(c)
         /\ tmos'.others = tmos.others /\ hist'.late = hist.late /\ pm'.prev = pm.prev
         /\ pm'.fires = pm.fires
<1>t. /\ pm \in PmTypes /\ tmos \in TmosTypes /\ hist \in HistTypes /\ table \in [Bits -> Clocks]
  BY DEF TypeOK
<1>1. CASE StateMoves
  BY <1>1 DEF StateMoves, Alone
<1>2. CASE SinkDoes
  <2>1. PICK b \in Bits :
       \/ /\ tmos' = Posting(tmos, b)
          /\ pm' = [pm EXCEPT !.post = TRUE]
          /\ hist' = [hist EXCEPT !.posted = @ \cup {b}]
          /\ UNCHANGED table
       \/ /\ \E u \in Units : tmos' = Timed(tmos, b, u) /\ Publish(b, u)
          /\ hist' = [hist EXCEPT !.loose =
                        IF Planned \/ (pc.at = "starting" /\ pc.bit = b) THEN @ \cup {b} ELSE @ \ {b}]
          /\ UNCHANGED pm
       \/ /\ tmos' = Untimed(tmos, b)
          /\ table' = [table EXCEPT ![b] = Empty]
          /\ hist' = [hist EXCEPT !.posted = @ \ {b}]
          /\ UNCHANGED pm
    BY <1>2 DEF SinkDoes
  <2>2. CASE tmos' = Posting(tmos, b) /\ pm' = [pm EXCEPT !.post = TRUE]
             /\ hist' = [hist EXCEPT !.posted = @ \cup {b}] /\ UNCHANGED table
    <3>1. /\ tmos'.left = tmos.left /\ tmos'.queued = tmos.queued \cup {b}
          /\ tmos'.others = tmos.others
      BY <2>2, <1>t DEF Posting, TmosTypes
    <3>2. hist'.posted = hist.posted \cup {b} /\ hist'.loose = hist.loose /\ hist'.late = hist.late
      BY <2>2, <1>t DEF HistTypes
    <3>3. pm'.prev = pm.prev /\ pm'.fires = pm.fires
      BY <2>2, <1>t DEF PmTypes
    <3> QED BY <2>2, <3>1, <3>2, <3>3 DEF Alone
  <2>3. ASSUME NEW u \in Units, tmos' = Timed(tmos, b, u), Publish(b, u), UNCHANGED pm,
               hist' = [hist EXCEPT !.loose =
                 IF Planned \/ (pc.at = "starting" /\ pc.bit = b) THEN @ \cup {b} ELSE @ \ {b}]
        PROVE  /\ \A c \in Bits : Alone(c) \/ Restarted(c)
               /\ tmos'.others = tmos.others /\ hist'.late = hist.late /\ pm'.prev = pm.prev
               /\ pm'.fires = pm.fires
    <3>1. /\ tmos'.left = [tmos.left EXCEPT ![b] = u * Unit] /\ tmos'.queued = tmos.queued
          /\ tmos'.others = tmos.others
      BY <2>3, <1>t DEF Timed, TmosTypes
    <3>2. /\ hist'.posted = hist.posted /\ hist'.late = hist.late
          /\ hist'.loose = IF Planned \/ (pc.at = "starting" /\ pc.bit = b)
                             THEN hist.loose \cup {b} ELSE hist.loose \ {b}
      BY <2>3, <1>t DEF HistTypes
    <3>3. tmos.left \in [Bits -> Counts]
      BY <1>t DEF TmosTypes
    <3>4. ASSUME NEW c \in Bits, c # b PROVE Alone(c)
      BY <2>3, <3>1, <3>2, <3>3, <3>4, <1>t DEF Alone, Publish
    <3>5. Restarted(b)
      <4>1. tmos'.left[b] = u * Unit /\ table'[b] = (u * Unit) % Mod
        BY <2>3, <3>1, <3>3, <1>t DEF Publish
      <4>2. b \in hist'.loose <=> Planned \/ (pc.at = "starting" /\ pc.bit = b)
        BY <3>2
      <4> QED BY <4>1, <4>2 DEF Restarted
    <3> QED BY <2>3, <3>1, <3>2, <3>4, <3>5
  <2>4. CASE tmos' = Untimed(tmos, b) /\ table' = [table EXCEPT ![b] = Empty]
             /\ hist' = [hist EXCEPT !.posted = @ \ {b}] /\ UNCHANGED pm
    <3>1. /\ tmos'.left = [tmos.left EXCEPT ![b] = Empty] /\ tmos'.queued = tmos.queued \ {b}
          /\ tmos'.others = tmos.others
      BY <2>4, <1>t DEF Untimed, TmosTypes
    <3>2. hist'.posted = hist.posted \ {b} /\ hist'.loose = hist.loose /\ hist'.late = hist.late
      BY <2>4, <1>t DEF HistTypes
    <3>3. tmos.left \in [Bits -> Counts]
      BY <1>t DEF TmosTypes
    <3>4. ASSUME NEW c \in Bits, c # b PROVE Alone(c)
      BY <2>4, <3>1, <3>2, <3>3, <3>4, <1>t DEF Alone
    <3>5. Stopped(b)
      BY <3>1, <3>2, <3>3 DEF Stopped
    <3> QED BY <2>4, <3>1, <3>2, <3>4, <3>5
  <2> QED BY <2>1, <2>2, <2>3, <2>4
<1> QED BY <1>1, <1>2

\* ... and so every timer is carried, unless the place moves.
LEMMA SinkCarries ==
  ASSUME TypeOK, TypeOK', StateMoves \/ SinkDoes, pc' = pc, NEW c \in Bits
  PROVE  /\ Same(c) \/ Fresh(c)'
         /\ Planned => Same(c) \/ ~Live(c)'
<1>1. CASE Alone(c)
  BY <1>1 DEF Alone, Same, Tracked
<1>2. CASE Stopped(c)
  <2>1. ~Live(c)'
    BY <1>2, PmIdleAssumption DEF Stopped, Live, Runs, Ripe, Sent
  <2> QED BY <2>1 DEF Fresh
<1>3. CASE Restarted(c)
  <2>1. PICK u \in Units : /\ tmos'.left[c] = u * Unit /\ table'[c] = (u * Unit) % Mod
                           /\ c \in hist'.loose <=> Planned \/ (pc.at = "starting" /\ pc.bit = c)
    BY <1>3 DEF Restarted
  <2>2. Planned => ~Live(c)'
    BY <2>1 DEF Live, Tracked
  <2>3. Fresh(c)'
    <3>1. u * Unit \in Nat /\ u * Unit > 0 /\ table'[c] # Empty /\ Pos(table'[c]) = u * Unit
      BY <2>1, DelayPos
    <3>2. ~Sent(c)' /\ ~Ripe(c)'
      BY <2>1, <3>1, PmIdleAssumption DEF Sent, Ripe
    <3> QED BY <2>1, <3>1, <3>2, ConstantsNat DEF Fresh
  <2> QED BY <2>2, <2>3
<1> QED BY <1>1, <1>2, <1>3, SinkBits

\* A step to where nothing is counted
LEMMA MovesOut ==
  ASSUME pc'.at \in {"top", "app", "starting", "stopping", "unmask"},
         hist'.late = hist.late, pm'.prev \in {pm.prev, Empty}
  PROVE  Moves
BY DEF Moves, Asleep, Planning, Leaving, Passing

\* A step that stays where it is
LEMMA MovesNot ==
  ASSUME TypeOK, TypeOK', pc' = pc, hist'.late = hist.late, tmos'.others = tmos.others,
         pm'.prev \in {pm.prev, Empty},
         Asleep' => Asleep /\ SleepLeft' = SleepLeft
  PROVE  Moves
<1>1. /\ Planning' \/ Leaving' => Planning \/ Leaving
      /\ Passing' => Passing
      /\ Passes' = Passes
  BY DEF Planning, Leaving, Passing, Passes
<1>2. tmos.others \in Nat /\ Passes \in 0 .. 3
  BY TypedNumbers DEF Numbers
<1>3. tmos'.others + Passes' <= tmos.others + Passes
  BY <1>1, <1>2
<1> QED BY <1>1, <1>3 DEF Moves

\* A step of the loop, or of an interrupt, that touches no timer
LEMMA Untouched ==
  ASSUME UNCHANGED <<table, hist>>, tmos'.left = tmos.left, tmos'.queued = tmos.queued,
         pc.at \notin {"starting", "stopping"} \/ pc' = pc, NEW c \in Bits
  PROVE  Same(c)
BY DEF Same, Tracked

\* The task's starts, stops and posts
LEMMA TaskCarries ==
  ASSUME TypeOK, TypeOK', Bounds, StartFollows, ReadYoung, NEW c \in Bits, EntryFollows(c), Task
  PROVE  Carried(c)
<1>t. /\ pc \in PcTypes /\ pm \in PmTypes /\ tmos \in TmosTypes /\ hist \in HistTypes
      /\ table \in [Bits -> Clocks] /\ tmos.left \in [Bits -> Counts]
  BY DEF TypeOK, TmosTypes
<1>h. \A p \in Places \ {"mask", "check"} : [Home EXCEPT !.at = p].at = p
  BY HomeTyped
<1>1. ASSUME NEW b \in Bits, NEW u \in Units, TaskStart(b, u) PROVE Carried(c)
  <2>1. /\ pc.at = "app" /\ pc'.at = "starting" /\ pc'.bit = b /\ pm' = pm /\ table' = table
        /\ hist'.loose = hist.loose \ {b} /\ hist'.posted = hist.posted /\ hist'.late = hist.late
        /\ tmos'.left = [tmos.left EXCEPT ![b] = u * Unit] /\ tmos'.queued = tmos.queued
    BY <1>1, <1>t DEF TaskStart, Timed, PcTypes, HistTypes, TmosTypes
  <2>2. c = b => Fresh(c)'
    BY <2>1 DEF Fresh, Live, Tracked
  <2>3. c # b => Same(c)
    BY <2>1, <1>t DEF Same, Tracked
  <2>4. Moves
    BY <2>1, MovesOut
  <2> QED BY <2>2, <2>3, <2>4 DEF Carried
<1>2. CASE TaskPublish
  <2>1. /\ pc.at = "starting" /\ pc'.at = "app" /\ UNCHANGED <<pm, tmos, hist>>
        /\ table' = [table EXCEPT ![pc.bit] = (pc.units * Unit) % Mod]
    BY <1>2, <1>h DEF TaskPublish, Publish, Places
  <2>2. Moves
    BY <2>1, MovesOut
  <2>3. c # pc.bit => Same(c)
    BY <2>1, <1>t DEF Same, Tracked
  <2>4. CASE c = pc.bit
    <3> SUFFICES ASSUME Live(c)' PROVE Fresh(c)'
      BY DEF Fresh, Carried
    <3>1. /\ c \notin hist.loose /\ pc.units \in Units
          /\ tmos.left[c] # Empty => /\ pc.units * Unit <= tmos.left[c] + pc.slow
                                     /\ tmos.left[c] <= pc.units * Unit
          /\ tmos.left[c] = Empty => ~Sent(c)
      BY <2>1, <2>4 DEF Live, Tracked, StartFollows
    <3>2. table'[c] = (pc.units * Unit) % Mod
      BY <2>1, <2>4, <1>t
    <3>3. /\ pc.units * Unit \in Nat /\ pc.units * Unit > 0
          /\ table'[c] # Empty /\ Pos(table'[c]) = pc.units * Unit
      BY <3>1, <3>2, DelayPos
    <3>4. Sent(c)' <=> Sent(c)
      BY <2>1 DEF Sent
    <3>5. tmos.left[c] # Empty
      <4>1. tmos' = tmos /\ (Runs(c)' \/ Ripe(c)' \/ Sent(c)')
        BY <2>1 DEF Live
      <4> QED BY <4>1, <3>1, <3>4, PmIdleAssumption DEF Runs, Ripe
    <3>6. tmos.left[c] \in Nat /\ pc.slow \in Nat /\ pc.slow <= MaxSkew
      BY <3>5, TypedNumbers DEF Numbers, Counts, Bounds
    <3>7. /\ ~Sent(c)' /\ ~Asleep' /\ tmos' = tmos
      BY <2>1, <3>5 DEF Sent, Asleep
    <3>8. tmos.left[c] <= pc.units * Unit /\ pc.units * Unit <= MaxSkew + tmos.left[c]
      BY <3>1, <3>3, <3>5, <3>6, ConstantsNat
    <3> QED BY <3>3, <3>7, <3>8 DEF Fresh
  <2> QED BY <2>2, <2>3, <2>4 DEF Carried
<1>3. ASSUME NEW b \in Bits, TaskStop(b) PROVE Carried(c)
  <2>1. /\ pc.at = "app" /\ pc'.at = "stopping" /\ pc'.bit = b /\ UNCHANGED <<pm, tmos, hist>>
        /\ table' = [table EXCEPT ![b] = Empty]
    BY <1>3, <1>t DEF TaskStop, PcTypes
  <2>2. c = b => Fresh(c)'
    BY <2>1 DEF Fresh, Live, Tracked
  <2>3. c # b => Same(c)
    BY <2>1, <1>t DEF Same, Tracked
  <2>4. Moves
    BY <2>1, MovesOut
  <2> QED BY <2>2, <2>3, <2>4 DEF Carried
<1>4. CASE TaskStopped
  <2>1. /\ pc.at = "stopping" /\ pc'.at = "app" /\ UNCHANGED <<pm, table>>
        /\ tmos'.left = [tmos.left EXCEPT ![pc.bit] = Empty]
        /\ tmos'.queued = tmos.queued \ {pc.bit}
        /\ hist'.posted = hist.posted \ {pc.bit} /\ hist'.loose = hist.loose \ {pc.bit}
        /\ hist'.late = hist.late
    BY <1>4, <1>t, <1>h DEF TaskStopped, Untimed, TmosTypes, HistTypes, Places
  <2>2. c = pc.bit => Fresh(c)'
    BY <2>1, <1>t, PmIdleAssumption DEF Fresh, Live, Runs, Ripe, Sent
  <2>3. c # pc.bit => Same(c)
    BY <2>1, <1>t DEF Same, Tracked
  <2>4. Moves
    BY <2>1, MovesOut
  <2> QED BY <2>2, <2>3, <2>4 DEF Carried
<1>5. ASSUME NEW b \in Bits, TaskPost(b) PROVE Carried(c)
  <2>1. /\ pc.at = "app" /\ pc' = pc /\ table' = table /\ pm'.prev = pm.prev
        /\ tmos'.left = tmos.left /\ tmos'.queued = tmos.queued \cup {b}
        /\ hist'.posted = hist.posted \cup {b} /\ hist'.loose = hist.loose
        /\ hist'.late = hist.late
    BY <1>5, <1>t DEF TaskPost, Posting, TmosTypes, HistTypes, PmTypes
  <2>2. Same(c)
    BY <2>1 DEF Same, Tracked
  <2>3. Moves
    BY <2>1, MovesOut
  <2> QED BY <2>2, <2>3 DEF Carried
<1>6. CASE TaskReturn
  <2>1. /\ pc.at = "app" /\ pc'.at = "top" /\ UNCHANGED <<pm, table, hist>>
        /\ tmos'.left = [b \in Bits |-> IF b \in Expired(tmos) THEN Empty ELSE tmos.left[b]]
        /\ tmos'.queued = tmos.queued \cup Expired(tmos) /\ tmos'.others = tmos.others
    BY <1>6, <1>t, HomeTyped DEF TaskReturn, Poll, TmosTypes
  <2>2. c \in Expired(tmos) <=> Ripe(c)
    BY DEF Expired, Ripe
  <2>3. CASE Ripe(c)
    <3>1. tmos'.left[c] = Empty
      BY <2>1, <2>2, <2>3
    <3>2. ~Asleep /\ ~Asleep' /\ ~Passing' /\ pc'.at # "plan" /\ (Tracked(c)' => Tracked(c))
      BY <2>1 DEF Asleep, Passing, Tracked
    <3> QED BY <2>1, <2>3, <3>1, <3>2 DEF Polled, Carried
  <2>4. CASE ~Ripe(c)
    <3>1. Same(c)
      BY <2>1, <2>2, <2>4 DEF Same, Tracked
    <3> QED BY <2>1, <3>1, MovesOut DEF Carried
  <2> QED BY <2>3, <2>4
<1> QED BY <1>1, <1>2, <1>3, <1>4, <1>5, <1>6 DEF Task

LEMMA IrqCarries ==
  ASSUME TypeOK, TypeOK', NEW c \in Bits, Irqs
  PROVE  Carried(c)
<1>t. pc \in PcTypes /\ pm \in PmTypes /\ hw \in HwTypes
  BY DEF TypeOK
<1>1. CASE Interrupted
  <2>1. CASE pc.at = "halted"
    <3>1. pc'.at = "unmask" /\ UNCHANGED <<pm, table, tmos, hist>>
      BY <1>1, <2>1, AtTyped DEF Interrupted, StateMoves, Places
    <3> QED BY <2>1, <3>1, MovesOut, Untouched DEF Carried
  <2>2. CASE pc.at # "halted"
    <3>1. pc' = pc /\ hw' = hw /\ (StateMoves \/ SinkDoes)
      BY <1>1, <2>2 DEF Interrupted
    <3>2. tmos'.others = tmos.others /\ hist'.late = hist.late /\ pm'.prev = pm.prev
      BY <3>1, SinkBits
    <3>3. Asleep' => Asleep /\ SleepLeft' = SleepLeft
      BY <3>1 DEF Asleep, SleepLeft
    <3>4. Moves
      BY <3>1, <3>2, <3>3, MovesNot
    <3> QED BY <3>1, <3>4, SinkCarries DEF Carried
  <2> QED BY <2>1, <2>2
<1>2. CASE Raised
  <2>1. /\ UNCHANGED <<pc, pm, table, tmos, hist>> /\ Masked
        /\ hw'.event = (pc.at = "wait")
    BY <1>2, <1>t DEF Raised, HwTypes
  <2>2. ~Asleep'
    BY <2>1 DEF Masked, Asleep
  <2>3. Moves
    BY <2>1, <2>2, MovesNot
  <2> QED BY <2>1, <2>3, Untouched DEF Carried
<1>3. CASE Tmr3Interrupt
  <2>1. /\ UNCHANGED <<pc, table, tmos, hist>> /\ pc.at # "wait"
        /\ hw'.trig = hw.trig
    BY <1>3, <1>t DEF Tmr3Interrupt, Masked, HwTypes
  <2>2. pm'.prev = pm.prev \/ pm'.prev = Empty
    BY <1>3, <1>t DEF Tmr3Interrupt, Aged, PmTypes
  <2>3. Asleep' => Asleep /\ SleepLeft' = SleepLeft
    BY <2>1 DEF Asleep, SleepLeft
  <2>4. Moves
    BY <2>1, <2>2, <2>3, MovesNot
  <2> QED BY <2>1, <2>4, Untouched DEF Carried
<1>4. CASE Woken
  <2>1. pc.at = "unmask" /\ pc' = pc /\ (StateMoves \/ SinkDoes)
    BY <1>4 DEF Woken
  <2>2. hist'.late = hist.late /\ pm'.prev = pm.prev
    BY <2>1, SinkBits
  <2>3. Moves
    BY <2>1, <2>2, MovesOut
  <2> QED BY <2>1, <2>3, SinkCarries DEF Carried
<1> QED BY <1>1, <1>2, <1>3, <1>4 DEF Irqs

\* The loop: a pass polls what has expired, or goes to another task, or dispatches.
LEMMA PassCarries ==
  ASSUME TypeOK, TypeOK', NEW c \in Bits, EntryFollows(c), Pass
  PROVE  Carried(c)
<1>t. /\ pc \in PcTypes /\ pm \in PmTypes /\ tmos \in TmosTypes /\ hist \in HistTypes
      /\ tmos.left \in [Bits -> Counts] /\ tmos.others \in Nat
  BY DEF TypeOK, TmosTypes
<1>p. pc.at = "pass" /\ pc.pass \in 0 .. 3 /\ table' = table
  BY <1>t DEF Pass, PcTypes
<1>a. AfterPass =>
        \/ pc.pass = 0 /\ pc'.at = "try"
        \/ pc'.at = "top"
        \/ pc.pass = 1 /\ pc'.at = "pass" /\ pc'.pass = 2
        \/ pc.pass = 2 /\ pc'.at = "plan"
        \/ pc.pass = 3 /\ pc'.at = "mask"
  BY <1>p, <1>t, HomeTyped, AtTyped DEF AfterPass, PcTypes, Places
<1>1. CASE tmos.others > 0 /\ tmos' = [tmos EXCEPT !.others = @ - 1] /\ AfterPass
           /\ UNCHANGED <<pm, hist>>
  <2>1. /\ tmos'.left = tmos.left /\ tmos'.queued = tmos.queued
        /\ tmos'.others = tmos.others - 1
    BY <1>1, <1>t DEF TmosTypes
  <2>2. Same(c)
    BY <1>1, <1>p, <2>1, Untouched
  <2>3. CASE pc'.at = "top"
    BY <1>1, <2>2, <2>3, MovesOut DEF Carried
  <2>4. CASE pc'.at # "top"
    <3>1. \/ pc.pass = 0 /\ pc'.at = "try"
          \/ pc.pass = 1 /\ pc'.at = "pass" /\ pc'.pass = 2
          \/ pc.pass = 2 /\ pc'.at = "plan"
          \/ pc.pass = 3 /\ pc'.at = "mask"
      BY <1>1, <1>a, <2>4
    <3>2. Moves
      BY <1>1, <1>p, <1>t, <2>1, <3>1
         DEF Moves, Asleep, Planning, Leaving, Passing, Passes
    <3> QED BY <2>2, <3>2 DEF Carried
  <2> QED BY <2>3, <2>4
<1>2. ASSUME NEW b \in tmos.queued,
             tmos' = [tmos EXCEPT !.queued = @ \ {b}],
             hist' = [hist EXCEPT !.posted = @ \ {b},
                           !.loose = IF tmos.left[b] = Empty THEN @ \ {b} ELSE @],
             pm' = [pm EXCEPT !.ran = TRUE],
             pc' = [Home EXCEPT !.at = "app"]
      PROVE  Carried(c)
  <2>1. /\ tmos'.left = tmos.left /\ tmos'.queued = tmos.queued \ {b} /\ pc'.at = "app"
        /\ hist'.posted = hist.posted \ {b} /\ hist'.late = hist.late /\ pm'.prev = pm.prev
        /\ hist'.loose = IF tmos.left[b] = Empty THEN hist.loose \ {b} ELSE hist.loose
    BY <1>2, <1>t, HomeTyped DEF TmosTypes, HistTypes, PmTypes, Places
  <2>2. Moves
    BY <2>1, MovesOut
  <2>3. CASE c = b /\ tmos.left[b] = Empty
    <3>1. ~Live(c)'
      BY <2>1, <2>3, PmIdleAssumption DEF Live, Runs, Ripe, Sent
    <3> QED BY <3>1 DEF Fresh, Carried
  <2>4. CASE ~(c = b /\ tmos.left[b] = Empty)
    <3>1. Same(c)
      BY <2>1, <2>4, <1>p DEF Same, Tracked
    <3> QED BY <2>2, <3>1 DEF Carried
  <2> QED BY <2>3, <2>4
<1>3. CASE tmos.queued = {} /\ tmos' = Poll(tmos) /\ AfterPass /\ UNCHANGED <<pm, hist>>
  <2>1. /\ tmos'.left = [b \in Bits |-> IF b \in Expired(tmos) THEN Empty ELSE tmos.left[b]]
        /\ tmos'.queued = Expired(tmos) /\ tmos'.others = tmos.others
    BY <1>3, <1>t DEF Poll, TmosTypes
  <2>2. c \in Expired(tmos) <=> Ripe(c)
    BY DEF Expired, Ripe
  <2>3. Tracked(c)' => Tracked(c)
    BY <1>3, <1>p DEF Tracked
  <2>4. CASE Ripe(c)
    <3>1. tmos'.left[c] = Empty
      BY <2>1, <2>2, <2>4
    <3>2. ~Asleep /\ ~Asleep'
      BY <1>p, <1>3, <1>a DEF Asleep
    <3>3. Passing' => Passing /\ Passes' = Passes + 1
      BY <1>p, <1>3, <1>a DEF Passing, Passes
    <3>4. pc'.at = "plan" => Passing /\ Passes = 2
      BY <1>p, <1>3, <1>a DEF Passing, Passes
    <3> QED BY <1>p, <1>3, <2>1, <2>3, <2>4, <3>1, <3>2, <3>3, <3>4 DEF Polled, Carried
  <2>5. CASE ~Ripe(c)
    <3> SUFFICES ASSUME Live(c)' PROVE Fresh(c)'
      BY DEF Fresh, Carried
    <3>1. tmos'.left[c] = tmos.left[c] /\ c \notin tmos'.queued
      BY <2>1, <2>2, <2>5
    <3>2. Live(c) /\ Runs(c) /\ ~Sent(c)' /\ ~Ripe(c)'
      BY <3>1, <2>3, <2>5 DEF Live, Runs, Ripe, Sent
    <3>3. /\ table[c] # Empty /\ Pos(table[c]) <= MaxSkew + tmos.left[c]
          /\ tmos.left[c] <= Pos(table[c]) /\ Pos(table[c]) \in Int /\ tmos.left[c] > 0
          /\ tmos.left[c] \in Nat
      BY <3>2, TypedNumbers DEF EntryFollows, Runs, Numbers, Counts
    <3>4. /\ tmos.left[c] <= Pos(table'[c]) /\ 0 < Pos(table'[c]) /\ table'[c] # Empty
          /\ Pos(table'[c]) <= MaxSkew + tmos'.left[c]
      BY <3>1, <3>3, <1>p
    <3> QED BY <3>1, <3>2, <3>4 DEF Fresh
  <2> QED BY <2>4, <2>5
<1> QED BY <1>1, <1>2, <1>3 DEF Pass

\* From the plan to the sleep and back to the top
LEMMA LoopCarries ==
  ASSUME ThreeTasks, TypeOK, TypeOK', IdleInvariant, NEW c \in Bits, EntryFollows(c),
         ClearsUnowed(c), Loop
  PROVE  Carried(c)
<1>t. pc \in PcTypes /\ pm \in PmTypes /\ tmos \in TmosTypes /\ hw \in HwTypes
  BY DEF TypeOK
<1>h. /\ Home.at = "top"
      /\ \A p \in Places \ {"mask", "check"} : [Home EXCEPT !.at = p].at = p
  BY HomeTyped
<1>1. CASE LoopTop
  <2>1. /\ pc.at = "top" /\ pc.pass = 0 /\ pc'.at = "pass" /\ pc'.pass = 0
        /\ UNCHANGED <<table, hist>>
    BY <1>1, <1>t DEF LoopTop, PcTypes, IdleInvariant, Settling
  <2>2. /\ tmos'.left = tmos.left /\ tmos'.queued = tmos.queued /\ tmos'.others = OtherTasks
    BY <1>1, <1>t DEF LoopTop, TmosTypes
  <2>3. pm'.prev = pm.prev
    BY <1>1, <1>t DEF LoopTop, PmTypes
  <2>4. tmos'.others + Passes' <= 2
    BY <2>1, <2>2, PmIdleAssumption DEF Passes, ThreeTasks
  <2>5. Moves
    BY <2>1, <2>3, <2>4 DEF Moves, Asleep, Planning, Leaving, Passing
  <2> QED BY <2>1, <2>2, <2>5, Untouched DEF Carried
<1>2. CASE Pass
  BY <1>2, PassCarries
<1>3. CASE IdleTry
  <2>1. /\ pc.at = "try" /\ UNCHANGED <<pm, table, tmos, hist>>
    BY <1>3 DEF IdleTry
  <2>2. pc'.at = "top" \/ (pc'.at = "pass" /\ pc'.pass = 1)
    BY <1>3, <1>t, <1>h DEF IdleTry, PcTypes
  <2>3. CASE pc'.at = "top"
    BY <2>1, <2>3, MovesOut, Untouched DEF Carried
  <2>4. CASE pc'.at = "pass" /\ pc'.pass = 1
    <3>1. Passing /\ Passes' = Passes
      BY <2>1, <2>4 DEF Passing, Passes
    <3>2. tmos'.others + Passes' <= tmos.others + Passes
      BY <2>1, <3>1, TypedNumbers DEF Numbers
    <3>3. Moves
      BY <2>1, <2>4, <3>1, <3>2 DEF Moves, Asleep, Planning, Leaving
    <3> QED BY <2>1, <3>3, Untouched DEF Carried
  <2> QED BY <2>2, <2>3, <2>4
<1>4. CASE IdlePlan
  <2>1. pc.at = "plan" /\ UNCHANGED <<table, tmos, hist>>
    BY <1>4 DEF IdlePlan
  <2>2. \/ pc'.at = "top" /\ pm' = pm
        \/ pc'.at \in {"mask", "pass"} /\ pc'.pass = 3
    BY <1>4, <1>t, <1>h DEF IdlePlan, ExtraPass, PcTypes
  <2>3. CASE pc'.at = "top" /\ pm' = pm
    BY <2>1, <2>3, MovesOut, Untouched DEF Carried
  <2>4. CASE pc'.at \in {"mask", "pass"} /\ pc'.pass = 3
    <3>1. Planning /\ ~Asleep' /\ ~Passing' /\ pc'.at # "plan"
      BY <2>1, <2>4 DEF Planning, Asleep, Passing
    <3>2. Moves
      BY <2>1, <3>1 DEF Moves
    <3> QED BY <2>1, <3>2, Untouched DEF Carried
  <2> QED BY <2>2, <2>3, <2>4
<1>5. CASE Mask
  <2>1. pc.at = "mask" /\ pc'.at = "check" /\ UNCHANGED <<pm, table, tmos, hist>>
    BY <1>5, AtTyped DEF Mask, Places
  <2>2. Moves
    BY <2>1 DEF Moves, Asleep, Planning, Leaving, Passing
  <2> QED BY <2>1, <2>2, Untouched DEF Carried
<1>6. CASE Check
  <2>1. pc.at = "check" /\ UNCHANGED <<tmos, hist>> /\ pm'.prev = pm.prev
    BY <1>6, <1>t DEF Check, PmTypes
  <2>2. CASE ~Admit
    <3>1. pc'.at = "unmask" /\ table' = table
      BY <1>6, <2>2, AtTyped DEF Check, Places
    <3> QED BY <2>1, <3>1, MovesOut, Untouched DEF Carried
  <2>3. CASE Admit
    <3>1. pc'.at \in {"wait", "look"} /\ table' = Armed
      <4>1. [pc EXCEPT !.at = "look"].at = "look"
            /\ [Home EXCEPT !.at = "wait"].at = "wait"
        BY <1>t, <1>h DEF PcTypes, Places
      <4> QED BY <1>6, <2>3, <4>1 DEF Check
    <3>2. Moves
      BY <2>1, <3>1 DEF Moves, Planning, Passing
    <3>3. CASE table'[c] = table[c]
      <4>1. Same(c)
        BY <2>1, <3>3 DEF Same, Tracked
      <4> QED BY <3>2, <4>1 DEF Carried
    <3>4. CASE table'[c] # table[c]
      <4>1. c \in pc.plan.clear
        BY <3>1, <3>4 DEF Armed
      <4>2. Planned
        BY <2>1 DEF Planned, TypeOK, PlanKnown
      <4>3. ~Live(c)'
        BY <2>1, <4>1, <4>2, PmIdleAssumption
           DEF ClearsUnowed, Live, Tracked, Runs, Ripe, Sent
      <4> QED BY <4>3 DEF Fresh, Carried
    <3> QED BY <3>3, <3>4
  <2> QED BY <2>2, <2>3
<1>7. CASE WaitEnds \/ HaltEnds
  <2>1. pc.at \in {"wait", "halted"} /\ pc'.at = "unmask" /\ UNCHANGED <<pm, table, tmos, hist>>
    BY <1>7, AtTyped DEF WaitEnds, HaltEnds, Places
  <2> QED BY <2>1, MovesOut, Untouched DEF Carried
<1>8. CASE LastLook \/ Halt
  <2>1. /\ pc.at \in {"look", "prologue"} /\ pc'.at \in {"unmask", "prologue", "halted"}
        /\ UNCHANGED <<pm, table, tmos, hist>>
    BY <1>8, <1>h DEF LastLook, Halt, Places
  <2>2. Moves
    BY <2>1 DEF Moves, Asleep, Planning, Leaving, Passing
  <2> QED BY <2>1, <2>2, Untouched DEF Carried
<1>9. CASE Unmasked
  <2>1. pc.at = "unmask" /\ pc'.at = "top" /\ UNCHANGED <<pm, table, tmos, hist>>
    BY <1>9, <1>h DEF Unmasked
  <2> QED BY <2>1, MovesOut, Untouched DEF Carried
<1> QED BY <1>1, <1>2, <1>3, <1>4, <1>5, <1>6, <1>7, <1>8, <1>9 DEF Loop

-----------------------------------------------------------------------------
(* What most steps leave alone: the plan, the sleep, the previous read *)

KeepsPlan  == /\ pc'.slow \in {pc.slow, 0}
              /\ pc'.at = "app" => pc'.slow = 0 \/ pc.at = "app"
              /\ pc'.pass = 3 => pc.pass = 3 /\ pc'.plan = pc.plan
              /\ Planned' => Planned /\ pc'.slow = pc.slow
KeepsSleep == /\ hw'.tmr3 = hw.tmr3 /\ hw'.fired = hw.fired
              /\ Resting' => /\ pc'.at = pc.at /\ pc.at # "wait" /\ pc'.slow = pc.slow
                             /\ hw'.trig = hw.trig /\ UNCHANGED <<table, tmos, hist>>
KeepsRead  == pm'.prev = pm.prev /\ pm'.fires = pm.fires

LEMMA HomeStill ==
  /\ Home.slow = 0 /\ Home.pass = 0 /\ Home.at = "top"
  /\ \A p \in Places \ {"mask", "check"} :
       LET h == [Home EXCEPT !.at = p] IN h.slow = 0 /\ h.pass = 0 /\ h.at = p
BY HomeTyped DEF Home

\* Home, or Home with another place, keeps no plan.
LEMMA HomeKeeps ==
  ASSUME NEW p \in Places \ {"mask", "check"}, pc' = Home \/ pc' = [Home EXCEPT !.at = p]
  PROVE  KeepsPlan /\ (pc'.at = "top" \/ pc'.at = p) /\ pc'.pass = 0 /\ pc'.slow = 0
<1>1. (pc'.at = "top" \/ pc'.at = p) /\ pc'.pass = 0 /\ pc'.slow = 0
  BY HomeStill
<1> QED BY <1>1 DEF KeepsPlan, Planned

LEMMA AtStill ==
  ASSUME TypeOK, NEW p \in Places, At(p)
  PROVE  pc'.at = p /\ pc'.pass = pc.pass /\ pc'.plan = pc.plan /\ pc'.slow = pc.slow
BY DEF TypeOK, At, PcTypes

LEMMA PcKept == pc' = pc => KeepsPlan
BY DEF KeepsPlan, Planned

LEMMA TaskKeeps ==
  ASSUME TypeOK, Task
  PROVE  hist'.late = hist.late /\ KeepsPlan /\ KeepsSleep /\ KeepsRead
<1>t. pc \in PcTypes /\ pm \in PmTypes /\ hist \in HistTypes
  BY DEF TypeOK
<1>1. hist'.late = hist.late /\ hw' = hw
  BY <1>t DEF Task, TaskStart, TaskPublish, TaskStop, TaskStopped, TaskPost, TaskReturn, HistTypes
<1>2. KeepsRead
  BY <1>t DEF Task, TaskStart, TaskPublish, TaskStop, TaskStopped, TaskPost, TaskReturn,
              PmTypes, KeepsRead
<1>3. KeepsPlan /\ pc'.at \in {"starting", "stopping", "app", "top"}
  <2>1. ASSUME NEW b \in Bits, NEW u \in Units, TaskStart(b, u)
        PROVE  KeepsPlan /\ pc'.at = "starting"
    <3>1. /\ pc'.at = "starting" /\ pc'.pass = pc.pass /\ pc'.plan = pc.plan
          /\ pc'.slow = pc.slow
      BY <2>1, <1>t DEF TaskStart, PcTypes
    <3> QED BY <3>1 DEF KeepsPlan, Planned
  <2>2. ASSUME NEW b \in Bits, TaskStop(b) PROVE KeepsPlan /\ pc'.at = "stopping"
    <3>1. /\ pc'.at = "stopping" /\ pc'.pass = pc.pass /\ pc'.plan = pc.plan
          /\ pc'.slow = pc.slow
      BY <2>2, <1>t DEF TaskStop, PcTypes
    <3> QED BY <3>1 DEF KeepsPlan, Planned
  <2>3. CASE TaskPublish \/ TaskStopped \/ TaskReturn
    <3>1. "app" \in Places \ {"mask", "check"} /\ (pc' = Home \/ pc' = [Home EXCEPT !.at = "app"])
      BY <2>3 DEF TaskPublish, TaskStopped, TaskReturn, Places
    <3> QED BY <3>1, HomeKeeps
  <2>4. ASSUME NEW b \in Bits, TaskPost(b) PROVE KeepsPlan /\ pc'.at = "app"
    BY <2>4, PcKept DEF TaskPost
  <2> QED BY <2>1, <2>2, <2>3, <2>4 DEF Task
<1> QED BY <1>1, <1>2, <1>3 DEF KeepsSleep, Resting, Asleep, Leaving

LEMMA IrqKeeps ==
  ASSUME TypeOK, Irqs
  PROVE  /\ hist'.late = hist.late /\ KeepsPlan
         /\ KeepsSleep \/ Tmr3Interrupt
         /\ KeepsRead \/ Tmr3Interrupt
<1>t. pc \in PcTypes /\ hw \in HwTypes
  BY DEF TypeOK
<1>1. CASE Interrupted
  <2>1. hist'.late = hist.late /\ KeepsRead
    BY <1>1, SinkBits DEF Interrupted, KeepsRead
  <2>2. CASE pc.at = "halted"
    <3>1. At("unmask") /\ hw' = HaltOff
      BY <1>1, <2>2 DEF Interrupted
    <3>2. pc'.at = "unmask" /\ pc'.slow = pc.slow /\ pc'.pass = pc.pass /\ pc'.plan = pc.plan
      BY <3>1, AtStill DEF Places
    <3>3. hw'.tmr3 = hw.tmr3 /\ hw'.fired = hw.fired
      BY <3>1, <1>t DEF HaltOff, HwTypes
    <3> QED BY <2>1, <3>2, <3>3 DEF KeepsPlan, KeepsSleep, Planned, Resting, Asleep, Leaving
  <2>3. CASE pc.at # "halted"
    <3>1. /\ UNCHANGED <<pc, hw>> /\ pc.at # "wait"
          /\ pc.at \in {"look", "prologue"} => UNCHANGED <<table, tmos, hist>>
      BY <1>1, <2>3 DEF Interrupted, Masked, StateMoves
    <3>2. KeepsSleep
      BY <2>3, <3>1 DEF KeepsSleep, Resting, Asleep, Leaving
    <3> QED BY <2>1, <3>1, <3>2, PcKept
  <2> QED BY <2>2, <2>3
<1>2. CASE Raised
  <2>1. UNCHANGED <<pc, pm, hist>>
        /\ hw'.tmr3 = hw.tmr3 /\ hw'.fired = hw.fired
        /\ Masked /\ (pc.at = "wait" => hw'.event)
    BY <1>2, <1>t DEF Raised, HwTypes
  <2> QED BY <2>1, PcKept DEF KeepsSleep, KeepsRead, Masked, Resting, Asleep, Leaving
<1>3. CASE Tmr3Interrupt
  BY <1>3, PcKept DEF Tmr3Interrupt
<1>4. CASE Woken
  <2>1. hist'.late = hist.late /\ KeepsRead
    BY <1>4, SinkBits DEF Woken, KeepsRead
  <2>2. pc' = pc /\ pc.at = "unmask" /\ hw'.tmr3 = hw.tmr3 /\ hw'.fired = hw.fired
    BY <1>4, <1>t DEF Woken, HwTypes
  <2> QED BY <2>1, <2>2, PcKept DEF KeepsSleep, Resting, Asleep, Leaving
<1> QED BY <1>1, <1>2, <1>3, <1>4 DEF Irqs

LEMMA LoopKeeps ==
  ASSUME TypeOK, IdleInvariant, Loop
  PROVE  /\ hist'.late = hist.late
         /\ KeepsPlan \/ IdlePlan
         /\ KeepsSleep \/ (Check /\ Admit) \/ LastLook \/ Halt
         /\ KeepsRead \/ IdlePlan
<1>t. pc \in PcTypes /\ pm \in PmTypes /\ hw \in HwTypes /\ hist \in HistTypes
  BY DEF TypeOK
\* A step that leaves hw alone and does not end on the way to a halt
<1>s. ASSUME hw'.tmr3 = hw.tmr3, hw'.fired = hw.fired,
             pc'.at \notin {"wait", "look", "prologue", "halted"}
      PROVE  KeepsSleep
  BY <1>s DEF KeepsSleep, Resting, Asleep, Leaving
<1>1. CASE LoopTop
  <2>1. /\ pc'.at = "pass" /\ pc'.pass = 0 /\ pc'.slow = pc.slow /\ UNCHANGED <<hw, hist>>
    BY <1>1, <1>t DEF LoopTop, PcTypes, IdleInvariant, Settling
  <2>2. KeepsRead
    BY <1>1, <1>t DEF LoopTop, PmTypes, KeepsRead
  <2> QED BY <2>1, <2>2, <1>s DEF KeepsPlan, Planned
<1>2. CASE Pass
  <2>1. hw' = hw /\ hist'.late = hist.late /\ KeepsRead /\ pc.at = "pass"
    BY <1>2, <1>t DEF Pass, HistTypes, PmTypes, KeepsRead
  <2>2. \/ pc' = Home \/ pc' = [Home EXCEPT !.at = "app"]
        \/ (At("try") /\ pc.pass = 0) \/ (At("plan") /\ pc.pass = 2) \/ (At("mask") /\ pc.pass = 3)
        \/ pc' = [pc EXCEPT !.pass = 2]
    <3>1. AfterPass \/ pc' = [Home EXCEPT !.at = "app"]
      BY <1>2 DEF Pass
    <3>2. pc.pass \in 0 .. 3
      BY <1>t DEF PcTypes
    <3> QED BY <3>1, <3>2 DEF AfterPass
  <2>3. CASE pc' = Home \/ pc' = [Home EXCEPT !.at = "app"]
    <3>1. "app" \in Places \ {"mask", "check"}
      BY DEF Places
    <3> QED BY <2>1, <2>3, <3>1, <1>s, HomeKeeps
  <2>4. CASE (At("try") /\ pc.pass = 0) \/ (At("plan") /\ pc.pass = 2) \/ (At("mask") /\ pc.pass = 3)
    <3>1. /\ pc'.pass = pc.pass /\ pc'.plan = pc.plan /\ pc'.slow = pc.slow
          /\ pc'.at \in {"try", "plan", "mask"} /\ (pc'.at = "mask" => pc.pass = 3)
      BY <2>4, AtStill DEF Places
    <3> QED BY <2>1, <3>1, <1>s DEF KeepsPlan, Planned
  <2>5. CASE pc' = [pc EXCEPT !.pass = 2]
    <3>1. pc'.pass = 2 /\ pc'.at = pc.at /\ pc'.slow = pc.slow
      BY <2>5, <1>t DEF PcTypes
    <3> QED BY <2>1, <3>1, <1>s DEF KeepsPlan, Planned
  <2> QED BY <2>2, <2>3, <2>4, <2>5
<1>3. CASE IdleTry
  <2>1. UNCHANGED <<pm, hw, hist>>
    BY <1>3 DEF IdleTry
  <2>2. pc' = Home \/ (pc'.at = "pass" /\ pc'.pass = 1 /\ pc'.slow = pc.slow)
    BY <1>3, <1>t DEF IdleTry, PcTypes
  <2>3. CASE pc' = Home
    <3>1. "app" \in Places \ {"mask", "check"}
      BY DEF Places
    <3>2. KeepsPlan /\ pc'.at = "top"
      BY <2>3, <3>1, HomeKeeps, HomeStill
    <3> QED BY <2>1, <3>2, <1>s DEF KeepsRead
  <2>4. CASE pc'.at = "pass" /\ pc'.pass = 1 /\ pc'.slow = pc.slow
    BY <2>1, <2>4, <1>s DEF KeepsPlan, Planned, KeepsRead
  <2> QED BY <2>2, <2>3, <2>4
<1>4. CASE IdlePlan
  <2>1. UNCHANGED <<hw, hist>>
    BY <1>4 DEF IdlePlan
  <2>2. pc'.at \in {"top", "mask", "pass"}
    BY <1>4, <1>t, HomeStill DEF IdlePlan, ExtraPass, PcTypes
  <2> QED BY <1>4, <2>1, <2>2, <1>s
<1>5. CASE Mask
  <2>1. UNCHANGED <<pm, hw, hist>> /\ pc.at = "mask" /\ pc.pass = 3
    BY <1>5 DEF Mask, TypeOK, PlanKnown
  <2>2. pc'.at = "check" /\ pc'.pass = pc.pass /\ pc'.plan = pc.plan /\ pc'.slow = pc.slow
    BY <1>5, AtStill DEF Mask, Places
  <2> QED BY <2>1, <2>2, <1>s DEF KeepsPlan, Planned, KeepsRead
<1>6. CASE Check
  <2>1. hist' = hist /\ KeepsRead
    BY <1>6, <1>t DEF Check, PmTypes, KeepsRead
  <2>2. CASE ~Admit
    <3>1. At("unmask") /\ hw' = hw
      BY <1>6, <2>2 DEF Check
    <3>2. pc'.at = "unmask" /\ pc'.pass = pc.pass /\ pc'.plan = pc.plan /\ pc'.slow = pc.slow
      BY <3>1, AtStill DEF Places
    <3> QED BY <2>1, <3>1, <3>2, <1>s DEF KeepsPlan, Planned
  <2>3. CASE Admit
    <3>1. KeepsPlan
      <4>1. CASE pc' = [Home EXCEPT !.at = "wait"]
        <5>1. "wait" \in Places \ {"mask", "check"}
          BY DEF Places
        <5> QED BY <4>1, <5>1, HomeKeeps
      <4>2. CASE pc' = [pc EXCEPT !.at = "look"]
        <5>1. pc'.at = "look" /\ pc'.pass = pc.pass /\ pc'.plan = pc.plan /\ pc'.slow = pc.slow
          BY <4>2, <1>t DEF PcTypes
        <5> QED BY <5>1 DEF KeepsPlan, Planned
      <4> QED BY <1>6, <2>3, <4>1, <4>2 DEF Check
    <3> QED BY <1>6, <2>1, <2>3, <3>1
  <2> QED BY <2>2, <2>3
<1>7. CASE WaitEnds \/ HaltEnds
  <2>1. UNCHANGED <<pm, hist>> /\ At("unmask") /\ hw'.tmr3 = hw.tmr3 /\ hw'.fired = hw.fired
    BY <1>7, <1>t DEF WaitEnds, HaltEnds, HaltOff, HwTypes
  <2>2. pc'.at = "unmask" /\ pc'.pass = pc.pass /\ pc'.plan = pc.plan /\ pc'.slow = pc.slow
    BY <2>1, AtStill DEF Places
  <2> QED BY <2>1, <2>2, <1>s DEF KeepsPlan, Planned, KeepsRead
<1>8. CASE LastLook \/ Halt
  <2>1. /\ UNCHANGED <<pm, hist>>
        /\ \/ pc' = [Home EXCEPT !.at = "unmask"] \/ pc' = [Home EXCEPT !.at = "prologue"]
           \/ pc' = [Home EXCEPT !.at = "halted"]
    BY <1>8 DEF LastLook, Halt
  <2>2. {"unmask", "prologue", "halted"} \subseteq Places \ {"mask", "check"}
    BY DEF Places
  <2>3. KeepsPlan
    BY <2>1, <2>2, HomeKeeps
  <2> QED BY <1>8, <2>1, <2>3 DEF KeepsRead
<1>9. CASE Unmasked
  <2>1. UNCHANGED <<pm, hw, hist>> /\ pc' = Home
    BY <1>9 DEF Unmasked
  <2>2. "app" \in Places \ {"mask", "check"}
    BY DEF Places
  <2>3. KeepsPlan /\ pc'.at = "top"
    BY <2>1, <2>2, HomeKeeps, HomeStill
  <2> QED BY <2>1, <2>3, <1>s DEF KeepsRead
<1> QED BY <1>1, <1>2, <1>3, <1>4, <1>5, <1>6, <1>7, <1>8, <1>9 DEF Loop

\* A step that takes no time
Still == Loop \/ Task \/ Irqs

LEMMA StillKeeps ==
  ASSUME TypeOK, IdleInvariant, Still
  PROVE  /\ hist'.late = hist.late
         /\ KeepsPlan \/ IdlePlan
         /\ KeepsSleep \/ (Check /\ Admit) \/ LastLook \/ Halt \/ Tmr3Interrupt
         /\ KeepsRead \/ IdlePlan \/ Tmr3Interrupt
BY LoopKeeps, TaskKeeps, IrqKeeps DEF Still

\* ... and what the others do to them
LEMMA PlanEffect ==
  ASSUME TypeOK, IdlePlan
  PROVE  /\ pc.at = "plan" /\ UNCHANGED <<table, tmos, hw, hist>> /\ ~hw.fired
         /\ \/ pc'.at = "top" /\ pc'.pass = 0 /\ pc'.slow = 0 /\ pm' = pm
            \/ /\ pm'.prev = 0 /\ pm'.fires = 0
               /\ pc'.at = ExtraPass /\ pc'.pass = 3 /\ pc'.slow = 0
               /\ \E susp \in BOOLEAN : pc'.plan = Plan(susp)
<1>t. pc \in PcTypes /\ pm \in PmTypes
  BY DEF TypeOK
<1>1. pc.at = "plan" /\ UNCHANGED <<table, tmos, hw, hist>> /\ ~hw.fired
  BY DEF IdlePlan, Running, Masked
<1>2. CASE pc.entry \/ ~ok
  BY <1>1, <1>2, HomeStill DEF IdlePlan
<1>3. CASE ~(pc.entry \/ ~ok)
  <2>1. pm'.prev = 0 /\ pm'.fires = 0
    BY <1>3, <1>t DEF IdlePlan, PmTypes
  <2>2. PICK susp \in BOOLEAN :
          pc' = [pc EXCEPT !.at = ExtraPass, !.pass = 3, !.plan = Plan(susp), !.slow = 0]
    BY <1>3 DEF IdlePlan
  <2>3. pc'.at = ExtraPass /\ pc'.pass = 3 /\ pc'.slow = 0 /\ pc'.plan = Plan(susp)
    BY <2>2, <1>t DEF PcTypes
  <2> QED BY <1>1, <2>1, <2>3
<1> QED BY <1>2, <1>3

LEMMA CheckEffect ==
  ASSUME TypeOK, Check, Admit
  PROVE  /\ pc.at = "check" /\ pc.pass = 3 /\ Planned /\ pc.plan.best \in Nat
         /\ ~hw.fired /\ ~hw'.fired /\ hw'.tmr3 = pc.plan.best
         /\ \/ pc'.at = "wait"
            \/ pc'.at = "look" /\ hw'.trig = HaltTicks /\ pc.plan.best >= HaltMin
         /\ table' = Armed /\ UNCHANGED <<tmos, hist>>
<1>t. pc \in PcTypes /\ hw \in HwTypes
  BY DEF TypeOK
<1>1. pc.at = "check" /\ pc.pass = 3 /\ pc.plan.best \in Nat
  BY <1>t DEF Check, TypeOK, PlanKnown, PcTypes, Plans
<1>2. ~hw.fired /\ table' = Armed /\ UNCHANGED <<tmos, hist>>
  BY DEF Check, Admit, IrqPending
<1>3. CASE pc' = [Home EXCEPT !.at = "wait"] /\ hw' = [hw EXCEPT !.tmr3 = pc.plan.best]
  <2>1. pc'.at = "wait"
    BY <1>3, HomeStill DEF Places
  <2>2. hw'.tmr3 = pc.plan.best /\ hw'.fired = hw.fired
    BY <1>3, <1>t DEF HwTypes
  <2> QED BY <1>1, <1>2, <2>1, <2>2 DEF Planned
<1>4. CASE /\ pc.plan.best >= HaltMin
           /\ pc' = [pc EXCEPT !.at = "look"]
           /\ hw' = [hw EXCEPT !.tmr3 = pc.plan.best, !.trig = HaltTicks, !.stop = Backstop]
  <2>1. pc'.at = "look"
    BY <1>4, <1>t DEF PcTypes
  <2>2. hw'.tmr3 = pc.plan.best /\ hw'.fired = hw.fired /\ hw'.trig = HaltTicks
    BY <1>4, <1>t DEF HwTypes
  <2> QED BY <1>1, <1>2, <1>4, <2>1, <2>2 DEF Planned
<1> QED BY <1>3, <1>4 DEF Check

\* A halt is shorter than the sleep it takes the place of.
LEMMA HaltShorter ==
  ASSUME NEW n \in Nat, pc.plan.best = n, n >= HaltMin
  PROVE  HaltTicks \in Nat /\ HaltTicks <= n
<1>1. HaltMin \in Nat \ {0} /\ HaltLead \in Nat
  BY PmIdleAssumption
<1>2. PICK m : m = HaltMin \div 2
  OBVIOUS
<1>3. m \in Nat /\ m <= HaltMin
  BY <1>1, <1>2
<1>4. HaltTicks = Larger(n - HaltLead, m)
  BY <1>2 DEF HaltTicks
<1> QED BY <1>1, <1>3, <1>4 DEF Larger

LEMMA LookEffect ==
  ASSUME TypeOK, Bounds, LastLook
  PROVE  /\ pc.at = "look" /\ UNCHANGED <<table, tmos, hist>>
         /\ hw'.tmr3 = hw.tmr3 /\ hw'.fired = hw.fired
         /\ \/ pc'.at = "unmask"
            \/ pc'.at = "prologue" /\ pc'.slow = 0 /\ hw'.trig = hw.trig /\ HaltGuard <= hw.trig
<1>t. hw \in HwTypes
  BY DEF TypeOK
<1>1. pc.at = "look" /\ UNCHANGED <<table, tmos, hist>> /\ hw.trig \in 0 .. SuspendCap
  BY DEF LastLook, Bounds, Leaving
<1>2. CASE pc' = [Home EXCEPT !.at = "unmask"] /\ hw' = HaltOff
  BY <1>1, <1>2, <1>t, HomeStill DEF HaltOff, HwTypes, Places
<1>3. CASE ~TooClose /\ pc' = [Home EXCEPT !.at = "prologue"] /\ UNCHANGED hw
  <2>1. pc'.at = "prologue" /\ pc'.slow = 0
    BY <1>3, HomeStill DEF Places
  <2>2. HaltGuard <= hw.trig
    BY <1>1, <1>3, ConstantsNat DEF TooClose
  <2> QED BY <1>1, <1>3, <2>1, <2>2
<1> QED BY <1>2, <1>3 DEF LastLook

\* The trigger cannot fire between the last look and the halt.
LEMMA HaltEffect ==
  ASSUME TypeOK, Bounds, Halt
  PROVE  /\ pc.at = "prologue" /\ pc'.at = "halted" /\ UNCHANGED <<table, tmos, hist>>
         /\ hw'.tmr3 = hw.tmr3 /\ hw'.fired = hw.fired /\ hw'.trig = hw.trig
<1>t. hw \in HwTypes /\ pc \in PcTypes
  BY DEF TypeOK
<1>1. pc.at = "prologue" /\ pc'.at = "halted" /\ UNCHANGED <<table, tmos, hist>>
  BY HomeStill DEF Halt, Places
<1>2. HaltGuard <= hw.trig + pc.slow /\ pc.slow <= MaxSkew /\ MaxSkew < HaltGuard
      /\ pc.slow \in Nat /\ hw.trig \in 0 .. SuspendCap
  BY <1>1, <1>t, DistanceAssumption DEF Bounds, Leaving, PcTypes
<1>3. hw.trig # 0
  BY <1>2, ConstantsNat
<1>4. hw' = [hw EXCEPT !.trig = hw.trig]
  BY <1>3 DEF Halt
<1> QED BY <1>1, <1>4, <1>t DEF HwTypes

LEMMA Tmr3Effect ==
  ASSUME TypeOK, Tmr3Interrupt
  PROVE  /\ UNCHANGED <<pc, table, tmos, hist>>
         /\ hw.fired /\ ~hw'.fired /\ hw'.tmr3 = Cap /\ hw'.trig = hw.trig
         /\ \/ pm'.prev = Empty
            \/ pm'.prev = pm.prev /\ pm'.fires = pm.fires + 1 /\ pm'.fires < MaxFires
<1>t. pm \in PmTypes /\ hw \in HwTypes
  BY DEF TypeOK
<1>1. UNCHANGED <<pc, table, tmos, hist>> /\ hw.fired /\ ~hw'.fired /\ hw'.tmr3 = Cap
      /\ hw'.trig = hw.trig
  BY <1>t DEF Tmr3Interrupt, HwTypes
<1>2. CASE pm.prev = Empty \/ pm.fires + 1 >= MaxFires
  BY <1>1, <1>2, <1>t DEF Tmr3Interrupt, Aged, PmTypes
<1>3. CASE ~(pm.prev = Empty \/ pm.fires + 1 >= MaxFires)
  <2>1. pm' = [pm EXCEPT !.fires = @ + 1]
    BY <1>3 DEF Tmr3Interrupt, Aged
  <2>2. pm'.prev = pm.prev /\ pm'.fires = pm.fires + 1 /\ pm.fires \in Nat
    BY <2>1, <1>t DEF PmTypes
  <2> QED BY <1>1, <1>3, <2>2, ConstantsNat
<1> QED BY <1>2, <1>3

\* No sleep is planned past the cap.
LEMMA PlanBounded ==
  ASSUME TypeOK, NEW susp \in BOOLEAN
  PROVE  /\ Plan(susp).best \in Nat /\ Plan(susp).best <= SuspendCap
         /\ Plan(susp).clear = Retired
         /\ \A b \in Bits \ Retired : table[b] # Empty =>
              \/ Plan(susp).best <= Floor
              \/ ~IsDue(table[b]) /\ Plan(susp).best <= table[b] + Unit
<1> DEFINE cap == IF susp THEN SuspendCap ELSE Cap
           S == Sleeps(cap)
<1>1. cap \in Nat /\ cap <= SuspendCap /\ Floor \in Nat /\ Unit \in Nat
  BY ConstantsNat
<1>2. table \in [Bits -> Clocks]
  BY DEF TypeOK
<1>3. S \in SUBSET Nat /\ cap \in S
  BY <1>1, <1>2, PmIdleAssumption DEF Sleeps, Clocks
<1>4. \A b \in Bits \ Retired : table[b] # Empty =>
        (IF IsDue(table[b]) THEN Floor ELSE table[b] + Unit) \in S
  BY DEF Sleeps
<1> HIDE DEF S
<1>5. Least(S) \in Nat /\ \A y \in S : Least(S) <= y
  BY <1>3, LeastIsLeast
<1>6. /\ Plan(susp).best = Larger(Floor, Least(S))
      /\ Plan(susp).clear = Retired
  BY DEF Plan, S
<1>7. Plan(susp).best \in Nat /\ Plan(susp).best <= SuspendCap
  BY <1>1, <1>3, <1>5, <1>6, ConstantsNat DEF Larger
<1>8. ASSUME NEW b \in Bits \ Retired, table[b] # Empty
      PROVE  \/ Plan(susp).best <= Floor
             \/ ~IsDue(table[b]) /\ Plan(susp).best <= table[b] + Unit
  <2>1. CASE IsDue(table[b])
    <3>1. Least(S) <= Floor
      BY <1>4, <1>5, <1>8, <2>1
    <3> QED BY <3>1, <1>1, <1>5, <1>6 DEF Larger
  <2>2. CASE ~IsDue(table[b])
    <3>1. Least(S) <= table[b] + Unit
      BY <1>4, <1>5, <1>8, <2>2
    <3> QED BY <2>2, <3>1, <1>1, <1>5, <1>6 DEF Larger
  <2> QED BY <2>1, <2>2
<1> QED BY <1>6, <1>7, <1>8

LEMMA BoundsStill ==
  ASSUME TypeOK, TypeOK', IdleInvariant, Bounds, Still
  PROVE  Bounds'
<1>1. /\ pc.slow \in Nat /\ pc'.slow \in Nat /\ hw.tmr3 \in Nat
  BY TypedNumbers, NextNumbers DEF Numbers
<1>2. /\ hist'.late <= MaxLate /\ pc'.slow <= MaxSkew
      /\ pc'.at = "app" => pc'.slow = 0
      /\ pc'.pass = 3 => pc'.plan.best <= SuspendCap
  <2>1. hist'.late <= MaxLate
    BY StillKeeps DEF Bounds
  <2>2. CASE KeepsPlan
    BY <2>1, <2>2, ConstantsNat DEF KeepsPlan, Bounds
  <2>3. CASE IdlePlan
    <3>1. /\ pc'.slow = 0 /\ pc'.at # "app"
          /\ pc'.pass = 3 => \E susp \in BOOLEAN : pc'.plan = Plan(susp)
      BY <2>3, PlanEffect DEF ExtraPass
    <3> QED BY <2>1, <3>1, PlanBounded, ConstantsNat
  <2> QED BY <2>2, <2>3, StillKeeps
<1>3. /\ hw'.tmr3 <= SuspendCap /\ (hw'.fired => hw'.tmr3 = Cap)
      /\ Leaving' \/ pc'.at = "halted" => hw'.trig \in 0 .. SuspendCap
      /\ pc'.at = "prologue" => HaltGuard <= hw'.trig + pc'.slow
  <2>1. CASE KeepsSleep
    BY <2>1 DEF KeepsSleep, Bounds, Resting, Asleep, Leaving
  <2>2. CASE Check /\ Admit
    <3>1. /\ ~hw'.fired /\ hw'.tmr3 = pc.plan.best /\ pc.pass = 3 /\ pc.plan.best \in Nat
          /\ \/ pc'.at = "wait"
             \/ pc'.at = "look" /\ hw'.trig = HaltTicks /\ pc.plan.best >= HaltMin
      BY <2>2, CheckEffect
    <3>2. pc.plan.best <= SuspendCap
      BY <3>1 DEF Bounds
    <3>3. pc'.at = "look" => hw'.trig \in 0 .. SuspendCap
      BY <3>1, <3>2, HaltShorter, ConstantsNat
    <3> QED BY <3>1, <3>2, <3>3 DEF Leaving
  <2>3. CASE LastLook
    BY <2>3, LookEffect DEF Bounds, Leaving
  <2>4. CASE Halt
    BY <2>4, HaltEffect DEF Bounds, Leaving
  <2>5. CASE Tmr3Interrupt
    BY <2>5, Tmr3Effect, ConstantsNat DEF Bounds, Leaving
  <2> QED BY <2>1, <2>2, <2>3, <2>4, <2>5, StillKeeps
<1> QED BY <1>2, <1>3 DEF Bounds

\* While a clock read is kept, half the modulus has not passed since.
LEMMA ReadInReach ==
  ASSUME TypeOK, Bounds, ReadYoung, pm.prev # Empty, ~hw.fired
  PROVE  /\ Pos(pm.prev) \in Int /\ Pos(pm.prev) <= 0
         /\ DueWindow - Pos(pm.prev) < Half
<1>1. /\ Pos(pm.prev) \in Int /\ Pos(pm.prev) <= 0 /\ hw.tmr3 \in Nat \ {0}
      /\ pm.fires \in Nat /\ pm.fires < MaxFires /\ Fires = pm.fires
  BY TypedNumbers DEF Numbers, ReadYoung, Fires
<1>2. hw.tmr3 - Pos(pm.prev) <= 2 * SuspendCap + MaxSkew + pm.fires * Cap
  BY <1>1 DEF ReadYoung, ReadAge
<1>3. pm.fires * Cap \in Nat /\ pm.fires * Cap + Cap <= MaxFires * Cap
  BY <1>1, ConstantsNat, Times
<1>4. 2 * SuspendCap + MaxSkew + DueWindow + MaxFires * Cap <= Half + Cap
  BY AgeAssumption DEF Half
<1>5. MaxFires * Cap \in Int
  BY ConstantsNat
<1> HIDE DEF Half
<1>6. PICK k, m \in Int : k = pm.fires * Cap /\ m = MaxFires * Cap
  BY <1>3, <1>5
<1>7. PICK x \in Int : x = Pos(pm.prev)
  BY <1>1
<1>8. /\ hw.tmr3 - x <= 2 * SuspendCap + MaxSkew + k /\ k + Cap <= m
      /\ 2 * SuspendCap + MaxSkew + DueWindow + m <= Half + Cap
  BY <1>2, <1>3, <1>4, <1>6, <1>7
<1>9. DueWindow - x < Half
  BY <1>1, <1>8, ConstantsNat, HalfMod
<1> QED BY <1>1, <1>7, <1>9

LEMMA ReadStill ==
  ASSUME TypeOK, TypeOK', IdleInvariant, Bounds, Bounds', ReadYoung, Still
  PROVE  ReadYoung'
<1> SUFFICES ASSUME pm'.prev # Empty
             PROVE  /\ Pos(pm'.prev) <= 0
                    /\ pm'.fires < MaxFires
                    /\ ReadAge(2 * SuspendCap + MaxSkew)'
                    /\ Planned' => ReadAge(SuspendCap)' /\ -Pos(pm'.prev) <= pc'.slow
                    /\ Leaving' => ReadAge(SuspendCap + MaxSkew)'
                    /\ pc'.at = "halted" => ReadAge(2 * SuspendCap + MaxSkew - hw.trig)'
  BY DEF ReadYoung
<1>n. /\ hw'.tmr3 \in Nat /\ hw.tmr3 \in Nat /\ Fires \in Nat /\ Fires' \in Nat
      /\ pc.slow \in Nat /\ Pos(pm'.prev) \in Int
  BY TypedNumbers, NextNumbers DEF Numbers
<1>1. CASE IdlePlan
  <2>1. hw' = hw /\ pc.at = "plan" /\ ~hw.fired
    BY <1>1, PlanEffect
  <2>2. CASE pc'.at = "top" /\ pc'.pass = 0 /\ pm' = pm
    <3>1. Fires' = Fires
      BY <2>1, <2>2 DEF Fires
    <3> QED BY <2>1, <2>2, <3>1 DEF ReadYoung, ReadAge, Planned, Leaving
  <2>3. CASE pm'.prev = 0 /\ pm'.fires = 0 /\ pc'.at = ExtraPass /\ pc'.slow = 0
    <3>1. Pos(pm'.prev) = 0 /\ Fires' = 0
      BY <2>1, <2>3, ConstantsNat, HalfMod DEF Pos, Past, Half, Fires
    <3>2. hw'.tmr3 <= SuspendCap
      BY DEF Bounds
    <3>3. hw'.tmr3 - Pos(pm'.prev) <= SuspendCap + Fires' * Cap
      BY <3>1, <3>2, <1>n, ConstantsNat
    <3>4. hw'.tmr3 - Pos(pm'.prev) <= 2 * SuspendCap + MaxSkew + Fires' * Cap
      BY <3>1, <3>2, <1>n, ConstantsNat
    <3> QED BY <2>3, <3>1, <3>3, <3>4, AgeAssumption DEF ReadAge, Leaving, ExtraPass
  <2> QED BY <1>1, <2>2, <2>3, PlanEffect
<1>2. CASE Tmr3Interrupt
  <2>1. /\ pc' = pc /\ pm'.prev = pm.prev /\ pm'.fires = pm.fires + 1 /\ pm'.fires < MaxFires
        /\ hw'.tmr3 = hw.tmr3 /\ hw'.trig = hw.trig /\ hw.fired /\ ~hw'.fired
    BY <1>2, Tmr3Effect DEF Bounds
  <2>2. Fires' = Fires
    BY <2>1 DEF Fires
  <2> QED BY <2>1, <2>2 DEF ReadYoung, ReadAge, Planned, Leaving
<1>3. CASE ~IdlePlan /\ ~Tmr3Interrupt
  <2>1. KeepsRead /\ KeepsPlan
    BY <1>3, StillKeeps
  <2>2. CASE KeepsSleep
    <3>1. Fires' = Fires
      BY <2>1, <2>2 DEF Fires, KeepsRead, KeepsSleep
    <3> QED BY <2>1, <2>2, <3>1
            DEF ReadYoung, ReadAge, Resting, Asleep, Leaving, KeepsRead, KeepsSleep, KeepsPlan
  <2>3. CASE Check /\ Admit
    <3>1. /\ Planned /\ ~hw.fired /\ ~hw'.fired /\ pc'.at \in {"wait", "look"}
      BY <2>3, CheckEffect
    <3>2. /\ Pos(pm'.prev) <= 0 /\ -Pos(pm'.prev) <= MaxSkew /\ pm'.fires < MaxFires
          /\ hw'.tmr3 <= SuspendCap
      BY <2>1, <3>1, <1>n, ConstantsNat DEF ReadYoung, KeepsRead, Bounds
    <3>3. Fires' * Cap \in Nat
      BY <1>n, ConstantsNat, TimesNat
    <3>4. PICK k \in Nat : k = Fires' * Cap
      BY <3>3
    <3>5. /\ hw'.tmr3 - Pos(pm'.prev) <= SuspendCap + MaxSkew + k
          /\ hw'.tmr3 - Pos(pm'.prev) <= 2 * SuspendCap + MaxSkew + k
      BY <3>2, <1>n, ConstantsNat
    <3> QED BY <3>1, <3>2, <3>4, <3>5 DEF ReadAge, Planned, Leaving
  <2>4. CASE LastLook \/ Halt
    <3>1. /\ Leaving /\ hw'.tmr3 = hw.tmr3 /\ hw'.fired = hw.fired
          /\ pc'.at \in {"unmask", "prologue", "halted"}
      BY <2>4, LookEffect, HaltEffect DEF Leaving
    <3>2. pm'.prev = pm.prev /\ pm'.fires = pm.fires /\ Fires' = Fires
      BY <2>1, <3>1 DEF KeepsRead, Fires
    <3>3. /\ Pos(pm'.prev) <= 0 /\ pm'.fires < MaxFires
          /\ hw'.tmr3 - Pos(pm'.prev) <= 2 * SuspendCap + MaxSkew + Fires' * Cap
          /\ hw'.tmr3 - Pos(pm'.prev) <= SuspendCap + MaxSkew + Fires' * Cap
      BY <3>1, <3>2 DEF ReadYoung, ReadAge
    <3>4. pc'.at = "halted" => hw'.trig \in 0 .. SuspendCap
      BY DEF Bounds
    <3>5. PICK k \in Nat : k = Fires' * Cap
      BY <1>n, ConstantsNat, TimesNat
    <3>6. pc'.at = "halted" =>
            hw'.tmr3 - Pos(pm'.prev) <= 2 * SuspendCap + MaxSkew - hw'.trig + k
      BY <3>3, <3>4, <3>5, <1>n, ConstantsNat
    <3> QED BY <3>1, <3>3, <3>5, <3>6 DEF ReadAge, Planned
  <2> QED BY <1>3, <2>2, <2>3, <2>4, StillKeeps
<1> QED BY <1>1, <1>2, <1>3

-----------------------------------------------------------------------------
(* Plan, sleep and start *)

\* A sleep is entered with the plan's length, and nothing but time moves it.
LEMMA SleepStill ==
  ASSUME TypeOK, TypeOK', IdleInvariant, Bounds, NEW c \in Bits, EntryFollows(c),
         SleepCovers(c), PlanCovers(c), ClearsUnowed(c), Still
  PROVE  SleepCovers(c)'
<1> SUFFICES ASSUME Resting', Live(c)'
             PROVE  SleepLeft' <= Floor \/ SleepLeft' <= Unit + MaxSkew + Pos(table'[c])
  BY DEF SleepCovers
\* Time aside, a sleep under way is left alone.
<1>1. ASSUME Resting, SleepLeft' = SleepLeft, UNCHANGED <<table, tmos, hist>>,
             Tracked(c)' => Tracked(c)
      PROVE  SleepLeft' <= Floor \/ SleepLeft' <= Unit + MaxSkew + Pos(table'[c])
  <2>1. Live(c) /\ table'[c] = table[c]
    BY <1>1 DEF Live, Runs, Ripe, Sent
  <2> QED BY <1>1, <2>1 DEF SleepCovers
<1>2. CASE KeepsSleep
  <2>1. /\ pc'.at = pc.at /\ pc.at # "wait" /\ hw'.trig = hw.trig
        /\ UNCHANGED <<table, tmos, hist>>
    BY <1>2 DEF KeepsSleep
  <2>2. Resting /\ SleepLeft' = SleepLeft /\ (Tracked(c)' => Tracked(c))
    BY <2>1 DEF Resting, Asleep, Leaving, SleepLeft, Tracked
  <2> QED BY <2>1, <2>2, <1>1
<1>3. CASE Check /\ Admit
  <2>1. /\ pc.at = "check" /\ Planned /\ pc.plan.best \in Nat
        /\ hw'.tmr3 = pc.plan.best
        /\ \/ pc'.at = "wait"
           \/ pc'.at = "look" /\ hw'.trig = HaltTicks /\ pc.plan.best >= HaltMin
        /\ table' = Armed /\ UNCHANGED <<tmos, hist>>
    BY <1>3, CheckEffect
  <2>2. Live(c)
    BY <2>1 DEF Live, Tracked, Runs, Ripe, Sent
  <2>3. c \notin pc.plan.clear
    <3>1. c \notin hist.loose
      BY <2>2 DEF Live, Tracked
    <3> QED BY <2>1, <2>2, <3>1, PmIdleAssumption DEF ClearsUnowed, Live, Runs, Ripe, Sent
  <2>4. table'[c] = table[c] /\ Pos(table[c]) \in Int
    BY <2>1, <2>2, <2>3, TypedNumbers DEF Armed, EntryFollows, Numbers
  <2>5. pc.plan.best <= Floor \/ pc.plan.best <= Unit + MaxSkew + Pos(table[c])
    <3>1. pc.plan.best <= Floor \/ pc.plan.best <= Unit + pc.slow + Pos(table[c])
      BY <2>1, <2>2, <2>3 DEF PlanCovers
    <3>2. pc.slow \in Nat /\ pc.slow <= MaxSkew
      BY TypedNumbers DEF Numbers, Bounds
    <3> QED BY <2>1, <2>4, <3>1, <3>2, ConstantsNat
  <2>6. SleepLeft' \in Nat /\ SleepLeft' <= pc.plan.best
    BY <2>1, HaltShorter DEF SleepLeft
  <2> QED BY <2>1, <2>4, <2>5, <2>6, ConstantsNat
<1>4. CASE LastLook \/ Halt \/ Tmr3Interrupt
  <2>1. CASE LastLook
    <3>1. /\ pc.at = "look" /\ pc'.at = "prologue" /\ hw'.trig = hw.trig
          /\ UNCHANGED <<table, tmos, hist>>
      BY <2>1, LookEffect DEF Resting, Asleep, Leaving
    <3> QED BY <3>1, <1>1 DEF Resting, Leaving, SleepLeft, Tracked
  <2>2. CASE Halt
    <3>1. /\ pc.at = "prologue" /\ pc'.at = "halted" /\ hw'.trig = hw.trig
          /\ UNCHANGED <<table, tmos, hist>>
      BY <2>2, HaltEffect
    <3> QED BY <3>1, <1>1 DEF Resting, Leaving, SleepLeft, Tracked
  <2>3. CASE Tmr3Interrupt
    <3>1. /\ UNCHANGED <<pc, table, tmos, hist>> /\ hw'.trig = hw.trig /\ pc.at # "wait"
      BY <2>3, Tmr3Effect DEF Tmr3Interrupt, Masked
    <3> QED BY <3>1, <1>1 DEF Resting, Asleep, Leaving, SleepLeft, Tracked
  <2> QED BY <1>4, <2>1, <2>2, <2>3
<1> QED BY <1>2, <1>3, <1>4, StillKeeps

\* Between a plan and its sleep a timer is left alone, cancelled, or excepted;
\* in the extra pass, only when nothing is queued and no other task has work, it is
\* polled.
LEMMA PlannedStill ==
  ASSUME TypeOK, TypeOK', IdleInvariant, NEW c \in Bits, Planned, Planned', Still
  PROVE  /\ pc'.plan = pc.plan /\ pc'.slow = pc.slow
         /\ Live(c)' => Live(c) /\ table'[c] = table[c]
         /\ c \notin hist'.loose =>
              /\ c \notin hist.loose
              /\ tmos.left[c] = Empty => tmos'.left[c] = Empty
         /\ Sent(c)' /\ tmos.left[c] = Empty => Sent(c)
         /\ pc'.at = "pass" => pc.at = "pass"
         /\ tmos'.others = tmos.others \/ (tmos.others > 0 /\ pc'.at = "mask")
         /\ pc.at = "pass" /\ pc'.at # "pass" => tmos.queued = {} \/ tmos.others > 0
<1>t. /\ tmos \in TmosTypes /\ tmos.left \in [Bits -> Counts] /\ pc \in PcTypes
  BY DEF TypeOK, TmosTypes
<1>p. pc.at \in {"pass", "mask", "check"} /\ pc.pass = 3 /\ pc'.at \in {"pass", "mask", "check"}
  BY DEF Planned
<1>0. pc'.plan = pc.plan /\ pc'.slow = pc.slow
  <2>1. KeepsPlan
    BY <1>p, StillKeeps, PlanEffect
  <2> QED BY <2>1 DEF KeepsPlan, Planned
<1>1. CASE Pass
  <2>1. At("mask") /\ pc.at = "pass" /\ UNCHANGED <<table, hist>>
        /\ \/ tmos.others > 0 /\ tmos' = [tmos EXCEPT !.others = @ - 1]
           \/ tmos.queued = {} /\ tmos' = Poll(tmos)
    <3>1. AfterPass => At("mask")
      BY <1>p, HomeStill DEF AfterPass
    <3>2. pc' # [Home EXCEPT !.at = "app"]
      BY <1>p, HomeStill DEF Places
    <3> QED BY <1>1, <3>1, <3>2 DEF Pass
  <2>2. pc'.at = "mask"
    BY <2>1, AtStill DEF Places
  <2>3. CASE tmos.others > 0 /\ tmos' = [tmos EXCEPT !.others = @ - 1]
    <3>1. tmos'.left = tmos.left /\ tmos'.queued = tmos.queued
      BY <2>3, <1>t DEF TmosTypes
    <3> QED BY <1>0, <2>1, <2>2, <2>3, <3>1 DEF Live, Tracked, Runs, Ripe, Sent
  <2>4. CASE tmos.queued = {} /\ tmos' = Poll(tmos)
    <3>1. /\ tmos'.left = [b \in Bits |-> IF b \in Expired(tmos) THEN Empty ELSE tmos.left[b]]
          /\ tmos'.queued = Expired(tmos) /\ tmos'.others = tmos.others
      BY <2>4, <1>t DEF Poll, TmosTypes
    <3>2. c \in Expired(tmos) <=> Ripe(c)
      BY DEF Expired, Ripe
    <3>3. tmos.left[c] = Empty => tmos'.left[c] = Empty /\ ~Sent(c)'
      BY <3>1, <3>2, PmIdleAssumption DEF Ripe, Sent
    <3>4. Live(c)' => Live(c)
      <4>1. Tracked(c)' => Tracked(c)
        BY <2>1, <2>2 DEF Tracked
      <4>2. CASE Ripe(c)
        BY <4>1, <4>2 DEF Live
      <4>3. CASE ~Ripe(c)
        <5>1. tmos'.left[c] = tmos.left[c] /\ ~Sent(c)'
          BY <3>1, <3>2, <4>3 DEF Sent
        <5> QED BY <4>1, <5>1 DEF Live, Runs, Ripe
      <4> QED BY <4>2, <4>3
    <3> QED BY <1>0, <2>1, <2>2, <2>4, <3>1, <3>3, <3>4
  <2> QED BY <2>1, <2>3, <2>4
<1>2. CASE Mask
  <2>1. pc.at = "mask" /\ pc'.at = "check" /\ UNCHANGED <<table, tmos, hist>>
    BY <1>2, AtStill DEF Mask, Places
  <2> QED BY <1>0, <2>1 DEF Live, Tracked, Runs, Ripe, Sent
<1>3. CASE Irqs
  <2>1. pc' = pc
    <3>1. ~Interrupted \/ UNCHANGED pc
      BY <1>p DEF Interrupted
    <3> QED BY <1>3, <1>p, <3>1 DEF Irqs, Raised, Tmr3Interrupt, Woken
  <2>2. CASE StateMoves \/ SinkDoes
    <3>1. tmos'.others = tmos.others
      BY <2>2, SinkBits
    <3>2. Alone(c) \/ Stopped(c) \/ Restarted(c)
      BY <2>2, SinkBits
    <3>3. CASE Alone(c)
      BY <1>0, <1>p, <2>1, <3>1, <3>3 DEF Alone, Live, Tracked, Runs, Ripe, Sent
    <3>4. CASE Stopped(c)
      <4>1. ~Live(c)' /\ ~Sent(c)'
        BY <3>4, PmIdleAssumption DEF Stopped, Live, Runs, Ripe, Sent
      <4>2. c \notin hist'.loose => c \notin hist.loose
        BY <3>4 DEF Stopped
      <4> QED BY <1>0, <1>p, <2>1, <3>1, <3>4, <4>1, <4>2 DEF Stopped
    <3>5. CASE Restarted(c)
      <4>1. c \in hist'.loose /\ tmos'.left[c] # Empty
        <5>1. PICK u \in Units : tmos'.left[c] = u * Unit /\ c \in hist'.loose
          BY <3>5 DEF Restarted
        <5> QED BY <5>1, DelayPos, PmIdleAssumption
      <4>2. ~Live(c)' /\ ~Sent(c)'
        BY <4>1 DEF Live, Tracked, Sent
      <4> QED BY <1>0, <1>p, <2>1, <3>1, <4>1, <4>2
    <3> QED BY <3>2, <3>3, <3>4, <3>5
  <2>3. CASE UNCHANGED <<table, tmos, hist>>
    BY <1>0, <1>p, <2>1, <2>3 DEF Live, Tracked, Runs, Ripe, Sent
  <2> QED BY <1>3, <2>2, <2>3 DEF Irqs, Interrupted, Raised, Tmr3Interrupt, Woken
<1>4. CASE Still /\ ~Pass /\ ~Mask /\ ~Irqs
  <2>1. ~Task
    BY <1>p, HomeStill DEF Task, TaskStart, TaskPublish, TaskStop, TaskStopped, TaskPost, TaskReturn
  <2>2. Check
    BY <1>4, <1>p, <2>1 DEF Still, Loop, LoopTop, IdleTry, IdlePlan, WaitEnds, HaltEnds,
                            LastLook, Halt, Unmasked
  <2>3. pc'.at \in {"wait", "look", "unmask"}
    BY <2>2, <1>t, CheckEffect, AtStill DEF Check, Places
  <2> QED BY <1>p, <2>3
<1> QED BY <1>1, <1>2, <1>3, <1>4

\* A timer's entry is never as far behind as half the modulus.
LEMMA EntryInReach ==
  ASSUME TypeOK, Bounds, NEW c \in Bits, EntryFollows(c), Recent(c), Live(c)
  PROVE  table[c] # Empty /\ Pos(table[c]) \in Int /\ -Half < Pos(table[c])
<1>1. table[c] # Empty /\ Pos(table[c]) \in Int
  BY TypedNumbers DEF EntryFollows, Numbers
<1>2. CASE Runs(c)
  <2>1. tmos.left[c] \in Nat /\ 0 < tmos.left[c]
    BY <1>2, TypedNumbers DEF Runs, Numbers, Counts
  <2>2. tmos.left[c] <= Pos(table[c])
    BY <1>2 DEF EntryFollows
  <2> QED BY <1>1, <2>1, <2>2, HalfMod
<1>3. CASE Ripe(c) \/ Sent(c)
  <2>1. PICK x \in Int : x = -Pos(table[c])
    BY <1>1
  <2>2. Within(x, 0, OneSleep) \/ Within(x, OneSleep, TwoSleeps)
    BY <1>3, <2>1 DEF Recent
  <2>3. hist.late \in Nat /\ hist.late <= MaxLate /\ (Asleep => SleepLeft \in Nat)
    BY TypedNumbers, SleepTyped DEF Numbers, Bounds, SleepNat, Resting
  <2>4. x <= TwoSleeps + MaxLate
    <3>1. OneSleep <= TwoSleeps
      BY ConstantsNat
    <3> QED BY <2>2, <2>3, <3>1, ConstantsNat DEF Within
  <2> QED BY <1>1, <2>1, <2>4, ConstantsNat, HalfMod
<1> QED BY <1>1, <1>2, <1>3 DEF Live

\* pm_settled retires no entry whose timer still runs or has not been polled, and
\* none whose expiry another task can put off past the extra pass.
LEMMA RetiredUnowed ==
  ASSUME TypeOK, Bounds, ReadYoung, pc.at = "plan", ~hw.fired, NEW c \in Retired,
         c \notin hist.loose, EntryFollows(c), Recent(c), Settles(c)
  PROVE  /\ tmos.left[c] = Empty
         /\ Sent(c) => tmos.others = 0
<1>1. CASE ~Live(c)
  <2>1. tmos.left[c] \in Counts /\ Tracked(c)
    BY TypedNumbers DEF Retired, Numbers, Tracked
  <2> QED BY <1>1, <2>1 DEF Live, Runs, Ripe, Counts
<1>2. CASE Live(c)
  <2>1. c \in Bits /\ table[c] # Empty /\ IsDue(table[c]) /\ Settled(table[c])
    BY DEF Retired
  <2>2. table[c] \in Clocks /\ pm.prev \in Clocks /\ pm.prev # Empty
    BY <2>1, TypedNumbers DEF Numbers, Settled
  <2>3. Pos(table[c]) \in Int /\ -Half < Pos(table[c])
    BY <1>2, <2>1, EntryInReach
  <2>4. Pos(pm.prev) \in Int /\ Pos(pm.prev) <= 0 /\ DueWindow - Pos(pm.prev) < Half
    BY <2>2, ReadInReach
  <2>5. Pos(table[c]) <= DueWindow
    BY <2>1, <2>2, <2>3, ConstantsNat, HalfMod DEF IsDue, Pos, Clocks, Past, Half
  <2>6. Pos(table[c]) <= Pos(pm.prev)
    <3>1. -Half < Pos(table[c]) - Pos(pm.prev) /\ Pos(table[c]) - Pos(pm.prev) < Half
      BY <2>3, <2>4, <2>5, ConstantsNat, HalfMod
    <3> QED BY <2>1, <2>2, <3>1, SettledMeans
  <2>7. ~Ripe(c) /\ (Sent(c) => tmos.others = 0)
    BY <1>2, <2>2, <2>6 DEF Settles
  <2>8. ~Runs(c)
    <3>1. tmos.left[c] \in Counts
      BY <2>1, TypedNumbers DEF Numbers
    <3>2. Runs(c) => tmos.left[c] \in Nat /\ 0 < tmos.left[c] /\ tmos.left[c] <= Pos(table[c])
      BY <1>2, <3>1 DEF EntryFollows, Runs, Counts
    <3> QED BY <2>3, <2>4, <2>6, <3>2
  <2> QED BY <1>2, <2>7, <2>8 DEF Live, Sent
<1> QED BY <1>1, <1>2

LEMMA PlanStill ==
  ASSUME TypeOK, TypeOK', IdleInvariant, Bounds, ReadYoung, NEW c \in Bits,
         EntryFollows(c), Recent(c), Settles(c), PlanCovers(c), ClearsUnowed(c), Still
  PROVE  PlanCovers(c)' /\ ClearsUnowed(c)'
<1> SUFFICES ASSUME Planned' PROVE PlanCovers(c)' /\ ClearsUnowed(c)'
  BY DEF PlanCovers, ClearsUnowed
<1>1. CASE Planned
  <2>1. /\ pc'.plan = pc.plan /\ pc'.slow = pc.slow
        /\ Live(c)' => Live(c) /\ table'[c] = table[c]
        /\ c \notin hist'.loose =>
              /\ c \notin hist.loose
              /\ tmos.left[c] = Empty => tmos'.left[c] = Empty
        /\ Sent(c)' /\ tmos.left[c] = Empty => Sent(c)
        /\ pc'.at = "pass" => pc.at = "pass"
        /\ tmos'.others = tmos.others \/ (tmos.others > 0 /\ pc'.at = "mask")
        /\ pc.at = "pass" /\ pc'.at # "pass" => tmos.queued = {} \/ tmos.others > 0
    BY <1>1, PlannedStill
  <2>2. PlanCovers(c)'
    BY <1>1, <2>1 DEF PlanCovers
  <2>3. ClearsUnowed(c)'
    <3> SUFFICES ASSUME c \in pc.plan.clear, c \notin hist'.loose
                 PROVE  /\ tmos'.left[c] = Empty
                        /\ Sent(c)' => pc'.at = "pass" /\ tmos'.others = 0
      BY <2>1 DEF ClearsUnowed
    <3>1. tmos.left[c] = Empty /\ (Sent(c) => pc.at = "pass" /\ tmos.others = 0)
      BY <1>1, <2>1 DEF ClearsUnowed
    <3>2. Sent(c) => c \in tmos.queued
      BY DEF Sent
    <3>3. tmos.others = 0 => ~(tmos.others > 0)
      OBVIOUS
    <3> QED BY <2>1, <3>1, <3>2, <3>3
  <2> QED BY <2>2, <2>3
<1>2. CASE ~Planned
  <2>1. IdlePlan
    BY <1>2, StillKeeps DEF KeepsPlan
  <2>2. /\ pc.at = "plan" /\ UNCHANGED <<table, tmos, hist>> /\ ~hw.fired
        /\ pc'.at = ExtraPass /\ pc'.slow = 0
    BY <2>1, PlanEffect DEF Planned
  <2>3. PICK susp \in BOOLEAN : pc'.plan = Plan(susp)
    BY <2>1, PlanEffect DEF Planned
  <2>4. /\ pc'.plan.best \in Nat /\ pc'.plan.clear = Retired
        /\ \A b \in Bits \ Retired : table[b] # Empty =>
              \/ pc'.plan.best <= Floor
              \/ ~IsDue(table[b]) /\ pc'.plan.best <= table[b] + Unit
    BY <2>3, PlanBounded
  <2>5. PlanCovers(c)'
    <3> SUFFICES ASSUME c \notin Retired, Live(c)'
                 PROVE  pc'.plan.best <= Floor \/ pc'.plan.best <= Unit + pc'.slow + Pos(table'[c])
      BY <2>4 DEF PlanCovers
    <3>1. table[c] # Empty
      BY <2>2 DEF EntryFollows, Live, Tracked, Runs, Ripe, Sent
    <3>2. \/ pc'.plan.best <= Floor
          \/ ~IsDue(table[c]) /\ pc'.plan.best <= table[c] + Unit
      BY <2>4, <3>1
    <3>3. ~IsDue(table[c]) => Pos(table[c]) = table[c]
      BY DEF IsDue, Pos
    <3>4. table[c] \in Nat
      BY <3>1, TypedNumbers DEF Numbers, Clocks
    <3> QED BY <2>2, <2>4, <3>2, <3>3, <3>4, ConstantsNat
  <2>6. ClearsUnowed(c)'
    <3> SUFFICES ASSUME c \in Retired, c \notin hist.loose
                 PROVE  /\ tmos'.left[c] = Empty
                        /\ Sent(c)' => pc'.at = "pass" /\ tmos'.others = 0
      BY <2>2, <2>4 DEF ClearsUnowed
    <3>1. tmos.left[c] = Empty /\ (Sent(c) => tmos.others = 0)
      BY <2>2, RetiredUnowed
    <3>2. pc'.at = "pass"
      BY <2>2 DEF ExtraPass
    <3> QED BY <2>2, <3>1, <3>2 DEF Sent
  <2> QED BY <2>5, <2>6
<1> QED BY <1>1, <1>2

\* Only a start leads between its two steps.
LEMMA OnlyStarts ==
  ASSUME TypeOK, Still, pc'.at = "starting"
  PROVE  pc' = pc \/ \E b \in Bits, u \in Units : TaskStart(b, u)
<1>t. pc \in PcTypes
  BY DEF TypeOK
<1>h. \A p \in Places \ {"mask", "check", "starting"} :
        Home.at # "starting" /\ [Home EXCEPT !.at = p].at # "starting"
  BY HomeStill
<1>a. \A p \in Places \ {"starting"} : ~At(p)
  <2> SUFFICES ASSUME NEW p \in Places \ {"starting"}, At(p) PROVE FALSE
    OBVIOUS
  <2> QED BY AtStill
<1>1. CASE Task
  <2>1. \A b \in Bits : TaskStop(b) => pc'.at = "stopping"
    BY <1>t DEF TaskStop, PcTypes
  <2>2. \A b \in Bits : TaskPost(b) => pc' = pc
    BY DEF TaskPost
  <2>3. ~TaskPublish /\ ~TaskStopped /\ ~TaskReturn
    BY <1>h DEF TaskPublish, TaskStopped, TaskReturn, Places
  <2> QED BY <1>1, <2>1, <2>2, <2>3 DEF Task
<1>2. CASE Irqs
  BY <1>2, <1>a DEF Irqs, Interrupted, Raised, Tmr3Interrupt, Woken, Places
<1>3. CASE Loop
  <2>1. ~LoopTop /\ ~IdleTry
    BY <1>t, <1>h DEF LoopTop, IdleTry, PcTypes, Places
  <2>2. ~Pass
    <3>1. [Home EXCEPT !.at = "app"].at # "starting" /\ Home.at # "starting"
      BY <1>h DEF Places
    <3>2. [pc EXCEPT !.pass = 2].at = pc.at
      BY <1>t DEF PcTypes
    <3>3. pc.at = "pass" => ~AfterPass
      BY <1>a, <3>1, <3>2 DEF AfterPass, Places
    <3> QED BY <3>1, <3>3 DEF Pass
  <2>3. ~IdlePlan
    BY PlanEffect DEF ExtraPass
  <2>4. ~Mask /\ ~WaitEnds /\ ~HaltEnds
    BY <1>a DEF Mask, WaitEnds, HaltEnds, Places
  <2>5. ~Check
    BY <1>a, CheckEffect DEF Check, Places
  <2>6. ~LastLook /\ ~Halt /\ ~Unmasked
    BY <1>h DEF LastLook, Halt, Unmasked, Places
  <2> QED BY <1>3, <2>1, <2>2, <2>3, <2>4, <2>5, <2>6 DEF Loop
<1> QED BY <1>1, <1>2, <1>3 DEF Still

\* Between the two steps of a start, the sink may stop the timer, or start it and
\* be excepted.
LEMMA StartStill ==
  ASSUME TypeOK, TypeOK', IdleInvariant, Bounds, StartFollows, Still
  PROVE  StartFollows'
<1>t. /\ pc \in PcTypes /\ hist \in HistTypes /\ tmos \in TmosTypes
      /\ tmos.left \in [Bits -> Counts] /\ hist'.loose \subseteq Bits
  BY DEF TypeOK, TmosTypes, HistTypes
<1> SUFFICES ASSUME pc'.at = "starting", pc'.bit \notin hist'.loose PROVE StartFollows'
  BY DEF StartFollows
<1>1. CASE pc' = pc
  <2>1. CASE StateMoves \/ SinkDoes
    <3>1. \A c \in Bits : Alone(c) \/ Stopped(c) \/ Restarted(c)
      BY <2>1, SinkBits
    <3>2. pc.bit \in hist.loose => pc.bit \in Bits
      BY <1>t DEF HistTypes
    <3>3. pc.bit \notin hist.loose => pc.bit \in Bits
      BY <1>1 DEF StartFollows
    <3>4. Alone(pc.bit) \/ Stopped(pc.bit)
      <4>1. ~Restarted(pc.bit)
        BY <1>1 DEF Restarted
      <4> QED BY <3>1, <3>2, <3>3, <4>1
    <3>5. pc.bit \notin hist.loose
      BY <1>1, <3>4 DEF Alone, Stopped
    <3>6. /\ pc.bit \in Bits /\ pc.units \in Units
          /\ tmos.left[pc.bit] # Empty => /\ pc.units * Unit <= tmos.left[pc.bit] + pc.slow
                                          /\ tmos.left[pc.bit] <= pc.units * Unit
          /\ tmos.left[pc.bit] = Empty => ~Sent(pc.bit)
      BY <1>1, <3>5 DEF StartFollows
    <3>7. CASE Alone(pc.bit)
      BY <1>1, <3>6, <3>7 DEF Alone, StartFollows, Sent
    <3>8. CASE Stopped(pc.bit)
      BY <1>1, <3>6, <3>8 DEF Stopped, StartFollows, Sent
    <3> QED BY <3>4, <3>7, <3>8
  <2>2. CASE UNCHANGED <<tmos, hist>>
    BY <1>1, <2>2 DEF StartFollows, Sent
  <2>3. CASE ~(StateMoves \/ SinkDoes)
    <3>1. pc.at = "starting"
      BY <1>1
    <3>2. UNCHANGED <<tmos, hist>>
      BY <2>3, <3>1 DEF Still, Loop, Task, Irqs, LoopTop, Pass, IdleTry, IdlePlan, Mask, Check,
           WaitEnds, LastLook, Halt, HaltEnds, Unmasked, TaskStart, TaskPublish, TaskStop,
           TaskStopped, TaskPost, TaskReturn, Interrupted, Raised, Tmr3Interrupt, Woken
    <3> QED BY <2>2, <3>2
  <2> QED BY <2>1, <2>3
<1>2. ASSUME NEW b \in Bits, NEW u \in Units, TaskStart(b, u) PROVE StartFollows'
  <2>1. /\ pc'.bit = b /\ pc'.units = u /\ pc'.slow = pc.slow /\ pc.at = "app"
        /\ tmos'.left = [tmos.left EXCEPT ![b] = u * Unit]
    BY <1>2, <1>t DEF TaskStart, Timed, PcTypes, TmosTypes
  <2>2. tmos'.left[b] = u * Unit /\ u * Unit \in Nat /\ pc'.slow = 0
    BY <2>1, <1>t, DelayPos DEF Bounds
  <2> QED BY <2>1, <2>2, PmIdleAssumption DEF StartFollows
<1> QED BY <1>1, <1>2, OnlyStarts

LEMMA DeadlineStill ==
  ASSUME ThreeTasks, TypeOK, TypeOK', IdleInvariant, DeadlineState, Still
  PROVE  DeadlineState'
<1>1. Bounds /\ ReadYoung /\ StartFollows
  BY DEF DeadlineState
<1>2. Bounds' /\ ReadYoung' /\ StartFollows'
  <2>1. Bounds'
    BY <1>1, BoundsStill
  <2> QED BY <1>1, <2>1, ReadStill, StartStill
<1>3. ASSUME NEW c \in Bits PROVE BitState(c)'
  <2>1. /\ EntryFollows(c) /\ Recent(c) /\ Settles(c)
        /\ PlanCovers(c) /\ SleepCovers(c) /\ ClearsUnowed(c)
    BY DEF DeadlineState, BitState
  <2>2. PlanCovers(c)' /\ ClearsUnowed(c)'
    BY <1>1, <2>1, PlanStill
  <2>3. SleepCovers(c)'
    BY <1>1, <2>1, SleepStill
  <2>4. Carried(c)
    BY <1>1, <2>1, LoopCarries, TaskCarries, IrqCarries DEF Still
  <2>5. EntryFollows(c)'
    BY <2>1, <2>4, EntryCarried
  <2>6. Recent(c)'
    BY <1>1, <1>2, <2>1, <2>3, <2>4, RecentCarried
  <2>7. Settles(c)'
    <3>1. pm'.prev # Empty => Pos(pm'.prev) <= 0
      BY <1>2 DEF ReadYoung
    <3> QED BY <2>1, <2>4, <3>1, SettlesCarried
  <2> QED BY <2>2, <2>3, <2>5, <2>6, <2>7 DEF BitState
<1> QED BY <1>2, <1>3 DEF DeadlineState

-----------------------------------------------------------------------------
(* A tick *)

LEMMA TickEffect ==
  ASSUME TypeOK, Tick
  PROVE  /\ pc'.at = pc.at /\ pc'.pass = pc.pass /\ pc'.bit = pc.bit /\ pc'.units = pc.units
         /\ pc'.plan.best = pc.plan.best /\ pc'.plan.clear = pc.plan.clear
         /\ Timely => pc'.slow = pc.slow + 1 /\ pc.slow < MaxSkew
         /\ ~Timely => pc'.slow = 0
         /\ ~hw.fired /\ (pc.at = "halted" => hw.trig # 0)
         /\ pc.at = "halted" => hw'.tmr3 = hw.tmr3 /\ ~hw'.fired
         /\ pc.at # "halted" /\ hw.tmr3 = 1 => hw'.tmr3 = Cap /\ hw'.fired
         /\ pc.at # "halted" /\ hw.tmr3 # 1 => hw'.tmr3 = hw.tmr3 - 1 /\ ~hw'.fired
         /\ hw.event => hw'.event
         /\ pc.at = "wait" /\ hw.tmr3 = 1 => hw'.event
         /\ hw'.trig = Down(hw.trig)
         /\ pm'.prev = Back(pm.prev) /\ pm'.fires = pm.fires
         /\ \A b \in Bits : table'[b] = Back(table[b]) /\ tmos'.left[b] = Down(tmos.left[b])
         /\ tmos'.queued = tmos.queued /\ tmos'.others = tmos.others
         /\ hist'.posted = hist.posted /\ hist'.loose = hist.loose
         /\ Asleep \/ ~Overdue => hist'.late = 0
         /\ ~Asleep /\ Overdue => hist'.late = hist.late + 1 /\ hist.late < MaxLate
<1>t. /\ pc \in PcTypes /\ pm \in PmTypes /\ tmos \in TmosTypes /\ hw \in HwTypes
      /\ hist \in HistTypes /\ pc.plan \in Plans
  BY DEF TypeOK, PcTypes
<1>1. /\ pc'.at = pc.at /\ pc'.pass = pc.pass /\ pc'.bit = pc.bit /\ pc'.units = pc.units
      /\ pc'.plan.best = pc.plan.best /\ pc'.plan.clear = pc.plan.clear
      /\ pc'.slow = IF Timely THEN pc.slow + 1 ELSE 0
  <2>1. pc' = [pc EXCEPT !.plan.seen = [b \in Bits |-> Back(@[b])],
                         !.slow = IF Timely THEN @ + 1 ELSE 0]
    BY DEF Tick
  <2> QED BY <2>1, <1>t DEF PcTypes, Plans
<1>2. ~hw.fired /\ (pc.at = "halted" => hw.trig # 0)
  BY DEF Tick
<1>3. /\ hw'.tmr3 = IF pc.at = "halted" THEN hw.tmr3
                    ELSE IF pc.at # "halted" /\ hw.tmr3 = 1 THEN Cap ELSE hw.tmr3 - 1
      /\ hw'.fired = (pc.at # "halted" /\ hw.tmr3 = 1)
      /\ hw'.event = (hw.event \/ (pc.at # "halted" /\ hw.tmr3 = 1 /\ pc.at = "wait"))
      /\ hw'.trig = Down(hw.trig)
  <2> DEFINE ends == pc.at # "halted" /\ hw.tmr3 = 1
  <2>1. hw' = [hw EXCEPT !.tmr3 = IF pc.at = "halted" THEN @ ELSE IF ends THEN Cap ELSE @ - 1,
                         !.fired = ends, !.event = @ \/ (ends /\ pc.at = "wait"),
                         !.trig = Down(@), !.stop = Down(@)]
    BY DEF Tick
  <2> HIDE DEF ends
  <2>2. /\ hw'.tmr3 = IF pc.at = "halted" THEN hw.tmr3 ELSE IF ends THEN Cap ELSE hw.tmr3 - 1
        /\ hw'.fired = ends /\ hw'.event = (hw.event \/ (ends /\ pc.at = "wait"))
        /\ hw'.trig = Down(hw.trig)
    BY <2>1, <1>t DEF HwTypes
  <2> QED BY <2>2 DEF ends
<1>4. pm'.prev = Back(pm.prev) /\ pm'.fires = pm.fires
  BY <1>t DEF Tick, PmTypes
<1>5. /\ \A b \in Bits : table'[b] = Back(table[b]) /\ tmos'.left[b] = Down(tmos.left[b])
      /\ tmos'.queued = tmos.queued /\ tmos'.others = tmos.others
  BY <1>t DEF Tick, TmosTypes
<1>6. /\ hist'.posted = hist.posted /\ hist'.loose = hist.loose
      /\ hist'.late = IF Asleep \/ ~Overdue THEN 0 ELSE hist.late + 1
      /\ Asleep \/ ~Overdue \/ hist.late < MaxLate
      /\ Timely => pc.slow < MaxSkew
  BY <1>t DEF Tick, HistTypes
<1> QED BY <1>1, <1>2, <1>3, <1>4, <1>5, <1>6

\* Where the loop stands, a tick moves nothing; a sleep goes on or ends.
LEMMA TickStays ==
  ASSUME TypeOK, Tick
  PROVE  /\ Passing' <=> Passing
         /\ Passes' = Passes
         /\ Planning' <=> Planning
         /\ Leaving' <=> Leaving
         /\ Planned' <=> Planned
         /\ Asleep' => Asleep
         /\ Asleep /\ ~Asleep' => pc.at = "wait" /\ hw.tmr3 = 1
         /\ \A c : Tracked(c)' <=> Tracked(c)
<1>1. /\ pc'.at = pc.at /\ pc'.pass = pc.pass /\ pc'.bit = pc.bit
      /\ hw.event => hw'.event
      /\ hist'.loose = hist.loose
  BY TickEffect
<1>2. Asleep /\ ~Asleep' => pc.at = "wait" /\ hw.tmr3 = 1
  <2>1. pc.at = "wait" /\ hw.tmr3 # 1 /\ ~hw.event => ~hw'.event
    <3>1. hw \in HwTypes
      BY DEF TypeOK
    <3> QED BY <3>1 DEF Tick, HwTypes
  <2> QED BY <1>1, <2>1 DEF Asleep
<1> QED BY <1>1, <1>2 DEF Passing, Passes, Planning, Leaving, Planned, Asleep, Tracked

\* What is left of a sleep goes down, but for a trigger that has fired.
LEMMA TickSleep ==
  ASSUME TypeOK, Bounds, Tick
  PROVE  /\ Asleep => SleepLeft \in Nat \ {0}
         /\ Asleep /\ ~Asleep' => SleepLeft = 1
         /\ Resting' => Resting /\ SleepLeft \in Nat
         /\ Resting' => SleepLeft' = SleepLeft - 1 \/ (Leaving /\ SleepLeft = 0 /\ SleepLeft' = 0)
<1>1. /\ pc'.at = pc.at /\ (pc.at = "halted" => hw.trig # 0) /\ hw'.trig = Down(hw.trig)
      /\ pc.at # "halted" /\ hw.tmr3 # 1 => hw'.tmr3 = hw.tmr3 - 1
      /\ pc.at = "wait" /\ hw.tmr3 = 1 => hw'.event
  BY TickEffect
<1>2. hw.tmr3 \in Nat \ {0} /\ (Leaving \/ pc.at = "halted" => hw.trig \in Nat)
  BY TypedNumbers, ConstantsNat DEF Numbers, Bounds
<1>3. Asleep => SleepLeft \in Nat \ {0}
  BY <1>1, <1>2 DEF Asleep, SleepLeft
<1>4. Asleep /\ ~Asleep' => SleepLeft = 1
  BY TickStays DEF SleepLeft
<1>5. Resting' => Resting /\ SleepLeft \in Nat
  BY <1>2, <1>3, TickStays DEF Resting, SleepLeft, Leaving
<1>6. ASSUME Asleep' PROVE SleepLeft' = SleepLeft - 1
  <2>1. CASE pc.at = "wait"
    BY <1>1, <1>6, <2>1 DEF Asleep, SleepLeft
  <2>2. CASE pc.at = "halted"
    BY <1>1, <1>2, <2>2, PmIdleAssumption DEF SleepLeft, Down
  <2> QED BY <1>1, <1>6, <2>1, <2>2 DEF Asleep
<1>7. ASSUME Leaving PROVE SleepLeft' = SleepLeft - 1 \/ (SleepLeft = 0 /\ SleepLeft' = 0)
  BY <1>1, <1>2, <1>7, PmIdleAssumption DEF Leaving, SleepLeft, Down
<1> QED BY <1>3, <1>4, <1>5, <1>6, <1>7, TickStays DEF Resting

\* A timer ticks down, and its entry with it.
LEMMA TickTimer ==
  ASSUME TypeOK, TypeOK', Bounds, Tick, NEW c \in Bits, EntryFollows(c), Recent(c), Live(c)'
  PROVE  /\ Live(c) /\ table[c] # Empty /\ Pos(table[c]) \in Int
         /\ table'[c] # Empty /\ Pos(table'[c]) = Pos(table[c]) - 1
         /\ Sent(c)' <=> Sent(c)
         /\ Ripe(c)' => Ripe(c) \/ (Runs(c) /\ tmos.left[c] = 1 /\ 1 <= Pos(table[c]))
         /\ Runs(c)' => /\ Runs(c) /\ tmos.left[c] \in Nat
                        /\ tmos'.left[c] = tmos.left[c] - 1
<1>1. /\ tmos'.left[c] = Down(tmos.left[c]) /\ table'[c] = Back(table[c])
      /\ tmos'.queued = tmos.queued /\ hist'.posted = hist.posted
      /\ Tracked(c)' => Tracked(c)
  BY TickEffect, TickStays
<1>2. tmos.left[c] \in Counts /\ table[c] \in Clocks
  BY TypedNumbers DEF Numbers
<1>3. /\ Sent(c)' <=> Sent(c)
      /\ Ripe(c)' => Ripe(c) \/ (Runs(c) /\ tmos.left[c] = 1)
      /\ Runs(c)' => /\ Runs(c) /\ tmos.left[c] \in Nat
                     /\ tmos'.left[c] = tmos.left[c] - 1
  <2>1. CASE tmos.left[c] = Empty
    BY <1>1, <2>1, PmIdleAssumption DEF Down, Sent, Ripe, Runs
  <2>2. CASE tmos.left[c] # Empty
    <3>1. tmos.left[c] \in Nat
      BY <1>2, <2>2 DEF Counts
    <3>2. tmos'.left[c] \in Nat /\ tmos'.left[c] = IF tmos.left[c] = 0 THEN 0 ELSE tmos.left[c] - 1
      BY <1>1, <2>2, <3>1 DEF Down
    <3> QED BY <2>2, <3>1, <3>2, PmIdleAssumption DEF Sent, Ripe, Runs
  <2> QED BY <2>1, <2>2
<1>4. Live(c)
  BY <1>1, <1>3 DEF Live
<1>5. table[c] # Empty /\ Pos(table[c]) \in Int /\ -Half < Pos(table[c])
  BY <1>4, EntryInReach
<1>6. table'[c] # Empty /\ Pos(table'[c]) = Pos(table[c]) - 1
  BY <1>1, <1>2, <1>5, BackPos
<1>7. Runs(c) /\ tmos.left[c] = 1 => 1 <= Pos(table[c])
  BY <1>4 DEF EntryFollows
<1> QED BY <1>3, <1>4, <1>5, <1>6, <1>7

\* A lateness grows by the tick: in a sleep as the sleep gets shorter, and awake
\* against the count of ticks the main loop has let pass.
LEMMA WithinTick ==
  ASSUME TypeOK, TypeOK', Bounds, Tick, Overdue, NEW x \in Int, NEW y \in Int, y = x + 1,
         NEW lo \in Nat, NEW hi \in Nat, lo <= hi, Within(x, lo, hi)
  PROVE  Within(y, lo, hi)'
<1>1. /\ Passing' <=> Passing
      /\ Passes' = Passes
      /\ Planning' <=> Planning
      /\ Leaving' <=> Leaving
      /\ Asleep' => Asleep
  BY TickStays
<1>2. /\ ~Asleep => hist'.late = hist.late + 1 /\ hist.late \in Nat
      /\ Asleep => hist'.late = 0
      /\ tmos'.others = tmos.others
  BY TickEffect, TypedNumbers DEF Numbers
<1>3. /\ Asleep => SleepLeft \in Nat \ {0}
      /\ Asleep /\ ~Asleep' => SleepLeft = 1
      /\ Asleep' => SleepLeft' = SleepLeft - 1
  BY <1>1, TickSleep DEF Resting, Leaving, Asleep
<1>4. Planning \/ Leaving \/ Passing => ~Asleep
  BY DEF Planning, Leaving, Passing, Asleep
<1>5. Asleep' => y + SleepLeft' <= hi
  BY <1>1, <1>3 DEF Within
<1>6. ~Asleep' => y <= hi + hist'.late
  BY <1>2, <1>3 DEF Within
<1>7. Planning' \/ Leaving' => y <= lo + hist'.late
  BY <1>1, <1>2, <1>4 DEF Within
<1>8. Passing' /\ y > lo + hist'.late => tmos'.others + Passes' <= 2
  <2> SUFFICES ASSUME Passing', y > lo + hist'.late PROVE tmos.others + Passes <= 2
    BY <1>1, <1>2
  <2>1. x > lo + hist.late
    BY <1>1, <1>2, <1>4
  <2> QED BY <1>1, <2>1 DEF Within
<1> QED BY <1>5, <1>6, <1>7, <1>8 DEF Within

LEMMA RecentTick ==
  ASSUME TypeOK, TypeOK', Bounds, Tick, NEW c \in Bits, EntryFollows(c), Recent(c),
         SleepCovers(c)
  PROVE  Recent(c)'
<1> SUFFICES ASSUME Live(c)' PROVE Recent(c)'
  BY DEF Recent
<1>1. /\ Live(c) /\ Pos(table[c]) \in Int /\ Pos(table'[c]) = Pos(table[c]) - 1
      /\ Sent(c)' <=> Sent(c)
      /\ Ripe(c)' => Ripe(c) \/ (Runs(c) /\ tmos.left[c] = 1 /\ 1 <= Pos(table[c]))
  BY TickTimer
<1>2. PICK x \in Int, y \in Int : x = -Pos(table[c]) /\ y = -Pos(table'[c]) /\ y = x + 1
  <2>1. -Pos(table[c]) \in Int /\ -Pos(table'[c]) = -Pos(table[c]) + 1
    BY <1>1
  <2> QED BY <2>1
<1>3. Ripe(c) \/ Sent(c) => Overdue
  BY DEF Ripe, Sent, Overdue, Expired
<1>4. Sent(c)' => Within(y, OneSleep, TwoSleeps)'
  <2> SUFFICES ASSUME Sent(c) PROVE Within(y, OneSleep, TwoSleeps)'
    BY <1>1
  <2>1. Within(x, OneSleep, TwoSleeps) /\ Overdue /\ OneSleep <= TwoSleeps
    BY <1>1, <1>2, <1>3, ConstantsNat DEF Recent
  <2> QED BY <1>2, <2>1, ConstantsNat, WithinTick
<1>5. Ripe(c) => Within(y, 0, OneSleep)'
  <2> SUFFICES ASSUME Ripe(c) PROVE Within(y, 0, OneSleep)'
    OBVIOUS
  <2>1. Within(x, 0, OneSleep) /\ Overdue
    BY <1>1, <1>2, <1>3 DEF Recent
  <2> QED BY <1>2, <2>1, ConstantsNat, WithinTick
<1>6. 1 <= Pos(table[c]) => Within(y, 0, OneSleep)'
  <2> SUFFICES ASSUME 1 <= Pos(table[c]) PROVE Within(y, 0, OneSleep)'
    OBVIOUS
  <2>1. y <= 0 /\ hist'.late \in Nat
    BY <1>1, <1>2, NextNumbers DEF Numbers
  <2>2. Asleep' => y + SleepLeft' <= OneSleep
    <3> SUFFICES ASSUME Asleep' PROVE y + SleepLeft' <= OneSleep
      OBVIOUS
    <3>1. Resting' /\ Asleep /\ Resting
      BY TickStays DEF Resting
    <3>2. SleepLeft \in Nat /\ SleepLeft' = SleepLeft - 1
      BY <3>1, TickSleep DEF Leaving, Asleep
    <3>3. SleepLeft <= Floor \/ SleepLeft <= Unit + MaxSkew - x
      BY <1>1, <1>2, <3>1, ConstantsNat DEF SleepCovers
    <3> QED BY <1>2, <2>1, <3>2, <3>3, ConstantsNat
  <2> QED BY <2>1, <2>2, ConstantsNat DEF Within
<1>7. Ripe(c)' => Within(y, 0, OneSleep)'
  BY <1>1, <1>5, <1>6
<1> QED BY <1>2, <1>4, <1>7 DEF Recent

LEMMA EntryTick ==
  ASSUME TypeOK, TypeOK', Bounds, Tick, NEW c \in Bits, EntryFollows(c), Recent(c)
  PROVE  EntryFollows(c)'
<1> SUFFICES ASSUME Live(c)' PROVE EntryFollows(c)'
  BY DEF EntryFollows
<1>1. /\ Live(c) /\ table[c] # Empty /\ Pos(table[c]) \in Int
      /\ table'[c] # Empty /\ Pos(table'[c]) = Pos(table[c]) - 1
      /\ Runs(c)' => /\ Runs(c) /\ tmos.left[c] \in Nat
                     /\ tmos'.left[c] = tmos.left[c] - 1
      /\ Sent(c)' <=> Sent(c)
      /\ Ripe(c)' => Ripe(c) \/ (Runs(c) /\ tmos.left[c] = 1 /\ 1 <= Pos(table[c]))
  BY TickTimer
<1>2. /\ Pos(table[c]) <= MaxSkew + (IF Runs(c) THEN tmos.left[c] ELSE 0)
      /\ Runs(c) => tmos.left[c] <= Pos(table[c])
  BY <1>1 DEF EntryFollows
<1>3. CASE Runs(c)'
  <2>1. Pos(table[c]) <= MaxSkew + tmos.left[c] /\ tmos.left[c] <= Pos(table[c])
    BY <1>1, <1>2, <1>3
  <2>2. Pos(table'[c]) <= MaxSkew + tmos'.left[c] /\ tmos'.left[c] <= Pos(table'[c])
    BY <1>1, <1>3, <2>1, ConstantsNat
  <2> QED BY <1>1, <1>3, <2>2 DEF EntryFollows
<1>4. CASE ~Runs(c)'
  <2>1. \/ ~Runs(c)
        \/ Runs(c) /\ tmos.left[c] = 1
    BY <1>1, <1>4, PmIdleAssumption DEF Live, Runs, Ripe, Sent
  <2>2. Pos(table'[c]) <= MaxSkew
    BY <1>1, <1>2, <2>1, ConstantsNat
  <2> QED BY <1>1, <1>4, <2>2, ConstantsNat DEF EntryFollows
<1> QED BY <1>3, <1>4

LEMMA SettlesTick ==
  ASSUME TypeOK, TypeOK', Bounds, ReadYoung, Tick, NEW c \in Bits, EntryFollows(c), Recent(c),
         Settles(c)
  PROVE  Settles(c)'
<1> SUFFICES ASSUME Live(c)', pm'.prev # Empty, Pos(table'[c]) <= Pos(pm'.prev)
             PROVE  Settles(c)'
  BY DEF Settles
<1>1. /\ Live(c) /\ Pos(table[c]) \in Int /\ Pos(table'[c]) = Pos(table[c]) - 1
      /\ Sent(c)' <=> Sent(c)
      /\ Ripe(c)' => Ripe(c) \/ (Runs(c) /\ tmos.left[c] = 1 /\ 1 <= Pos(table[c]))
  BY TickTimer
<1>2. pm.prev # Empty /\ pm'.prev = Back(pm.prev) /\ pm.prev \in Clocks
  BY TickEffect, TypedNumbers DEF Back, Numbers
<1>3. Pos(pm.prev) \in Int /\ Pos(pm.prev) <= 0 /\ Pos(pm'.prev) = Pos(pm.prev) - 1
  <2>1. ~hw.fired
    BY TickEffect
  <2>2. Pos(pm.prev) \in Int /\ Pos(pm.prev) <= 0 /\ DueWindow - Pos(pm.prev) < Half
    BY <1>2, <2>1, ReadInReach
  <2>3. -Half < Pos(pm.prev)
    BY <2>2, ConstantsNat, HalfMod
  <2> QED BY <1>2, <2>2, <2>3, BackPos
<1>4. Pos(table[c]) <= Pos(pm.prev)
  BY <1>1, <1>3
<1>5. Ripe(c)' => Ripe(c)
  BY <1>1, <1>3, <1>4
<1>6. /\ Ripe(c) => /\ Passing => tmos.others + Passes <= 2
                    /\ pc.at # "plan"
      /\ Sent(c) => /\ Passing => tmos.others + Passes <= 3
                    /\ pc.at = "plan" => tmos.others = 0
  BY <1>1, <1>2, <1>4 DEF Settles
<1>7. pc'.at = pc.at /\ tmos'.others = tmos.others /\ Passes' = Passes /\ (Passing' <=> Passing)
  BY TickEffect, TickStays
<1> QED BY <1>1, <1>5, <1>6, <1>7 DEF Settles

\* The plan, the sleep and the clear list
LEMMA PlanTick ==
  ASSUME TypeOK, TypeOK', Bounds, Tick, NEW c \in Bits, EntryFollows(c), Recent(c),
         PlanCovers(c), SleepCovers(c), ClearsUnowed(c)
  PROVE  PlanCovers(c)' /\ SleepCovers(c)' /\ ClearsUnowed(c)'
<1>t. Live(c)' => /\ Live(c) /\ Pos(table[c]) \in Int
                  /\ Pos(table'[c]) = Pos(table[c]) - 1
  BY TickTimer
<1>p. /\ Planned' <=> Planned
      /\ pc'.at = pc.at
      /\ pc'.plan.best = pc.plan.best /\ pc'.plan.clear = pc.plan.clear
      /\ Planned => pc'.slow = pc.slow + 1
      /\ pc.slow \in Nat /\ pc.plan.best \in Nat
  BY TickEffect, TickStays DEF Timely, TypeOK, PcTypes, Plans
<1>1. PlanCovers(c)'
  <2> SUFFICES ASSUME Planned', c \notin pc'.plan.clear, Live(c)'
               PROVE  pc'.plan.best <= Floor \/ pc'.plan.best <= Unit + pc'.slow + Pos(table'[c])
    BY DEF PlanCovers
  <2>1. pc.plan.best <= Floor \/ pc.plan.best <= Unit + pc.slow + Pos(table[c])
    BY <1>t, <1>p DEF PlanCovers
  <2> QED BY <1>t, <1>p, <2>1, ConstantsNat
<1>2. SleepCovers(c)'
  <2> SUFFICES ASSUME Resting', Live(c)'
               PROVE  SleepLeft' <= Floor \/ SleepLeft' <= Unit + MaxSkew + Pos(table'[c])
    BY DEF SleepCovers
  <2>1. /\ Resting /\ SleepLeft \in Nat
        /\ SleepLeft' = SleepLeft - 1 \/ (Leaving /\ SleepLeft = 0 /\ SleepLeft' = 0)
    BY TickSleep
  <2>2. SleepLeft <= Floor \/ SleepLeft <= Unit + MaxSkew + Pos(table[c])
    BY <1>t, <2>1 DEF SleepCovers
  <2> QED BY <1>t, <2>1, <2>2, ConstantsNat
<1>3. ClearsUnowed(c)'
  <2> SUFFICES ASSUME Planned, c \in pc.plan.clear, c \notin hist.loose
               PROVE  /\ tmos'.left[c] = Empty
                      /\ Sent(c)' => pc'.at = "pass" /\ tmos'.others = 0
    BY <1>p, TickEffect DEF ClearsUnowed
  <2>1. tmos.left[c] = Empty /\ (Sent(c) => pc.at = "pass" /\ tmos.others = 0)
    BY DEF ClearsUnowed
  <2>2. tmos'.left[c] = Down(tmos.left[c]) /\ tmos'.queued = tmos.queued
        /\ tmos'.others = tmos.others /\ hist'.posted = hist.posted
    BY TickEffect
  <2> QED BY <1>p, <2>1, <2>2 DEF Sent, Down
<1> QED BY <1>1, <1>2, <1>3

LEMMA StartTick ==
  ASSUME TypeOK, StartFollows, Tick
  PROVE  StartFollows'
<1> SUFFICES ASSUME pc.at = "starting", pc.bit \notin hist.loose PROVE StartFollows'
  BY TickEffect DEF StartFollows
<1>1. /\ pc.bit \in Bits /\ pc.units \in Units
      /\ tmos.left[pc.bit] # Empty => /\ pc.units * Unit <= tmos.left[pc.bit] + pc.slow
                                      /\ tmos.left[pc.bit] <= pc.units * Unit
      /\ tmos.left[pc.bit] = Empty => ~Sent(pc.bit)
  BY DEF StartFollows
<1>2. /\ pc'.at = pc.at /\ pc'.bit = pc.bit /\ pc'.units = pc.units
      /\ pc'.slow = pc.slow + 1 /\ tmos'.left[pc.bit] = Down(tmos.left[pc.bit])
      /\ tmos'.queued = tmos.queued /\ hist'.posted = hist.posted
  BY <1>1, TickEffect DEF Timely
<1>3. tmos.left[pc.bit] \in Counts /\ pc.slow \in Nat /\ pc.units * Unit \in Nat
  BY <1>1, TypedNumbers, DelayPos DEF Numbers
<1>4. CASE tmos.left[pc.bit] = Empty
  BY <1>1, <1>2, <1>4 DEF StartFollows, Down, Sent
<1>5. CASE tmos.left[pc.bit] # Empty
  <2>1. tmos.left[pc.bit] \in Nat
    BY <1>3, <1>5 DEF Counts
  <2>2. /\ tmos'.left[pc.bit] \in Nat
        /\ tmos'.left[pc.bit] = IF tmos.left[pc.bit] = 0 THEN 0 ELSE tmos.left[pc.bit] - 1
    BY <1>2, <1>5, <2>1 DEF Down
  <2>3. /\ pc'.units * Unit <= tmos'.left[pc'.bit] + pc'.slow
        /\ tmos'.left[pc'.bit] <= pc'.units * Unit
    BY <1>1, <1>2, <1>3, <1>5, <2>1, <2>2
  <2> QED BY <1>1, <1>2, <2>2, <2>3, PmIdleAssumption DEF StartFollows
<1> QED BY <1>4, <1>5

LEMMA ReadTick ==
  ASSUME TypeOK, TypeOK', Bounds, ReadYoung, Tick
  PROVE  ReadYoung'
<1> SUFFICES ASSUME pm'.prev # Empty PROVE ReadYoung'
  BY DEF ReadYoung
<1>1. /\ pc'.at = pc.at /\ ~hw.fired /\ (pc.at = "halted" => hw.trig # 0)
      /\ pc.at = "halted" => hw'.tmr3 = hw.tmr3 /\ ~hw'.fired
      /\ pc.at # "halted" /\ hw.tmr3 = 1 => hw'.tmr3 = Cap /\ hw'.fired
      /\ pc.at # "halted" /\ hw.tmr3 # 1 => hw'.tmr3 = hw.tmr3 - 1 /\ ~hw'.fired
      /\ hw'.trig = Down(hw.trig) /\ pm'.prev = Back(pm.prev) /\ pm'.fires = pm.fires
      /\ Planned => pc'.slow = pc.slow + 1
  BY TickEffect DEF Timely
<1>2. pm.prev # Empty /\ pm.prev \in Clocks
  BY <1>1, TypedNumbers DEF Back, Numbers
<1>3. PICK x \in Int : x = Pos(pm.prev) /\ x <= 0 /\ DueWindow - x < Half
  BY <1>1, <1>2, ReadInReach
<1>4. Pos(pm'.prev) = x - 1
  <2>1. -Half < Pos(pm.prev)
    BY <1>3, ConstantsNat, HalfMod
  <2> QED BY <1>1, <1>2, <1>3, <2>1, BackPos
<1>5. /\ Fires = pm.fires /\ pm.fires \in Nat /\ pm.fires < MaxFires
      /\ Fires' = IF pc.at # "halted" /\ hw.tmr3 = 1 THEN pm.fires + 1 ELSE pm.fires
  BY <1>1, <1>2, TypedNumbers DEF Numbers, ReadYoung, Fires
<1>6. PICK k \in Nat : k = pm.fires * Cap
  BY <1>5, ConstantsNat, TimesNat
<1>7. Fires' * Cap = IF pc.at # "halted" /\ hw.tmr3 = 1 THEN k + Cap ELSE k
  BY <1>5, <1>6, ConstantsNat
<1>8. hw.tmr3 \in Nat \ {0} /\ pc.slow \in Nat
  BY TypedNumbers DEF Numbers
\* Awake, and in the wait, TMR3 or the count of its fires ages as the read does.
<1>9. ASSUME NEW n \in Int, pc.at # "halted", ReadAge(n)
      PROVE  hw'.tmr3 - Pos(pm'.prev) <= n + Fires' * Cap
  <2>1. hw.tmr3 - x <= n + k
    BY <1>3, <1>5, <1>6, <1>9 DEF ReadAge
  <2>2. CASE hw.tmr3 = 1
    <3>1. hw'.tmr3 = Cap /\ Fires' * Cap = k + Cap
      BY <1>1, <1>7, <1>9, <2>2
    <3> QED BY <1>4, <2>1, <2>2, <3>1, ConstantsNat
  <2>3. CASE hw.tmr3 # 1
    <3>1. hw'.tmr3 = hw.tmr3 - 1 /\ Fires' * Cap = k
      BY <1>1, <1>7, <1>9, <2>3
    <3> QED BY <1>4, <1>8, <2>1, <3>1
  <2> QED BY <2>2, <2>3
<1>10. CASE pc.at = "halted"
  <2>1. hw.trig \in Nat \ {0} /\ hw'.trig = hw.trig - 1
    BY <1>1, <1>10, ConstantsNat, PmIdleAssumption DEF Bounds, Down
  <2>2. hw.tmr3 - x <= 2 * SuspendCap + MaxSkew - hw.trig + k
    BY <1>2, <1>3, <1>5, <1>6, <1>10 DEF ReadYoung, ReadAge
  <2>3. hw'.tmr3 = hw.tmr3 /\ Fires' * Cap = k
    BY <1>1, <1>7, <1>10
  <2>4. /\ hw'.tmr3 - Pos(pm'.prev) <= 2 * SuspendCap + MaxSkew + Fires' * Cap
        /\ hw'.tmr3 - Pos(pm'.prev) <= 2 * SuspendCap + MaxSkew - hw'.trig + Fires' * Cap
    BY <1>4, <1>8, <2>1, <2>2, <2>3, ConstantsNat
  <2>5. ReadAge(2 * SuspendCap + MaxSkew)' /\ ReadAge(2 * SuspendCap + MaxSkew - hw.trig)'
    BY <2>4 DEF ReadAge
  <2>6. ~Planned' /\ ~Leaving'
    BY <1>1, <1>10 DEF Planned, Leaving
  <2>7. Pos(pm'.prev) <= 0 /\ pm'.fires < MaxFires
    BY <1>1, <1>3, <1>4, <1>5
  <2> QED BY <2>5, <2>6, <2>7 DEF ReadYoung
<1>11. CASE pc.at # "halted"
  <2>1. ReadAge(2 * SuspendCap + MaxSkew)'
    <3>1. ReadAge(2 * SuspendCap + MaxSkew) /\ 2 * SuspendCap + MaxSkew \in Int
      BY <1>2, ConstantsNat DEF ReadYoung
    <3>2. hw'.tmr3 - Pos(pm'.prev) <= 2 * SuspendCap + MaxSkew + Fires' * Cap
      BY <1>9, <1>11, <3>1
    <3> QED BY <3>2 DEF ReadAge
  <2>2. Planned' => ReadAge(SuspendCap)' /\ -Pos(pm'.prev) <= pc'.slow
    <3> SUFFICES ASSUME Planned' PROVE ReadAge(SuspendCap)' /\ -Pos(pm'.prev) <= pc'.slow
      OBVIOUS
    <3>1. ReadAge(SuspendCap) /\ -x <= pc.slow /\ Planned /\ SuspendCap \in Int
      BY <1>2, <1>3, TickStays, ConstantsNat DEF ReadYoung
    <3>2. hw'.tmr3 - Pos(pm'.prev) <= SuspendCap + Fires' * Cap
      BY <1>9, <1>11, <3>1
    <3>3. -Pos(pm'.prev) <= pc'.slow
      BY <1>1, <1>4, <1>8, <3>1
    <3> QED BY <3>2, <3>3 DEF ReadAge
  <2>3. Leaving' => ReadAge(SuspendCap + MaxSkew)'
    <3> SUFFICES ASSUME Leaving' PROVE ReadAge(SuspendCap + MaxSkew)'
      OBVIOUS
    <3>1. ReadAge(SuspendCap + MaxSkew) /\ SuspendCap + MaxSkew \in Int
      BY <1>2, TickStays, ConstantsNat DEF ReadYoung
    <3>2. hw'.tmr3 - Pos(pm'.prev) <= SuspendCap + MaxSkew + Fires' * Cap
      BY <1>9, <1>11, <3>1
    <3> QED BY <3>2 DEF ReadAge
  <2>4. Pos(pm'.prev) <= 0 /\ pm'.fires < MaxFires
    BY <1>1, <1>3, <1>4, <1>5
  <2> QED BY <1>1, <1>11, <2>1, <2>2, <2>3, <2>4 DEF ReadYoung
<1> QED BY <1>10, <1>11

LEMMA BoundsTick ==
  ASSUME TypeOK, TypeOK', Bounds, Tick
  PROVE  Bounds'
<1>1. /\ pc'.at = pc.at /\ pc'.pass = pc.pass /\ pc'.plan.best = pc.plan.best
      /\ Timely => pc'.slow = pc.slow + 1 /\ pc.slow < MaxSkew
      /\ ~Timely => pc'.slow = 0
      /\ pc.at = "halted" => hw'.tmr3 = hw.tmr3 /\ ~hw'.fired
      /\ pc.at # "halted" /\ hw.tmr3 = 1 => hw'.tmr3 = Cap /\ hw'.fired
      /\ pc.at # "halted" /\ hw.tmr3 # 1 => hw'.tmr3 = hw.tmr3 - 1 /\ ~hw'.fired
      /\ hw'.trig = Down(hw.trig)
      /\ Asleep \/ ~Overdue => hist'.late = 0
      /\ ~Asleep /\ Overdue => hist'.late = hist.late + 1 /\ hist.late < MaxLate
  BY TickEffect
<1>2. hist.late \in Nat /\ pc.slow \in Nat /\ hw.tmr3 \in Nat
  BY TypedNumbers DEF Numbers
<1>3. hist'.late <= MaxLate /\ pc'.slow <= MaxSkew
  BY <1>1, <1>2, ConstantsNat
<1>4. pc'.at = "app" => pc'.slow = 0
  BY <1>1 DEF Timely, Planned
<1>5. hw'.tmr3 <= SuspendCap /\ (hw'.fired => hw'.tmr3 = Cap)
  BY <1>1, <1>2, ConstantsNat DEF Bounds
<1>6. pc'.pass = 3 => pc'.plan.best <= SuspendCap
  BY <1>1 DEF Bounds
<1>7. Leaving \/ pc.at = "halted" =>
        /\ hw.trig \in 0 .. SuspendCap /\ hw'.trig \in 0 .. SuspendCap
        /\ hw.trig <= hw'.trig + 1
  BY <1>1, ConstantsNat DEF Bounds, Down
<1>8. pc'.at = "prologue" => HaltGuard <= hw'.trig + pc'.slow
  <2> SUFFICES ASSUME pc.at = "prologue" PROVE HaltGuard <= hw'.trig + pc'.slow
    BY <1>1
  <2>1. Leaving /\ Timely /\ HaltGuard <= hw.trig + pc.slow
    BY DEF Leaving, Timely, Bounds
  <2> QED BY <1>1, <1>2, <1>7, <2>1, ConstantsNat
<1>9. Leaving' => Leaving
  BY <1>1 DEF Leaving
<1> QED BY <1>1, <1>3, <1>4, <1>5, <1>6, <1>7, <1>8, <1>9 DEF Bounds

LEMMA DeadlineTick ==
  ASSUME TypeOK, TypeOK', DeadlineState, Tick
  PROVE  DeadlineState'
<1>1. Bounds /\ ReadYoung /\ StartFollows
  BY DEF DeadlineState
<1>2. Bounds' /\ ReadYoung' /\ StartFollows'
  BY <1>1, BoundsTick, ReadTick, StartTick
<1>3. ASSUME NEW c \in Bits PROVE BitState(c)'
  <2>1. /\ EntryFollows(c) /\ Recent(c) /\ Settles(c)
        /\ PlanCovers(c) /\ SleepCovers(c) /\ ClearsUnowed(c)
    BY DEF DeadlineState, BitState
  <2>2. EntryFollows(c)' /\ Recent(c)' /\ Settles(c)'
    BY <1>1, <2>1, EntryTick, RecentTick, SettlesTick
  <2>3. PlanCovers(c)' /\ SleepCovers(c)' /\ ClearsUnowed(c)'
    BY <1>1, <2>1, PlanTick
  <2> QED BY <2>2, <2>3 DEF BitState
<1> QED BY <1>2, <1>3 DEF DeadlineState

-----------------------------------------------------------------------------
(* Theorems *)

LEMMA DeadlineInit == Init => DeadlineState
<1> SUFFICES ASSUME Init PROVE DeadlineState
  OBVIOUS
<1>1. /\ pc.at = "top" /\ pc.pass = 0 /\ pc.slow = 0 /\ pm.prev = Empty
      /\ \A b \in Bits : tmos.left[b] = Empty
      /\ tmos.queued = {} /\ hw.tmr3 = Cap /\ hist.late = 0
  BY DEF Init, Home
<1>2. Bounds
  BY <1>1, ConstantsNat DEF Bounds, Leaving
<1>3. ReadYoung /\ StartFollows
  BY <1>1 DEF ReadYoung, StartFollows
<1>4. ASSUME NEW b \in Bits PROVE BitState(b)
  <2>1. ~Live(b) /\ ~Planned
    BY <1>1, PmIdleAssumption DEF Live, Runs, Ripe, Sent, Planned
  <2> QED BY <2>1 DEF BitState, EntryFollows, Recent, Settles, PlanCovers, SleepCovers, ClearsUnowed
<1> QED BY <1>2, <1>3, <1>4 DEF DeadlineState

LEMMA DeadlineStutter == DeadlineState /\ UNCHANGED vars => DeadlineState'
<1> SUFFICES ASSUME DeadlineState, UNCHANGED vars PROVE DeadlineState'
  OBVIOUS
<1>1. UNCHANGED <<pc, pm, table, tmos, hw, hist>>
  BY DEF vars
<1>2. Bounds' /\ ReadYoung' /\ StartFollows'
  BY <1>1 DEF DeadlineState, Bounds, ReadYoung, StartFollows, Leaving, Planned, ReadAge, Fires, Sent
<1>3. ASSUME NEW b \in Bits PROVE BitState(b)'
  <2>1. BitState(b)
    BY DEF DeadlineState
  <2>2. /\ (Live(b)' <=> Live(b)) /\ (Runs(b)' <=> Runs(b)) /\ (Ripe(b)' <=> Ripe(b))
        /\ (Sent(b)' <=> Sent(b)) /\ (Planned' <=> Planned) /\ (Passing' <=> Passing)
        /\ (Planning' <=> Planning) /\ (Leaving' <=> Leaving) /\ (Asleep' <=> Asleep)
    BY <1>1 DEF Live, Tracked, Runs, Ripe, Sent, Planned, Passing, Planning, Leaving, Asleep
  <2>3. Passes' = Passes /\ SleepLeft' = SleepLeft
    BY <1>1 DEF Passes, SleepLeft
  <2> QED BY <1>1, <2>1, <2>2, <2>3
          DEF BitState, EntryFollows, Recent, Within, Settles, PlanCovers, SleepCovers, Resting,
              ClearsUnowed
<1> QED BY <1>2, <1>3 DEF DeadlineState

\* The entry of every timer follows its deadline, a plan sleeps past none, and
\* pm_settled lets pm_tmr3_arm retire no entry whose expiry is still owed.
THEOREM DeadlineStateHolds == ThreeTasks => (Spec => []DeadlineState)
<1> SUFFICES ASSUME ThreeTasks PROVE Spec => []DeadlineState
  OBVIOUS
<1>1. Init => DeadlineState
  BY DeadlineInit
<1>2. ASSUME TypeOK, TypeOK', IdleInvariant, DeadlineState, [Next]_vars PROVE DeadlineState'
  BY <1>2, DeadlineStill, DeadlineTick, DeadlineStutter DEF Next, Still
<1> QED BY <1>1, <1>2, TypeCorrect, IdleInvariantHolds, PTL DEF Spec

\* However starts, stops and retirements cross, the wait and the halt of
\* pm_idle_try end within a unit, and the bounded delays, of every timer that
\* runs and of every expiry not yet dispatched.
THEOREM TimersCoveredHolds == ThreeTasks => (Spec => []TimersCovered)
<1> SUFFICES ASSUME ThreeTasks PROVE Spec => []TimersCovered
  OBVIOUS
<1>1. TypeOK /\ IdleInvariant /\ DeadlineState => TimersCovered
  <2> SUFFICES ASSUME TypeOK, IdleInvariant, DeadlineState, Asleep, NEW b \in Owed
               PROVE  WakeIn <= Unit + 2 * MaxSkew + IF tmos.left[b] = Empty THEN 0 ELSE tmos.left[b]
    BY DEF TimersCovered
  <2>1. Bounds /\ EntryFollows(b) /\ SleepCovers(b) /\ b \in Bits /\ b \notin hist.loose
    BY DEF DeadlineState, BitState, Owed
  <2>2. tmos.left[b] \in Counts /\ hw.trig \in Counts /\ hw.stop \in Counts /\ hw.tmr3 \in Nat
    BY <2>1 DEF TypeOK, TmosTypes, HwTypes
  <2>3. Live(b)
    <3>1. hist.posted = {} /\ Tracked(b)
      BY <2>1 DEF Asleep, IdleInvariant, Settling, Tracked
    <3> QED BY <2>2, <3>1, PmIdleAssumption DEF Owed, Live, Runs, Ripe, Sent, Counts
  <2>4. SleepLeft \in Nat /\ WakeIn \in Nat /\ WakeIn <= SleepLeft
    <3>1. CASE pc.at = "wait"
      BY <2>2, <3>1 DEF WakeIn, SleepLeft
    <3>2. CASE pc.at = "halted"
      <4> DEFINE S == {hw.trig, hw.stop} \ {Empty}
      <4>1. hw.trig \in Nat
        BY <2>1, <3>2, ConstantsNat DEF Bounds
      <4>2. S \in SUBSET Nat /\ hw.trig \in S
        BY <2>2, <4>1, PmIdleAssumption DEF Counts
      <4> HIDE DEF S
      <4>3. Least(S) \in Nat /\ Least(S) <= hw.trig
        BY <4>2, LeastIsLeast
      <4>4. WakeIn = Least(S) /\ SleepLeft = hw.trig
        BY <3>2 DEF WakeIn, SleepLeft, S
      <4> QED BY <4>1, <4>3, <4>4
    <3> QED BY <3>1, <3>2 DEF Asleep
  <2>5. SleepLeft <= Floor \/ SleepLeft <= Unit + MaxSkew + Pos(table[b])
    BY <2>1, <2>3 DEF SleepCovers, Resting
  <2>6. /\ Pos(table[b]) \in Int
        /\ Pos(table[b]) <= MaxSkew + (IF Runs(b) THEN tmos.left[b] ELSE 0)
    BY <2>1, <2>3, TypedNumbers DEF EntryFollows, Numbers
  <2>7. CASE tmos.left[b] = Empty
    <3>1. Pos(table[b]) <= MaxSkew
      BY <2>6, <2>7, ConstantsNat DEF Runs
    <3> QED BY <2>4, <2>5, <2>6, <2>7, <3>1, ConstantsNat
  <2>8. CASE tmos.left[b] # Empty
    <3>1. tmos.left[b] \in Nat
      BY <2>2, <2>8 DEF Counts
    <3>2. Pos(table[b]) <= MaxSkew + tmos.left[b]
      BY <2>6, <3>1, ConstantsNat DEF Runs
    <3> QED BY <2>4, <2>5, <2>6, <2>8, <3>1, <3>2, ConstantsNat
  <2> QED BY <2>7, <2>8
<1> QED BY <1>1, TypeCorrect, IdleInvariantHolds, DeadlineStateHolds, PTL
=============================================================================
