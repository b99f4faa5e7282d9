---------------------------- MODULE PmIdleProofs ----------------------------
(***************************************************************************)
(* The power manager, proved for every set of timers, every modulus, unit, *)
(* floor, cap and lead the assumptions of PmIdle allow, and any skew and   *)
(* lateness: its state is well typed, and with three TMOS tasks it never   *)
(* sleeps over an event posted by code, an interrupt the wait cannot see,  *)
(* or a class or USB that forbids it (NoSleepOverWork).                    *)
(*                                                                         *)
(* The argument counts passes.  A post sets a latch with its queue entry,  *)
(* and the loop takes the latch before the first of three passes; two      *)
(* other tasks can take two of them, so an event that is still queued when *)
(* the sleep is planned, and that no latch shows, does not exist           *)
(* (IdleInvariant).                                                        *)
(***************************************************************************)
EXTENDS PmIdle, WellFoundedInduction, TLAPS

-----------------------------------------------------------------------------
(* Types *)

Places == {"top", "pass", "app", "starting", "stopping", "try", "plan", "mask",
           "check", "wait", "unmask", "look", "prologue", "halted"}
Clocks == 0 .. Mod - 1 \cup {Empty}
Counts == Nat \cup {Empty}
Plans  == [best : Nat, clear : SUBSET Bits, seen : [Bits -> Clocks]]

PcTypes   == [at : Places, pass : 0 .. 3, entry : BOOLEAN, bit : Bits \cup {Empty},
              units : Units \cup {0}, plan : Plans, slow : Nat]
PmTypes   == [post : BOOLEAN, ran : BOOLEAN, armed : BOOLEAN, prev : Clocks, fires : Nat]
TmosTypes == [left : [Bits -> Counts], queued : SUBSET Bits, others : Nat]
HwTypes   == [tmr3 : Nat \ {0}, fired : BOOLEAN, pending : BOOLEAN, event : BOOLEAN,
              trig : Counts, stop : Counts]
HistTypes == [posted : SUBSET Bits, loose : SUBSET Bits, late : Nat]

\* The sleep is planned before the mask, and never for no time.
PlanKnown == /\ pc.at \in {"mask", "check"} => pc.pass = 3
             /\ pc.pass = 3 => pc.plan.best > 0

TypeOK ==
  /\ pc \in PcTypes /\ PlanKnown
  /\ pm \in PmTypes
  /\ table \in [Bits -> Clocks]
  /\ tmos \in TmosTypes
  /\ hw \in HwTypes
  /\ ok \in BOOLEAN
  /\ hist \in HistTypes

\* Least is the least element of any set of counts, finite or not.
LEMMA LeastIsLeast ==
  ASSUME NEW S \in SUBSET Nat, S # {}
  PROVE  /\ Least(S) \in S
         /\ \A y \in S : Least(S) <= y
<1> DEFINE R == {ss \in Nat \X Nat : ss[1] < ss[2]}
<1>0. IsWellFoundedOn(R, Nat)
  BY NatLessThanWellFounded DEF OpToRel
<1>1. PICK x \in S : \A y \in S : ~(<<y, x>> \in R)
  <2> HIDE DEF R
  <2> QED BY <1>0, WFMin
<1>2. \A y \in S : x <= y
  <2> TAKE y \in S
  <2>1. ~(y < x)
    BY <1>1
  <2> QED BY <2>1
<1> QED BY <1>2 DEF Least

\* pm_tmr3_plan returns a delay of at least the floor.
LEMMA PlanTyped ==
  ASSUME TypeOK, NEW susp \in BOOLEAN
  PROVE  Plan(susp) \in Plans /\ Plan(susp).best > 0
<1> DEFINE cap == IF susp THEN SuspendCap ELSE Cap
           S == Sleeps(cap)
<1>1. cap \in Nat /\ Floor \in Nat /\ Floor > 0 /\ Unit \in Nat
  BY PmIdleAssumption
<1>2. table \in [Bits -> Clocks]
  BY DEF TypeOK
<1>3. S \in SUBSET Nat /\ S # {}
  BY <1>1, <1>2, PmIdleAssumption DEF Sleeps, Clocks
<1>4. Least(S) \in Nat
  <2> HIDE DEF S
  <2> QED BY <1>3, LeastIsLeast
<1>5. Larger(Floor, Least(S)) \in Nat /\ Larger(Floor, Least(S)) > 0
  BY <1>1, <1>4 DEF Larger
<1>6. [b \in Bits |-> IF b \in Retired THEN table[b] ELSE Empty] \in [Bits -> Clocks]
  BY <1>2 DEF Clocks
<1> HIDE DEF S
<1>7. Plan(susp) = [best |-> Larger(Floor, Least(S)), clear |-> Retired,
                    seen |-> [b \in Bits |-> IF b \in Retired THEN table[b] ELSE Empty]]
  BY DEF Plan, S
<1> QED BY <1>5, <1>6, <1>7 DEF Plans, Retired

LEMMA BackTyped ==
  ASSUME NEW x \in Clocks
  PROVE  Back(x) \in Clocks
<1>1. CASE x = Empty
  BY <1>1 DEF Back, Clocks
<1>2. CASE x # Empty
  <2>1. x - 1 \in Int /\ Mod \in Nat \ {0}
    BY <1>2, PmIdleAssumption DEF Clocks
  <2>2. (x - 1) % Mod \in 0 .. Mod - 1
    BY <2>1
  <2> QED BY <1>2, <2>2 DEF Back, Clocks
<1> QED BY <1>1, <1>2

LEMMA DownTyped ==
  ASSUME NEW x \in Counts
  PROVE  Down(x) \in Counts
BY DEF Down, Counts

LEMMA HomeTyped ==
  /\ Home \in PcTypes
  /\ Home.pass = 0 /\ Home.at = "top"
  /\ \A p \in Places \ {"mask", "check"} :
       /\ [Home EXCEPT !.at = p] \in PcTypes
       /\ [Home EXCEPT !.at = p].at = p
       /\ [Home EXCEPT !.at = p].pass = 0
<1>1. NoPlan \in Plans
  BY DEF NoPlan, Plans, Clocks
<1>2. Home \in PcTypes
  BY <1>1 DEF Home, Places, PcTypes
<1> QED BY <1>2 DEF Home, PcTypes

\* Typed values put into a typed record leave it typed.
LEMMA PcStepped ==
  ASSUME NEW p \in PcTypes, NEW x \in Places, NEW n \in 0 .. 3
  PROVE  [p EXCEPT !.at = x, !.pass = n] \in PcTypes
BY DEF PcTypes

LEMMA PcPlanned ==
  ASSUME NEW p \in PcTypes, NEW x \in Places, NEW n \in 0 .. 3, NEW l \in Plans, NEW d \in Nat
  PROVE  [p EXCEPT !.at = x, !.pass = n, !.plan = l, !.slow = d] \in PcTypes
BY DEF PcTypes

LEMMA PmUpdated ==
  ASSUME NEW p \in PmTypes, NEW x \in Clocks, NEW n \in Nat
  PROVE  [p EXCEPT !.prev = x, !.fires = n] \in PmTypes
BY DEF PmTypes

LEMMA HwUpdated ==
  ASSUME NEW h \in HwTypes, NEW t \in Nat \ {0}, NEW f \in BOOLEAN, NEW e \in BOOLEAN,
         NEW g \in Counts, NEW s \in Counts
  PROVE  /\ [h EXCEPT !.tmr3 = t] \in HwTypes
         /\ [h EXCEPT !.tmr3 = t, !.trig = g, !.stop = s] \in HwTypes
         /\ [h EXCEPT !.tmr3 = t, !.fired = f, !.event = e, !.trig = g, !.stop = s] \in HwTypes
<1>1. [h EXCEPT !.tmr3 = t] \in HwTypes
  BY DEF HwTypes
<1>2. [h EXCEPT !.tmr3 = t, !.trig = g, !.stop = s] \in HwTypes
  BY DEF HwTypes
<1>3. [h EXCEPT !.tmr3 = t, !.fired = f, !.event = e, !.trig = g, !.stop = s] \in HwTypes
  BY DEF HwTypes
<1> QED BY <1>1, <1>2, <1>3

LEMMA HistUpdated ==
  ASSUME NEW h \in HistTypes, NEW S \in SUBSET Bits, NEW L \in SUBSET Bits
  PROVE  /\ [h EXCEPT !.posted = S] \in HistTypes
         /\ [h EXCEPT !.loose = L] \in HistTypes
         /\ [h EXCEPT !.posted = S, !.loose = L] \in HistTypes
<1>1. [h EXCEPT !.posted = S] \in HistTypes /\ [h EXCEPT !.loose = L] \in HistTypes
  BY DEF HistTypes
<1>2. [h EXCEPT !.posted = S, !.loose = L] \in HistTypes
  BY DEF HistTypes
<1> QED BY <1>1, <1>2

LEMMA AtTyped ==
  ASSUME TypeOK, NEW p \in Places, At(p)
  PROVE  pc' \in PcTypes /\ pc'.at = p /\ pc'.pass = pc.pass /\ pc'.plan = pc.plan
BY DEF TypeOK, At, PcTypes

LEMMA TmosTyped ==
  ASSUME NEW t \in TmosTypes
  PROVE  /\ Poll(t) \in TmosTypes
         /\ \A b \in Bits :
              /\ Posting(t, b) \in TmosTypes /\ Untimed(t, b) \in TmosTypes
              /\ \A u \in Units : Timed(t, b, u) \in TmosTypes
<1>1. [b \in Bits |-> IF b \in Expired(t) THEN Empty ELSE t.left[b]] \in [Bits -> Counts]
  BY DEF TmosTypes, Counts
<1>2. Poll(t) \in TmosTypes
  BY <1>1 DEF Poll, Expired, TmosTypes
<1>3. ASSUME NEW b \in Bits
      PROVE  Posting(t, b) \in TmosTypes /\ Untimed(t, b) \in TmosTypes
  BY DEF Posting, Untimed, TmosTypes, Counts
<1>4. ASSUME NEW b \in Bits, NEW u \in Units
      PROVE  Timed(t, b, u) \in TmosTypes
  <2>1. u * Unit \in Counts
    BY PmIdleAssumption DEF Counts
  <2>2. [t.left EXCEPT ![b] = u * Unit] \in [Bits -> Counts]
    BY <2>1 DEF TmosTypes
  <2>3. Timed(t, b, u) = [t EXCEPT !.left = [t.left EXCEPT ![b] = u * Unit]]
    BY DEF Timed, TmosTypes
  <2> QED BY <2>2, <2>3 DEF TmosTypes
<1> QED BY <1>2, <1>3, <1>4

LEMMA DelaysAreInts ==
  ASSUME NEW u \in Units \cup {0}
  PROVE  u * Unit \in Int
<1>1. u \in Int /\ Unit \in Int
  BY PmIdleAssumption
<1> QED BY <1>1

LEMMA PublishTyped ==
  ASSUME TypeOK, NEW b \in Bits, NEW u \in Units, Publish(b, u)
  PROVE  table' \in [Bits -> Clocks]
<1>1. (u * Unit) % Mod \in Clocks
  <2>1. u * Unit \in Int /\ Mod \in Nat \ {0}
    BY PmIdleAssumption
  <2> QED BY <2>1 DEF Clocks
<1> QED BY <1>1 DEF Publish, TypeOK

LEMMA MovesTyped ==
  ASSUME TypeOK, StateMoves \/ SinkDoes
  PROVE  /\ pm' \in PmTypes /\ table' \in [Bits -> Clocks] /\ tmos' \in TmosTypes
         /\ ok' \in BOOLEAN /\ hist' \in HistTypes
<1>1. CASE StateMoves
  BY <1>1 DEF StateMoves, TypeOK
<1>2. CASE SinkDoes
  <2>0. PICK b \in Bits :
          /\ pm' \in {pm, [pm EXCEPT !.post = TRUE]}
          /\ hist' \in {[hist EXCEPT !.posted = @ \cup {b}], [hist EXCEPT !.posted = @ \ {b}],
                       [hist EXCEPT !.loose = @ \cup {b}], [hist EXCEPT !.loose = @ \ {b}]}
    BY <1>2 DEF SinkDoes
  <2>a. hist.posted \in SUBSET Bits /\ hist.loose \in SUBSET Bits /\ hist \in HistTypes
    BY DEF TypeOK, HistTypes
  <2>b. [pm EXCEPT !.post = TRUE] \in PmTypes
    BY DEF TypeOK, PmTypes
  <2>1. pm' \in PmTypes /\ ok' \in BOOLEAN /\ hist' \in HistTypes
    <3>1. pm' \in PmTypes /\ ok' \in BOOLEAN
      BY <1>2, <2>0, <2>b DEF SinkDoes, TypeOK
    <3>2. hist' \in HistTypes
      <4>1. hist.posted \cup {b} \in SUBSET Bits /\ hist.posted \ {b} \in SUBSET Bits
            /\ hist.loose \cup {b} \in SUBSET Bits /\ hist.loose \ {b} \in SUBSET Bits
        BY <2>a
      <4>2. /\ [hist EXCEPT !.posted = hist.posted \cup {b}] \in HistTypes
            /\ [hist EXCEPT !.posted = hist.posted \ {b}] \in HistTypes
            /\ [hist EXCEPT !.loose = hist.loose \cup {b}] \in HistTypes
            /\ [hist EXCEPT !.loose = hist.loose \ {b}] \in HistTypes
        BY <2>a, <4>1, HistUpdated
      <4> QED BY <2>0, <4>2
    <3> QED BY <3>1, <3>2
  <2>2. table' \in [Bits -> Clocks] /\ tmos' \in TmosTypes
    BY <1>2, PublishTyped, TmosTyped DEF SinkDoes, TypeOK, Clocks
  <2> QED BY <2>1, <2>2
<1> QED BY <1>1, <1>2

LEMMA HaltOffTyped == TypeOK => HaltOff \in HwTypes
BY DEF TypeOK, HaltOff, HwTypes, Counts

LEMMA TypeInit == Init => TypeOK
<1> SUFFICES ASSUME Init PROVE TypeOK
  OBVIOUS
<1>1. pc \in PcTypes /\ PlanKnown
  BY HomeTyped DEF Init, PlanKnown
<1>2. tmos \in TmosTypes /\ hw \in HwTypes
  BY PmIdleAssumption DEF Init, TmosTypes, HwTypes, Counts
<1> QED BY <1>1, <1>2 DEF Init, TypeOK, PmTypes, HistTypes, Clocks

LEMMA TypeStep == TypeOK /\ [Next]_vars => TypeOK'
<1> SUFFICES ASSUME TypeOK, [Next]_vars PROVE TypeOK'
  OBVIOUS
<1> USE PmIdleAssumption
<1> DEFINE PcOK == pc' \in PcTypes /\ PlanKnown'
<1>h. pc' = Home => PcOK
  BY HomeTyped DEF PlanKnown
<1>g. \A p \in Places \ {"mask", "check"} : pc' = [Home EXCEPT !.at = p] => PcOK
  BY HomeTyped DEF PlanKnown
<1>a. ASSUME NEW p \in Places \ {"mask", "check"}, At(p) PROVE PcOK
  BY <1>a, AtTyped DEF PlanKnown, TypeOK
<1>1. CASE UNCHANGED vars
  BY <1>1 DEF TypeOK, vars, PlanKnown
<1>2. ASSUME NEW b \in Bits, NEW u \in Units, TaskStart(b, u) PROVE TypeOK'
  <2>1. PcOK
    BY <1>2 DEF TypeOK, TaskStart, PlanKnown, PcTypes, Places
  <2>2. tmos' \in TmosTypes /\ hist' \in HistTypes
    BY <1>2, TmosTyped DEF TypeOK, TaskStart, HistTypes
  <2> QED BY <1>2, <2>1, <2>2 DEF TypeOK, TaskStart
<1>3. CASE TaskPublish
  <2>1. PcOK
    BY <1>3, <1>g DEF TaskPublish, Places
  <2>2. table' \in [Bits -> Clocks]
    <3>1. (pc.units * Unit) % Mod \in Clocks
      <4>1. pc.units \in Units \cup {0}
        BY DEF TypeOK, PcTypes
      <4>2. pc.units * Unit \in Int /\ Mod \in Nat \ {0}
        BY <4>1, DelaysAreInts
      <4> QED BY <4>2 DEF Clocks
    <3> QED BY <1>3, <3>1 DEF TaskPublish, Publish, TypeOK
  <2> QED BY <1>3, <2>1, <2>2 DEF TypeOK, TaskPublish
<1>4. ASSUME NEW b \in Bits, TaskStop(b) PROVE TypeOK'
  <2>1. PcOK
    BY <1>4 DEF TypeOK, TaskStop, PlanKnown, PcTypes, Places
  <2> QED BY <1>4, <2>1 DEF TypeOK, TaskStop, Clocks
<1>5. CASE TaskStopped
  <2>1. PcOK
    BY <1>5, <1>g DEF TaskStopped, Places
  <2>2. hist' \in HistTypes
    BY <1>5 DEF TaskStopped, TypeOK, HistTypes
  <2>3. tmos' \in TmosTypes
    BY <1>5 DEF TaskStopped, TypeOK, TmosTypes, Untimed, Counts
  <2> QED BY <1>5, <2>1, <2>2, <2>3 DEF TypeOK, TaskStopped
<1>6. CASE Interrupted
  <2>1. PcOK /\ hw' \in HwTypes
    BY <1>6, <1>a, HaltOffTyped DEF Interrupted, TypeOK, PlanKnown, Places
  <2> QED BY <1>6, <2>1, MovesTyped DEF Interrupted, TypeOK
<1>7. CASE Raised
  <2>1. hw' \in HwTypes
    BY <1>7 DEF Raised, TypeOK, HwTypes
  <2> QED BY <1>7, <2>1 DEF Raised, TypeOK, PlanKnown
<1>8. CASE Tmr3Interrupt
  <2>1. hw' \in HwTypes
    BY <1>8 DEF Tmr3Interrupt, TypeOK, HwTypes
  <2>2. Aged(pm) \in PmTypes
    <3>1. Empty \in Clocks /\ pm \in PmTypes
      BY DEF TypeOK, Clocks
    <3>2. [pm EXCEPT !.prev = Empty, !.fires = 0] \in PmTypes
      BY <3>1, PmUpdated
    <3>3. [pm EXCEPT !.fires = @ + 1] \in PmTypes
      BY <3>1 DEF PmTypes
    <3> QED BY <3>2, <3>3 DEF Aged
  <2> QED BY <1>8, <2>1, <2>2 DEF Tmr3Interrupt, TypeOK, PlanKnown
<1>9. CASE Woken
  <2>1. hw' \in HwTypes
    BY <1>9 DEF Woken, TypeOK, HwTypes
  <2> QED BY <1>9, <2>1, MovesTyped DEF Woken, TypeOK, PlanKnown
<1>10. CASE Unmasked
  BY <1>10, <1>h DEF TypeOK, Unmasked
<1>11. CASE LoopTop
  <2>1. PcOK
    BY <1>11 DEF LoopTop, TypeOK, PmTypes, PcTypes, PlanKnown, Places
  <2>2. pm' \in PmTypes /\ tmos' \in TmosTypes
    BY <1>11 DEF LoopTop, TypeOK, PmTypes, TmosTypes
  <2> QED BY <1>11, <2>1, <2>2 DEF LoopTop, TypeOK
<1>12. CASE Pass
  <2>1. AfterPass => PcOK
    <3>1. CASE At("mask") /\ pc.pass = 3
      BY <3>1, AtTyped DEF TypeOK, PlanKnown, Places
    <3>2. CASE pc' = [pc EXCEPT !.pass = 2] /\ pc.at = "pass"
      BY <3>2 DEF TypeOK, PlanKnown, PcTypes
    <3>3. pc.pass \in 0 .. 3 /\ pc.at = "pass"
      BY <1>12 DEF TypeOK, PcTypes, Pass
    <3>4. {"try", "plan"} \subseteq Places \ {"mask", "check"}
      BY DEF Places
    <3> QED BY <3>1, <3>2, <3>3, <3>4, <1>h, <1>a DEF AfterPass
  <2>2. PcOK
    BY <1>12, <2>1, <1>g DEF Pass, Places
  <2>3. tmos' \in TmosTypes
    <3>1. Poll(tmos) \in TmosTypes
      BY TmosTyped DEF TypeOK
    <3>2. tmos.others > 0 => [tmos EXCEPT !.others = @ - 1] \in TmosTypes
      BY DEF TypeOK, TmosTypes
    <3>3. \A b \in Bits : [tmos EXCEPT !.queued = @ \ {b}] \in TmosTypes
      BY DEF TypeOK, TmosTypes
    <3>4. tmos.queued \subseteq Bits
      BY DEF TypeOK, TmosTypes
    <3>5. \/ tmos.others > 0 /\ tmos' = [tmos EXCEPT !.others = @ - 1]
          \/ \E b \in tmos.queued : tmos' = [tmos EXCEPT !.queued = @ \ {b}]
          \/ tmos' = Poll(tmos)
      BY <1>12 DEF Pass
    <3> QED BY <3>1, <3>2, <3>3, <3>4, <3>5
  <2>4. pm' \in PmTypes /\ hist' \in HistTypes
    <3>1. [pm EXCEPT !.ran = TRUE] \in PmTypes
      BY DEF TypeOK, PmTypes
    <3>2. hist.posted \in SUBSET Bits /\ hist.loose \in SUBSET Bits /\ hist \in HistTypes
      BY DEF TypeOK, HistTypes
    <3>3. \/ UNCHANGED <<pm, hist>>
          \/ /\ pm' = [pm EXCEPT !.ran = TRUE]
             /\ \E b \in tmos.queued : \E L \in {hist.loose, hist.loose \ {b}} :
                  hist' = [hist EXCEPT !.posted = @ \ {b}, !.loose = L]
      BY <1>12 DEF Pass
    <3>4. ASSUME NEW b \in tmos.queued, NEW L \in {hist.loose, hist.loose \ {b}}
          PROVE  [hist EXCEPT !.posted = @ \ {b}, !.loose = L] \in HistTypes
      BY <3>2, HistUpdated
    <3> QED BY <3>1, <3>3, <3>4 DEF TypeOK
  <2> QED BY <1>12, <2>2, <2>3, <2>4 DEF Pass, TypeOK
<1>13. ASSUME NEW b \in Bits, TaskPost(b) PROVE TypeOK'
  <2>1. pm' \in PmTypes /\ hist' \in HistTypes
    BY <1>13 DEF TaskPost, TypeOK, PmTypes, HistTypes
  <2> QED BY <1>13, <2>1, TmosTyped DEF TypeOK, TaskPost, PlanKnown
<1>14. CASE TaskReturn
  BY <1>14, <1>h, TmosTyped DEF TypeOK, TaskReturn
<1>15. CASE IdleTry
  <2>1. PcOK
    <3>1. [pc EXCEPT !.at = "pass", !.pass = 1] \in PcTypes
      <4>1. "pass" \in Places /\ pc \in PcTypes /\ 1 \in 0 .. 3
        BY DEF TypeOK, Places
      <4> QED BY <4>1, PcStepped
    <3>2. [pc EXCEPT !.at = "pass", !.pass = 1].at = "pass"
          /\ [pc EXCEPT !.at = "pass", !.pass = 1].pass = 1
      BY DEF TypeOK, PcTypes
    <3> QED BY <1>15, <1>h, <3>1, <3>2 DEF IdleTry, PlanKnown
  <2> QED BY <1>15, <2>1 DEF TypeOK, IdleTry
<1>16. CASE IdlePlan
  <2>1. pm' \in PmTypes
    <3>1. 0 \in Clocks /\ pm \in PmTypes
      BY DEF TypeOK, Clocks
    <3>2. [pm EXCEPT !.prev = 0, !.fires = 0] \in PmTypes
      BY <3>1, PmUpdated
    <3>3. pm' \in {pm, [pm EXCEPT !.prev = 0, !.fires = 0]}
      BY <1>16 DEF IdlePlan
    <3> QED BY <3>1, <3>2, <3>3
  <2>2. PcOK
    <3>1. CASE pc' = Home
      BY <3>1, <1>h
    <3>2. ASSUME NEW susp \in BOOLEAN,
                 pc' = [pc EXCEPT !.at = ExtraPass, !.pass = 3, !.plan = Plan(susp), !.slow = 0]
          PROVE  PcOK
      <4>1. Plan(susp) \in Plans /\ Plan(susp).best > 0 /\ ExtraPass \in Places
        BY PlanTyped DEF ExtraPass, Places
      <4>2. pc' \in PcTypes
        <5>1. pc \in PcTypes /\ 3 \in 0 .. 3 /\ 0 \in Nat
          BY DEF TypeOK
        <5>2. [pc EXCEPT !.at = ExtraPass, !.pass = 3, !.plan = Plan(susp), !.slow = 0]
                \in PcTypes
          BY <4>1, <5>1, PcPlanned
        <5> QED BY <3>2, <5>2
      <4>3. pc'.pass = 3 /\ pc'.plan = Plan(susp)
        BY <3>2 DEF TypeOK, PcTypes
      <4> QED BY <4>1, <4>2, <4>3 DEF PlanKnown
    <3> QED BY <1>16, <3>1, <3>2 DEF IdlePlan
  <2> QED BY <1>16, <2>1, <2>2 DEF TypeOK, IdlePlan
<1>17. CASE Mask
  <2>1. PcOK
    BY <1>17, AtTyped DEF Mask, Places, TypeOK, PlanKnown
  <2> QED BY <1>17, <2>1 DEF Mask, TypeOK
<1>18. CASE Check
  <2>1. pm' \in PmTypes
    BY <1>18 DEF Check, TypeOK, PmTypes, WorkSeen
  <2>2. PcOK
    <3>1. pc.pass = 3 /\ pc.plan.best > 0
      BY <1>18 DEF Check, TypeOK, PlanKnown
    <3>2. [pc EXCEPT !.at = "look"] \in PcTypes
          /\ [pc EXCEPT !.at = "look"].at = "look"
          /\ [pc EXCEPT !.at = "look"].plan = pc.plan
      BY DEF TypeOK, PcTypes, Places
    <3>3. {"unmask", "wait"} \subseteq Places \ {"mask", "check"}
      BY DEF Places
    <3> QED BY <1>18, <1>a, <1>g, <3>1, <3>2, <3>3 DEF Check, PlanKnown
  <2>3. table' \in [Bits -> Clocks]
    BY <1>18 DEF Check, TypeOK, Armed, Clocks
  <2>4. hw' \in HwTypes
    <3>1. pc.plan.best \in Nat \ {0}
      BY <1>18 DEF Check, TypeOK, PlanKnown, PcTypes, Plans
    <3>2. HaltTicks \in Nat
      <4>1. HaltMin \div 2 \in Nat
        OBVIOUS
      <4> QED BY <4>1, <3>1 DEF HaltTicks, Larger
    <3>3. hw \in HwTypes /\ Backstop \in Counts /\ HaltTicks \in Counts
      BY <3>2 DEF TypeOK, Counts
    <3>4. \/ hw' = hw
          \/ hw' = [hw EXCEPT !.tmr3 = pc.plan.best]
          \/ hw' = [hw EXCEPT !.tmr3 = pc.plan.best, !.trig = HaltTicks, !.stop = Backstop]
      BY <1>18 DEF Check
    <3>5. Empty \in Counts
      BY DEF Counts
    <3>6. [hw EXCEPT !.tmr3 = pc.plan.best] \in HwTypes
      BY <3>1, <3>3, <3>5, HwUpdated
    <3>7. [hw EXCEPT !.tmr3 = pc.plan.best, !.trig = HaltTicks, !.stop = Backstop] \in HwTypes
      BY <3>1, <3>3, HwUpdated
    <3> QED BY <3>3, <3>4, <3>6, <3>7
  <2> QED BY <1>18, <2>1, <2>2, <2>3, <2>4 DEF Check, TypeOK
<1>19. CASE WaitEnds
  <2>1. hw' \in HwTypes
    BY <1>19 DEF WaitEnds, TypeOK, HwTypes
  <2> QED BY <1>19, <1>a, <2>1 DEF TypeOK, WaitEnds, Places
<1>20. CASE LastLook
  BY <1>20, <1>g, HaltOffTyped DEF TypeOK, LastLook, Places
<1>21. CASE Halt
  <2>1. hw' \in HwTypes
    BY <1>21 DEF Halt, TypeOK, HwTypes, Counts
  <2> QED BY <1>21, <1>g, <2>1 DEF TypeOK, Halt, Places
<1>22. CASE HaltEnds
  BY <1>22, <1>a, HaltOffTyped DEF TypeOK, HaltEnds, Places
<1>23. CASE Tick
  <2>1. table' \in [Bits -> Clocks]
    BY <1>23, BackTyped DEF Tick, TypeOK
  <2>2. pm' \in PmTypes
    BY <1>23, BackTyped DEF Tick, TypeOK, PmTypes
  <2>3. tmos' \in TmosTypes
    BY <1>23, DownTyped DEF Tick, TypeOK, TmosTypes
  <2>4. hw' \in HwTypes
    <3>1. Down(hw.trig) \in Counts /\ Down(hw.stop) \in Counts
      BY DownTyped DEF TypeOK, HwTypes
    <3> DEFINE ends == pc.at # "halted" /\ hw.tmr3 = 1
               t == IF pc.at = "halted" THEN hw.tmr3 ELSE IF ends THEN Cap ELSE hw.tmr3 - 1
               e == hw.event \/ (ends /\ pc.at = "wait")
    <3>2. hw' = [hw EXCEPT !.tmr3 = t, !.fired = ends, !.event = e, !.trig = Down(hw.trig),
                           !.stop = Down(hw.stop)]
      BY <1>23 DEF Tick
    <3>3. t \in Nat \ {0} /\ ends \in BOOLEAN /\ e \in BOOLEAN /\ hw \in HwTypes
      BY DEF TypeOK, HwTypes
    <3> HIDE DEF t, ends, e
    <3> QED BY <3>1, <3>2, <3>3, HwUpdated
  <2>5. PcOK
    <3>1. [b \in Bits |-> Back(pc.plan.seen[b])] \in [Bits -> Clocks]
      BY BackTyped DEF TypeOK, PcTypes, Plans
    <3>2. PICK n \in Nat :
            pc' = [pc EXCEPT !.plan.seen = [b \in Bits |-> Back(pc.plan.seen[b])], !.slow = n]
      <4>1. (IF Timely THEN pc.slow + 1 ELSE 0) \in Nat
        BY DEF TypeOK, PcTypes
      <4> QED BY <1>23, <4>1 DEF Tick
    <3>3. pc' \in PcTypes /\ pc'.at = pc.at /\ pc'.pass = pc.pass
          /\ pc'.plan.best = pc.plan.best
      BY <3>1, <3>2 DEF TypeOK, PcTypes, Plans
    <3> QED BY <3>3 DEF TypeOK, PlanKnown
  <2>6. hist' \in HistTypes
    BY <1>23 DEF Tick, TypeOK, HistTypes
  <2> QED BY <1>23, <2>1, <2>2, <2>3, <2>4, <2>5, <2>6 DEF Tick, TypeOK
<1> QED BY <1>1, <1>2, <1>3, <1>4, <1>5, <1>6, <1>7, <1>8, <1>9, <1>10, <1>11, <1>12, <1>13,
           <1>14, <1>15, <1>16, <1>17, <1>18, <1>19, <1>20, <1>21, <1>22, <1>23
        DEF Next, Loop, Task, Irqs

-----------------------------------------------------------------------------
(* The inductive invariant behind NoSleepOverWork *)

\* TMOS has three tasks: the keyboard's, and two more that may take a pass.
ThreeTasks == OtherTasks <= 2

\* An event posted by code stays queued until it is dispatched or cancelled.
PostedQueued == hist.posted \subseteq tmos.queued

\* What goes pending under the mask leaves the wait its event.
WaitArmed == pc.at = "wait" => ok /\ (hw.pending \/ hw.fired => hw.event)

\* A posted event the latches do not show was posted before the loop took them,
\* and every pass since went to another task.
Unnoticed ==
  hist.posted # {} /\ ~WorkSeen =>
    \/ pc.at \in {"top", "unmask"}
    \/ pc.at = "pass" /\ pc.pass = 0 /\ tmos.others <= 2
    \/ pc.at = "try"  /\ tmos.others <= 1
    \/ pc.at = "pass" /\ pc.pass = 1 /\ tmos.others <= 1
    \/ pc.at = "pass" /\ pc.pass = 2 /\ tmos.others <= 0

\* A handler runs with its latch set, and the core goes to sleep with nothing
\* posted.
Settling ==
  /\ pc.at \in {"app", "starting", "stopping"} => pm.ran
  /\ pc.at \in {"wait", "look", "prologue", "halted"} => hist.posted = {}
  /\ pc.at \in {"top", "try"} => pc.pass = 0

IdleInvariant == PostedQueued /\ WaitArmed /\ Unnoticed /\ Settling

\* What an interrupt does to the latches, the queue and what is posted
LEMMA SinkShows ==
  ASSUME TypeOK, PostedQueued, StateMoves \/ SinkDoes
  PROVE  /\ PostedQueued'
         /\ pm'.ran = pm.ran
         /\ hist'.posted # {} /\ ~WorkSeen' => hist.posted # {} /\ ~WorkSeen
         /\ tmos'.others = tmos.others
<1>1. CASE StateMoves
  BY <1>1 DEF StateMoves, PostedQueued, WorkSeen
<1>2. CASE SinkDoes
  <2>1. PICK b \in Bits :
          \/ /\ tmos' = Posting(tmos, b)
             /\ pm' = [pm EXCEPT !.post = TRUE]
             /\ hist' = [hist EXCEPT !.posted = @ \cup {b}]
          \/ /\ \E u \in Units : tmos' = Timed(tmos, b, u)
             /\ hist'.posted = hist.posted /\ UNCHANGED pm
          \/ /\ tmos' = Untimed(tmos, b)
             /\ hist' = [hist EXCEPT !.posted = @ \ {b}]
             /\ UNCHANGED pm
    <3>1. \A L : [hist EXCEPT !.loose = L].posted = hist.posted
      BY DEF TypeOK, HistTypes
    <3> QED BY <1>2, <3>1 DEF SinkDoes
  <2>2. CASE tmos' = Posting(tmos, b) /\ pm' = [pm EXCEPT !.post = TRUE]
             /\ hist' = [hist EXCEPT !.posted = @ \cup {b}]
    BY <2>2 DEF TypeOK, PostedQueued, Posting, TmosTypes, PmTypes, HistTypes, WorkSeen
  <2>3. CASE (\E u \in Units : tmos' = Timed(tmos, b, u)) /\ hist'.posted = hist.posted
             /\ UNCHANGED pm
    BY <2>3 DEF TypeOK, PostedQueued, Timed, TmosTypes, WorkSeen
  <2>4. CASE tmos' = Untimed(tmos, b) /\ hist' = [hist EXCEPT !.posted = @ \ {b}]
             /\ UNCHANGED pm
    BY <2>4 DEF TypeOK, PostedQueued, Untimed, TmosTypes, HistTypes, WorkSeen
  <2> QED BY <2>1, <2>2, <2>3, <2>4
<1> QED BY <1>1, <1>2

LEMMA IdleInit == ThreeTasks /\ Init => IdleInvariant
BY DEF Init, Home, IdleInvariant, PostedQueued, WaitArmed, Unnoticed, Settling

LEMMA IdleStep == ThreeTasks /\ TypeOK /\ IdleInvariant /\ [Next]_vars => IdleInvariant'
<1> SUFFICES ASSUME ThreeTasks, TypeOK, IdleInvariant, [Next]_vars
             PROVE  IdleInvariant'
  OBVIOUS
<1> USE DEF IdleInvariant
<1>t. /\ pc \in PcTypes /\ pm \in PmTypes /\ tmos \in TmosTypes /\ hw \in HwTypes
      /\ hist \in HistTypes
  BY DEF TypeOK
<1>h. /\ Home.at = "top"
      /\ \A p \in Places \ {"mask", "check"} : [Home EXCEPT !.at = p].at = p
  BY HomeTyped
\* A step that leaves what is posted alone and ends where nothing is asked
<1>r. ASSUME hist'.posted \subseteq tmos'.queued, pc'.at = "unmask" \/ pc' = Home
      PROVE  IdleInvariant'
  BY <1>r, HomeTyped DEF PostedQueued, WaitArmed, Unnoticed, Settling
<1>1. CASE UNCHANGED vars
  BY <1>1 DEF vars, PostedQueued, WaitArmed, Unnoticed, Settling, WorkSeen
<1>2. ASSUME NEW b \in Bits, NEW u \in Units, TaskStart(b, u) PROVE IdleInvariant'
  <2>1. /\ pc'.at = "starting" /\ pm.ran /\ pm' = pm /\ hist'.posted = hist.posted
        /\ tmos'.queued = tmos.queued
    BY <1>2, <1>t DEF TaskStart, Timed, Settling, PcTypes, HistTypes, TmosTypes
  <2> QED BY <2>1 DEF PostedQueued, WaitArmed, Unnoticed, Settling, WorkSeen
<1>3. CASE TaskPublish
  <2>1. pc'.at = "app" /\ pm.ran /\ UNCHANGED <<pm, tmos, hist>>
    BY <1>3, <1>h DEF TaskPublish, Settling, Places
  <2> QED BY <2>1 DEF PostedQueued, WaitArmed, Unnoticed, Settling, WorkSeen
<1>4. ASSUME NEW b \in Bits, TaskStop(b) PROVE IdleInvariant'
  <2>1. pc'.at = "stopping" /\ pm.ran /\ UNCHANGED <<pm, tmos, hist>>
    BY <1>4, <1>t DEF TaskStop, Settling, PcTypes
  <2> QED BY <2>1 DEF PostedQueued, WaitArmed, Unnoticed, Settling, WorkSeen
<1>5. CASE TaskStopped
  <2>1. pc'.at = "app" /\ pm.ran /\ pm' = pm
    BY <1>5, <1>h DEF TaskStopped, Settling, Places
  <2>2. hist'.posted = hist.posted \ {pc.bit} /\ tmos'.queued = tmos.queued \ {pc.bit}
    BY <1>5, <1>t DEF TaskStopped, Untimed, HistTypes, TmosTypes
  <2> QED BY <2>1, <2>2 DEF PostedQueued, WaitArmed, Unnoticed, Settling, WorkSeen
<1>6. CASE Interrupted
  <2>1. CASE pc.at \in {"look", "prologue", "halted"}
    <3>1. StateMoves /\ (pc' = pc \/ pc'.at = "unmask")
      BY <1>6, <2>1, AtTyped DEF Interrupted, Places
    <3>2. UNCHANGED <<tmos, pm, hist>>
      BY <3>1 DEF StateMoves
    <3> QED BY <2>1, <3>1, <3>2, <1>r DEF PostedQueued, WaitArmed, Unnoticed, Settling, WorkSeen
  <2>2. CASE pc.at \notin {"look", "prologue", "halted"}
    <3>1. pc' = pc /\ pc.at # "wait" /\ (StateMoves \/ SinkDoes)
      BY <1>6, <2>2 DEF Interrupted, Masked
    <3> QED BY <2>2, <3>1, SinkShows DEF WaitArmed, Unnoticed, Settling
  <2> QED BY <2>1, <2>2
<1>7. CASE Raised
  <2>1. UNCHANGED <<pc, pm, tmos, ok, hist>> /\ (pc.at = "wait" => hw'.event)
    BY <1>7, <1>t DEF Raised, HwTypes
  <2> QED BY <2>1 DEF PostedQueued, WaitArmed, Unnoticed, Settling, WorkSeen
<1>8. CASE Tmr3Interrupt
  <2>1. pm'.post = pm.post /\ pm'.ran = pm.ran
    BY <1>8, <1>t DEF Tmr3Interrupt, Aged, PmTypes
  <2>2. pc.at # "wait" /\ UNCHANGED <<pc, tmos, hist>>
    BY <1>8 DEF Tmr3Interrupt, Masked
  <2> QED BY <2>1, <2>2 DEF PostedQueued, WaitArmed, Unnoticed, Settling, WorkSeen
<1>9. CASE Woken
  <2>1. pc.at = "unmask" /\ pc' = pc /\ (StateMoves \/ SinkDoes)
    BY <1>9 DEF Woken
  <2> QED BY <2>1, SinkShows, <1>r DEF PostedQueued
<1>10. CASE Unmasked
  BY <1>10, <1>h, <1>r DEF Unmasked, PostedQueued
<1>11. CASE LoopTop
  <2>1. pc.at = "top" /\ pc'.at = "pass" /\ pc'.pass = pc.pass /\ hist' = hist
    BY <1>11, <1>t DEF LoopTop, PcTypes
  <2>2. tmos'.queued = tmos.queued /\ tmos'.others <= 2
    BY <1>11, <1>t DEF LoopTop, TmosTypes, ThreeTasks
  <2> QED BY <2>1, <2>2 DEF PostedQueued, WaitArmed, Unnoticed, Settling
<1>12. CASE Pass
  <2>1. pc.at = "pass" /\ pc.pass \in 0 .. 3
    BY <1>12, <1>t DEF Pass, PcTypes
  <2>2. CASE \E b \in tmos.queued :
               /\ tmos' = [tmos EXCEPT !.queued = @ \ {b}]
               /\ hist' = [hist EXCEPT !.posted = @ \ {b},
                             !.loose = IF tmos.left[b] = Empty THEN @ \ {b} ELSE @]
               /\ pm' = [pm EXCEPT !.ran = TRUE]
               /\ pc' = [Home EXCEPT !.at = "app"]
    <3>1. PICK b \in tmos.queued : tmos'.queued = tmos.queued \ {b}
                                   /\ hist'.posted = hist.posted \ {b}
      BY <2>2, <1>t DEF TmosTypes, HistTypes
    <3>2. pm'.ran /\ pc'.at = "app"
      BY <2>2, <1>t, <1>h DEF PmTypes, Places
    <3> QED BY <3>1, <3>2 DEF PostedQueued, WaitArmed, Unnoticed, Settling, WorkSeen
  <2>3. CASE AfterPass /\ UNCHANGED <<pm, hist>>
             /\ \/ tmos.others > 0 /\ tmos' = [tmos EXCEPT !.others = @ - 1]
                \/ tmos.queued = {} /\ tmos' = Poll(tmos)
    <3>1. PostedQueued'
      BY <2>3, <1>t DEF PostedQueued, Poll, TmosTypes
    <3>2. hist.posted # {} => tmos.others > 0 /\ tmos'.others = tmos.others - 1
      BY <2>3, <1>t DEF PostedQueued, TmosTypes
    <3>3. \/ pc.pass = 0 /\ pc'.at = "try" /\ pc'.pass = 0
          \/ pc'.at = "top" /\ pc'.pass = 0
          \/ pc.pass = 1 /\ pc'.at = "pass" /\ pc'.pass = 2 /\ ~WorkSeen
          \/ pc.pass = 2 /\ pc'.at = "plan" /\ ~WorkSeen
          \/ pc.pass = 3 /\ pc'.at = "mask" /\ ~WorkSeen
      BY <2>1, <2>3, <1>t, HomeTyped, AtTyped DEF AfterPass, PcTypes, Places
    <3> QED BY <2>1, <2>3, <3>1, <3>2, <3>3, <1>t
            DEF WaitArmed, Unnoticed, Settling, WorkSeen, TmosTypes
  <2> QED BY <1>12, <2>2, <2>3 DEF Pass
<1>13. ASSUME NEW b \in Bits, TaskPost(b) PROVE IdleInvariant'
  <2>1. pc' = pc /\ pc.at = "app" /\ pm.ran /\ pm'.ran
    BY <1>13, <1>t DEF TaskPost, Settling, PmTypes
  <2>2. hist'.posted = hist.posted \cup {b} /\ tmos'.queued = tmos.queued \cup {b}
    BY <1>13, <1>t DEF TaskPost, Posting, HistTypes, TmosTypes
  <2> QED BY <2>1, <2>2 DEF PostedQueued, WaitArmed, Unnoticed, Settling, WorkSeen
<1>14. CASE TaskReturn
  <2>1. tmos.queued \subseteq tmos'.queued /\ hist' = hist /\ pc' = Home
    BY <1>14, <1>t DEF TaskReturn, Poll, TmosTypes
  <2> QED BY <2>1, <1>r DEF PostedQueued
<1>15. CASE IdleTry
  <2>1. pc.at = "try" /\ UNCHANGED <<pm, tmos, hist>>
    BY <1>15 DEF IdleTry
  <2>2. pc' = Home \/ (pc'.at = "pass" /\ pc'.pass = 1)
    <3>1. [pc EXCEPT !.at = "pass", !.pass = 1].at = "pass"
          /\ [pc EXCEPT !.at = "pass", !.pass = 1].pass = 1
      BY <1>t DEF PcTypes
    <3>2. pc' = Home \/ pc' = [pc EXCEPT !.at = "pass", !.pass = 1]
      BY <1>15 DEF IdleTry
    <3> QED BY <3>1, <3>2
  <2> QED BY <2>1, <2>2, HomeTyped
          DEF PostedQueued, WaitArmed, Unnoticed, Settling, WorkSeen
<1>16. CASE IdlePlan
  <2>1. pc.at = "plan" /\ UNCHANGED <<tmos, hist>>
    BY <1>16 DEF IdlePlan
  <2>2. pm'.post = pm.post /\ pm'.ran = pm.ran
    BY <1>16, <1>t DEF IdlePlan, PmTypes
  <2>3. pc' = Home \/ pc'.at = "mask" \/ (pc'.at = "pass" /\ pc'.pass = 3)
    BY <1>16, <1>t DEF IdlePlan, ExtraPass, PcTypes
  <2> QED BY <2>1, <2>2, <2>3, HomeTyped
          DEF PostedQueued, WaitArmed, Unnoticed, Settling, WorkSeen
<1>17. CASE Mask
  <2>1. pc.at = "mask" /\ pc'.at = "check" /\ UNCHANGED <<pm, tmos, hist>>
    BY <1>17, AtTyped DEF Mask, Places
  <2> QED BY <2>1 DEF PostedQueued, WaitArmed, Unnoticed, Settling, WorkSeen
<1>18. CASE Check
  <2>1. pc.at = "check" /\ UNCHANGED <<tmos, hist, ok>>
    BY <1>18 DEF Check
  <2>2. CASE ~Admit
    BY <1>18, <2>1, <2>2, <1>r, AtTyped DEF Check, Places, PostedQueued
  <2>3. CASE Admit
    <3>1. ok /\ ~hw.pending /\ ~hw.fired /\ ~WorkSeen
      BY <2>3 DEF Admit, IrqPending
    <3>2. hist.posted = {}
      BY <2>1, <3>1 DEF Unnoticed
    <3>3. ~hw'.pending /\ ~hw'.fired
      BY <1>18, <2>3, <3>1, <1>t DEF Check, HwTypes
    <3>4. pc'.at \in {"wait", "look"}
      <4>1. [pc EXCEPT !.at = "look"].at = "look"
            /\ [Home EXCEPT !.at = "wait"].at = "wait"
        BY <1>t, <1>h DEF PcTypes, Places
      <4> QED BY <1>18, <2>3, <4>1 DEF Check
    <3> QED BY <2>1, <3>1, <3>2, <3>3, <3>4
            DEF PostedQueued, WaitArmed, Unnoticed, Settling
  <2> QED BY <2>2, <2>3
<1>19. CASE WaitEnds
  BY <1>19, <1>r, AtTyped DEF WaitEnds, Places, PostedQueued
<1>20. CASE LastLook
  <2>1. pc.at = "look" /\ pc'.at \in {"unmask", "prologue"} /\ UNCHANGED <<pm, tmos, hist>>
    BY <1>20, <1>h DEF LastLook, Places
  <2> QED BY <2>1 DEF PostedQueued, WaitArmed, Unnoticed, Settling
<1>21. CASE Halt
  <2>1. pc.at = "prologue" /\ pc'.at = "halted" /\ UNCHANGED <<pm, tmos, hist>>
    BY <1>21, <1>h DEF Halt, Places
  <2> QED BY <2>1 DEF PostedQueued, WaitArmed, Unnoticed, Settling
<1>22. CASE HaltEnds
  BY <1>22, <1>r, AtTyped DEF HaltEnds, Places, PostedQueued
<1>23. CASE Tick
  <2>1. /\ pc'.at = pc.at /\ pc'.pass = pc.pass /\ hist'.posted = hist.posted
        /\ pm'.post = pm.post /\ pm'.ran = pm.ran /\ ok' = ok
        /\ tmos'.queued = tmos.queued /\ tmos'.others = tmos.others
    BY <1>23, <1>t DEF Tick, PcTypes, HistTypes, PmTypes, TmosTypes
  <2>2. hw'.pending = hw.pending
        /\ (pc.at = "wait" => (hw'.fired => hw'.event) /\ (hw.event => hw'.event))
    BY <1>23, <1>t DEF Tick, HwTypes
  <2>3. ~hw.fired
    BY <1>23 DEF Tick
  <2> QED BY <2>1, <2>2, <2>3 DEF PostedQueued, WaitArmed, Unnoticed, Settling, WorkSeen
<1> QED BY <1>1, <1>2, <1>3, <1>4, <1>5, <1>6, <1>7, <1>8, <1>9, <1>10, <1>11, <1>12, <1>13,
           <1>14, <1>15, <1>16, <1>17, <1>18, <1>19, <1>20, <1>21, <1>22, <1>23
        DEF Next, Loop, Task, Irqs

-----------------------------------------------------------------------------
(* Theorems *)

\* Every reachable state of the power manager is well typed: deadlines stay below
\* the modulus, and TMR3 and the halt are never armed for no time.
THEOREM TypeCorrect == Spec => []TypeOK
<1> QED BY TypeInit, TypeStep, PTL DEF Spec

\* With three tasks, no event posted by code goes unnoticed past the third pass,
\* however interrupts, timers and other tasks interleave with the loop.
THEOREM IdleInvariantHolds == ThreeTasks => (Spec => []IdleInvariant)
<1> SUFFICES ASSUME ThreeTasks PROVE Spec => []IdleInvariant
  OBVIOUS
<1>1. Init => IdleInvariant
  BY IdleInit
<1>2. TypeOK /\ IdleInvariant /\ [Next]_vars => IdleInvariant'
  BY IdleStep
<1> QED BY <1>1, <1>2, TypeCorrect, PTL DEF Spec

\* The wait and the halt of pm_idle_try are never entered over work posted by
\* code, nor the wait over an interrupt it would not see or a veto.
THEOREM NoSleepOverWorkHolds == ThreeTasks => (Spec => []NoSleepOverWork)
<1> SUFFICES ASSUME ThreeTasks PROVE Spec => []NoSleepOverWork
  OBVIOUS
<1>1. IdleInvariant => NoSleepOverWork
  BY DEF IdleInvariant, WaitArmed, Settling, NoSleepOverWork, Asleep
<1> QED BY <1>1, IdleInvariantHolds, PTL
=============================================================================
