------------------------------- MODULE PmIdle -------------------------------
(***************************************************************************)
(* The CH592 power manager (ch592/src/pm_ch592.c, PM_IDLE with the exact   *)
(* deadline and the halt, as the Makefile builds it): the main loop        *)
(* (Main_Circulation) runs the TMOS scheduler, and when nothing is left    *)
(* to do it masks interrupts, looks again and sleeps in WFE until TMR3 or  *)
(* an interrupt ends the sleep, or, with the host asleep and the radio     *)
(* shut, halts the clocks until the RTC trigger.                           *)
(*                                                                         *)
(* TMR3 is armed to the earliest entry of a table of deadlines kept beside *)
(* the TMOS timers; the writers of the table are ordered, not masked.      *)
(* Time is a Tick of the RTC, whose count is taken modulo Mod; deadlines   *)
(* and clock reads are kept relative to the count, as the code only ever   *)
(* takes their distance.  TMOS, the interrupt controller and the wait      *)
(* instructions are outside the repository and are modelled from what the  *)
(* code relies on.  Counters, wake attribution and the correction of       *)
(* SysTick after a halt are left out.                                      *)
(*                                                                         *)
(* An operator named ...Slip is a wrong variant of the definition after    *)
(* it; the specification uses none.                                        *)
(***************************************************************************)
EXTENDS Integers, FiniteSets

CONSTANTS
  Bits,       \* application events with a timer (RF_EVT_* bits)
  Units,      \* delays they are started with, in TMOS units
  Mod,        \* modulus of the RTC (PM_RTC_MOD)
  Unit,       \* RTC ticks of one TMOS unit (PM_UNIT_RTC)
  DueWindow, Floor, Cap, SuspendCap,       \* PM_DUE_WINDOW_, PM_DEADLINE_MIN_, ..
  HaltMin, HaltLead, HaltGuard, Backstop,  \* PM_HALT_*, in RTC ticks
  Empty,      \* no deadline, no timer, no usable clock read, no event
  OtherTasks, \* bound: passes of an iteration that other tasks may take
  MaxSkew,    \* bound: ticks that pass inside a call, and from plan to sleep
  MaxLate     \* bound: ticks an expired timer waits for a running main loop

ASSUME PmIdleAssumption ==
  /\ {Mod, Unit, Floor, Cap, SuspendCap, HaltMin, Backstop} \subseteq Nat \ {0}
  /\ {DueWindow, HaltLead, HaltGuard, OtherTasks, MaxSkew, MaxLate} \subseteq Nat
  /\ DueWindow < Floor /\ Floor <= Cap /\ Cap <= SuspendCap
  /\ Units \subseteq Nat \ {0} /\ Empty \notin Nat

\* PM_R0_MAX_FIRES: a clock read younger than that many fires of TMR3, and than
\* a sleep or halt, is younger than half the modulus
MaxFires == (Mod \div 8) \div Cap
ASSUME AgeAssumption ==
  /\ MaxFires > 0
  /\ 2 * SuspendCap + MaxSkew + DueWindow + MaxFires * Cap <= Mod \div 2 + Cap

\* No delay, and no delay of an expiry, comes near half the modulus; the floor is
\* within a unit, and the last look of a halt leaves time for the call
ASSUME DistanceAssumption ==
  /\ Floor <= Unit /\ MaxSkew < HaltGuard
  /\ \A u \in Units : u * Unit + MaxSkew < Mod \div 2
  /\ Unit + 2 * MaxSkew + 3 * MaxLate + Floor < Mod \div 2

VARIABLES
  pc,     \* where the main loop stands, its locals, and the plan of a sleep
  pm,     \* the latches of pm_ch592.c, and the previous plan's clock read
  table,  \* pm_deadline, relative to the RTC count
  tmos,   \* running timers, queued application events, passes left to others
  hw,     \* TMR3, the pending interrupts, the wait's event latch, the RTC trigger
  ok,     \* pm_level_allows(RF_IdleClass()) and no pm_usb_veto
  hist    \* history: events posted by code, timers the table may miss, lateness

vars == <<pc, pm, table, tmos, hw, ok, hist>>

Larger(a, b) == IF a > b THEN a ELSE b
Least(S)     == CHOOSE x \in S : \A y \in S : x <= y
Down(x)      == IF x \in {Empty, 0} THEN x ELSE x - 1

NoPlan == [best |-> 0, clear |-> {}, seen |-> [b \in Bits |-> Empty]]
Home   == [at |-> "top", pass |-> 0, entry |-> FALSE, bit |-> Empty, units |-> 0,
           plan |-> NoPlan, slow |-> 0]

\* Interrupts are off between the mask of pm_idle_try and its last statement,
\* except inside pm_halt.  An interrupt raised while they are on runs before
\* the next instruction.
Masked  == pc.at \in {"check", "wait", "unmask"}
Running == ~Masked => ~hw.pending /\ ~hw.fired
Asleep  == (pc.at = "wait" /\ ~hw.event) \/ pc.at = "halted"

At(place) == pc' = [pc EXCEPT !.at = place]
WorkSeen  == pm.post \/ pm.ran

-----------------------------------------------------------------------------
(* TMOS (external): one timer and one queued event per bit, three tasks, one
   dispatch per pass.  A pass that dispatched nothing, or the last task, posts
   the events of the timers that have expired *)

Expired(t)     == {b \in Bits : t.left[b] = 0}
Posting(t, b)  == [t EXCEPT !.queued = @ \cup {b}]
Timed(t, b, u) == [t EXCEPT !.left[b] = u * Unit]
Untimed(t, b)  == [t EXCEPT !.left[b] = Empty, !.queued = @ \ {b}]
Poll(t)        == [t EXCEPT !.left = [b \in Bits |-> IF b \in Expired(t) THEN Empty ELSE @[b]],
                            !.queued = @ \cup Expired(t)]

-----------------------------------------------------------------------------
(* pm_tmos_start and pm_tmos_stop.  In task context the call is two steps: the
   sink may run between the TMOS call and the table's.  A refused start changes
   nothing. *)

Publish(b, u) == table' = [table EXCEPT ![b] = (u * Unit) % Mod]

TaskStart(b, u) ==
  /\ pc.at = "app" /\ Running
  /\ tmos' = Timed(tmos, b, u)
  /\ pc' = [pc EXCEPT !.at = "starting", !.bit = b, !.units = u]
  /\ hist' = [hist EXCEPT !.loose = @ \ {b}]
  /\ UNCHANGED <<pm, table, hw, ok>>
TaskPublish ==
  /\ pc.at = "starting" /\ Running
  /\ Publish(pc.bit, pc.units)
  /\ pc' = [Home EXCEPT !.at = "app"]
  /\ UNCHANGED <<pm, tmos, hw, ok, hist>>
TaskStop(b) ==
  /\ pc.at = "app" /\ Running
  /\ table' = [table EXCEPT ![b] = Empty]
  /\ pc' = [pc EXCEPT !.at = "stopping", !.bit = b]
  /\ UNCHANGED <<pm, tmos, hw, ok, hist>>
TaskStopped ==
  /\ pc.at = "stopping" /\ Running
  /\ tmos' = Untimed(tmos, pc.bit)
  /\ hist' = [hist EXCEPT !.loose = @ \ {pc.bit}, !.posted = @ \ {pc.bit}]
  /\ pc' = [Home EXCEPT !.at = "app"]
  /\ UNCHANGED <<pm, table, hw, ok>>

-----------------------------------------------------------------------------
(* Interrupts *)

\* From the plan of a sleep to the sleep
Planned == pc.pass = 3 /\ pc.at \in {"pass", "mask", "check"}

\* What an interrupt does: the radio's, with the IRQ-tail sink, and TMR0's post
\* an event, start or stop a timer, or move the class; USB's leaves any state
\* behind (a reset, suspend, resume, SETUP, SET_REPORT, a latched command)
SinkDoes ==
  /\ UNCHANGED ok
  /\ \E b \in Bits :
       \/ /\ tmos' = Posting(tmos, b)
          /\ pm' = [pm EXCEPT !.post = TRUE]
          /\ hist' = [hist EXCEPT !.posted = @ \cup {b}]
          /\ UNCHANGED table
       \/ /\ \E u \in Units : tmos' = Timed(tmos, b, u) /\ Publish(b, u)
          /\ hist' = [hist EXCEPT !.loose =
                        IF Planned \/ (pc.at = "starting" /\ pc.bit = b) THEN @ \cup {b} ELSE @ \ {b}]
          /\ UNCHANGED pm
       \/ /\ tmos' = Untimed(tmos, b)
          /\ table' = [table EXCEPT ![b] = Empty]
          /\ hist' = [hist EXCEPT !.posted = @ \ {b}]
          /\ UNCHANGED pm
StateMoves == ok' \in BOOLEAN /\ UNCHANGED <<tmos, table, pm, hist>>

\* pm_halt_disarm
HaltOff == [hw EXCEPT !.trig = Empty, !.stop = Empty]

\* With interrupts on; between receiver windows with no link the radio and TMR0
\* raise none
Interrupted ==
  /\ ~Masked /\ Running
  /\ StateMoves \/ (pc.at \notin {"look", "prologue", "halted"} /\ SinkDoes)
  /\ IF pc.at = "halted" THEN At("unmask") /\ hw' = HaltOff ELSE UNCHANGED <<pc, hw>>

\* With interrupts off a source only goes pending, an event for the wait; the
\* drain takes the events before it
Raised ==
  /\ Masked /\ ~hw.pending
  /\ hw' = [hw EXCEPT !.pending = TRUE, !.event = (pc.at = "wait")]
  /\ UNCHANGED <<pc, pm, table, tmos, ok, hist>>

\* TMR3_IRQHandler: back to the cap, and the previous clock read ages
Aged(p)  == IF p.prev = Empty \/ p.fires + 1 >= MaxFires
              THEN [p EXCEPT !.prev = Empty, !.fires = 0]
              ELSE [p EXCEPT !.fires = @ + 1]
Tmr3Interrupt ==
  /\ hw.fired /\ (~Masked \/ pc.at = "unmask")
  /\ pm' = Aged(pm)
  /\ hw' = [hw EXCEPT !.fired = FALSE, !.tmr3 = Cap]
  /\ UNCHANGED <<pc, table, tmos, ok, hist>>

\* The statement that ends the masked section runs what has gone pending
Woken ==
  /\ pc.at = "unmask" /\ hw.pending
  /\ StateMoves \/ SinkDoes
  /\ hw' = [hw EXCEPT !.pending = FALSE]
  /\ UNCHANGED pc
Unmasked ==
  /\ pc.at = "unmask" /\ ~hw.pending /\ ~hw.fired
  /\ pc' = Home
  /\ UNCHANGED <<pm, table, tmos, hw, ok, hist>>

-----------------------------------------------------------------------------
(* The main loop *)

\* pm_loop_top: the post latch is taken and cleared in one instruction; it
\* counts as entry work only if the last decision armed it
LoopTop ==
  /\ pc.at = "top" /\ Running
  /\ pm' = [pm EXCEPT !.post = FALSE, !.ran = FALSE, !.armed = FALSE]
  /\ pc' = [pc EXCEPT !.at = "pass", !.entry = pm.post /\ pm.armed]
  /\ tmos' = [tmos EXCEPT !.others = OtherTasks]
  /\ UNCHANGED <<table, hw, ok, hist>>

\* Where the loop goes after TMOS_SystemProcess: the ordinary pass is followed by
\* the other foreground work, a quiet pass by a look at the latches
AfterPassSlip ==                             \* one quiet pass only
  IF pc.pass = 0 THEN At("try")
  ELSE IF WorkSeen THEN pc' = Home
  ELSE IF pc.pass = 1 THEN At("plan")
  ELSE At("mask")
AfterPass ==
  IF pc.pass = 0 THEN At("try")
  ELSE IF WorkSeen THEN pc' = Home
  ELSE IF pc.pass = 1 THEN pc' = [pc EXCEPT !.pass = 2]
  ELSE IF pc.pass = 2 THEN At("plan")
  ELSE At("mask")

Pass ==
  /\ pc.at = "pass" /\ Running
  /\ \/ \* another task's handler
        /\ tmos.others > 0 /\ tmos' = [tmos EXCEPT !.others = @ - 1]
        /\ AfterPass
        /\ UNCHANGED <<pm, hist>>
     \/ \* RF_ProcessEvent takes one event
        /\ \E b \in tmos.queued :
             /\ tmos' = [tmos EXCEPT !.queued = @ \ {b}]
             /\ hist' = [hist EXCEPT !.posted = @ \ {b},
                           !.loose = IF tmos.left[b] = Empty THEN @ \ {b} ELSE @]
        /\ pm' = [pm EXCEPT !.ran = TRUE]
        /\ pc' = [Home EXCEPT !.at = "app"]
     \/ \* nothing to dispatch
        /\ tmos.queued = {} /\ tmos' = Poll(tmos)
        /\ AfterPass
        /\ UNCHANGED <<pm, hist>>
  /\ UNCHANGED <<table, hw, ok>>

TaskPost(b) ==
  /\ pc.at = "app" /\ Running
  /\ tmos' = Posting(tmos, b)
  /\ pm' = [pm EXCEPT !.post = TRUE]
  /\ hist' = [hist EXCEPT !.posted = @ \cup {b}]
  /\ UNCHANGED <<pc, table, hw, ok>>
\* An iteration that ran the handler does not sleep: pm_idle_try returns at its
\* first look, or after this pass
TaskReturn ==
  /\ pc.at = "app" /\ Running
  /\ tmos' = Poll(tmos)
  /\ pc' = Home
  /\ UNCHANGED <<pm, table, hw, ok, hist>>

\* The foreground serves what USB owes, an event moves the class, the quiet
\* window of EP0 passes; then pm_idle_try, up to the quiet passes
IdleTry ==
  /\ pc.at = "try" /\ Running
  /\ ok' \in {ok, TRUE}
  /\ pc' = IF WorkSeen \/ ~ok' THEN Home ELSE [pc EXCEPT !.at = "pass", !.pass = 1]
  /\ UNCHANGED <<pm, table, tmos, hw, hist>>

\* pm_settled: the previous plan's read had reached the deadline
Past(dist) == dist >= Mod \div 2
Settled(d) == pm.prev # Empty /\ LET s == (d - pm.prev) % Mod IN s = 0 \/ Past(s)

\* pm_tmr3_plan: due entries already due at the previous plan are retired, other
\* due ones cost a short sleep, the rest are slept up to
IsDue(d)    == Past(d) \/ d <= DueWindow
Retired     == {b \in Bits : table[b] # Empty /\ IsDue(table[b]) /\ Settled(table[b])}
Sleeps(cap) == {cap} \cup {IF IsDue(table[b]) THEN Floor ELSE table[b] + Unit :
                             b \in {c \in Bits \ Retired : table[c] # Empty}}
Plan(susp)  ==
  [best  |-> Larger(Floor, Least(Sleeps(IF susp THEN SuspendCap ELSE Cap))),
   clear |-> Retired,
   seen  |-> [b \in Bits |-> IF b \in Retired THEN table[b] ELSE Empty]]

\* A retirement is proposed: one more pass
ExtraPassSlip == "mask"
ExtraPass == IF Retired = {} THEN "mask" ELSE "pass"

\* susp: what USB_PmSnapshot said at the first look
IdlePlan ==
  /\ pc.at = "plan" /\ Running
  /\ IF pc.entry \/ ~ok
       THEN pc' = Home /\ UNCHANGED pm
       ELSE /\ pm' = [pm EXCEPT !.prev = 0, !.fires = 0]
            /\ \E susp \in BOOLEAN :
                 pc' = [pc EXCEPT !.at = ExtraPass, !.pass = 3, !.plan = Plan(susp), !.slow = 0]
  /\ UNCHANGED <<table, tmos, hw, ok, hist>>

Mask ==
  /\ pc.at = "mask" /\ Running
  /\ At("check")
  /\ UNCHANGED <<pm, table, tmos, hw, ok, hist>>

\* pm_irq_pending
IrqPending == hw.pending \/ hw.fired

\* The look under the mask, on a fresh snapshot of USB
Admit == ~WorkSeen /\ ~IrqPending /\ ok

\* pm_tmr3_arm: an entry is retired if it still holds what the plan saw
Armed == [b \in Bits |->
            IF b \in pc.plan.clear /\ table[b] = pc.plan.seen[b] THEN Empty ELSE table[b]]

\* pm_halt's trigger, from the planned sleep
HaltTicks == Larger(pc.plan.best - HaltLead, HaltMin \div 2)

\* The drain takes every event raised so far, then the sources are read; the
\* halt needs a suspended host and RF_WinRadioOff
Check ==
  /\ pc.at = "check"
  /\ pm' = [pm EXCEPT !.armed = ~WorkSeen]
  /\ IF ~Admit THEN At("unmask") /\ UNCHANGED <<table, hw>>
     ELSE /\ table' = Armed
          /\ \/ pc' = [Home EXCEPT !.at = "wait"] /\ hw' = [hw EXCEPT !.tmr3 = pc.plan.best]
             \/ /\ pc.plan.best >= HaltMin
                /\ pc' = [pc EXCEPT !.at = "look"]
                /\ hw' = [hw EXCEPT !.tmr3 = pc.plan.best, !.trig = HaltTicks, !.stop = Backstop]
  /\ UNCHANGED <<tmos, ok, hist>>

\* The wait ends on an event; TMR3 going pending is one
WaitEnds ==
  /\ pc.at = "wait" /\ hw.event
  /\ hw' = [hw EXCEPT !.event = FALSE]
  /\ At("unmask")
  /\ UNCHANGED <<pm, table, tmos, ok, hist>>

\* The last look of pm_halt, interrupts on: a trigger that has fired or is too
\* close, or a host that is awake, abandons the halt
TooClose == hw.trig = 0 \/ hw.trig < HaltGuard
LastLook ==
  /\ pc.at = "look" /\ Running
  /\ \/ pc' = [Home EXCEPT !.at = "unmask"] /\ hw' = HaltOff
     \/ ~TooClose /\ pc' = [Home EXCEPT !.at = "prologue"] /\ UNCHANGED hw
  /\ UNCHANGED <<pm, table, tmos, ok, hist>>
\* LowPower_Halt stops the clocks until the trigger or the backstop; a trigger
\* that has fired before its wait is lost
Halt ==
  /\ pc.at = "prologue" /\ Running
  /\ pc' = [Home EXCEPT !.at = "halted"]
  /\ hw' = [hw EXCEPT !.trig = IF @ = 0 THEN Empty ELSE @]
  /\ UNCHANGED <<pm, table, tmos, ok, hist>>
HaltEnds ==
  /\ pc.at = "halted" /\ 0 \in {hw.trig, hw.stop}
  /\ hw' = HaltOff
  /\ At("unmask")
  /\ UNCHANGED <<pm, table, tmos, ok, hist>>

-----------------------------------------------------------------------------
(* Time: the RTC always runs, TMR3 unless the clocks are halted *)

Overdue == Expired(tmos) # {} \/ tmos.queued # {}
Timely  == pc.at \in {"starting", "look", "prologue"} \/ Planned
Back(x) == IF x = Empty THEN Empty ELSE (x - 1) % Mod

Tick ==
  /\ ~hw.fired /\ (pc.at = "halted" => 0 \notin {hw.trig, hw.stop})
  /\ Asleep \/ ~Overdue \/ hist.late < MaxLate
  /\ Timely => pc.slow < MaxSkew
  /\ LET ends == pc.at # "halted" /\ hw.tmr3 = 1
     IN hw' = [hw EXCEPT !.tmr3 = IF pc.at = "halted" THEN @ ELSE IF ends THEN Cap ELSE @ - 1,
                         !.fired = ends, !.event = @ \/ (ends /\ pc.at = "wait"),
                         !.trig = Down(@), !.stop = Down(@)]
  /\ table' = [b \in Bits |-> Back(table[b])]
  /\ pm' = [pm EXCEPT !.prev = Back(@)]
  /\ pc' = [pc EXCEPT !.plan.seen = [b \in Bits |-> Back(@[b])],
                      !.slow = IF Timely THEN @ + 1 ELSE 0]
  /\ tmos' = [tmos EXCEPT !.left = [b \in Bits |-> Down(@[b])]]
  /\ hist' = [hist EXCEPT !.late = IF Asleep \/ ~Overdue THEN 0 ELSE @ + 1]
  /\ UNCHANGED ok

Init ==
  /\ pc = Home
  /\ pm = [post |-> FALSE, ran |-> FALSE, armed |-> FALSE, prev |-> Empty, fires |-> 0]
  /\ table = [b \in Bits |-> Empty]
  /\ tmos = [left |-> [b \in Bits |-> Empty], queued |-> {}, others |-> OtherTasks]
  /\ hw = [tmr3 |-> Cap, fired |-> FALSE, pending |-> FALSE, event |-> FALSE,
           trig |-> Empty, stop |-> Empty]
  /\ ok = FALSE
  /\ hist = [posted |-> {}, loose |-> {}, late |-> 0]

Loop == LoopTop \/ Pass \/ IdleTry \/ IdlePlan \/ Mask \/ Check \/ WaitEnds
        \/ LastLook \/ Halt \/ HaltEnds \/ Unmasked
Task == \/ \E b \in Bits : TaskStop(b) \/ TaskPost(b) \/ \E u \in Units : TaskStart(b, u)
        \/ TaskPublish \/ TaskStopped \/ TaskReturn
Irqs == Interrupted \/ Raised \/ Tmr3Interrupt \/ Woken

Next == Tick \/ Loop \/ Task \/ Irqs

Spec == Init /\ [][Next]_vars

-----------------------------------------------------------------------------
(* Properties *)

\* The core never waits over work it has or owes: no event posted by code is
\* queued, no interrupt is pending that the wait does not see, the class and USB
\* admit it ("is 'nothing is queued' decided atomically", pm_ch592.c 29-35).
\* In the halt, interrupts are on and USB is the known residual of 548-555.
NoSleepOverWork ==
  Asleep => /\ hist.posted = {}
            /\ pc.at = "wait" => ~hw.pending /\ ~hw.fired /\ ok

\* However starts, stops and retirements cross, a sleep ends within a unit (and
\* the bounded delays) of every timer that runs and of every expiry not yet
\* dispatched; excepted are the two crossings of 248-255 and 336-341.
WakeIn == IF pc.at = "wait" THEN hw.tmr3 ELSE Least({hw.trig, hw.stop} \ {Empty})
Owed   == {b \in Bits \ hist.loose : tmos.left[b] # Empty \/ b \in tmos.queued}
TimersCovered ==
  Asleep => \A b \in Owed :
    WakeIn <= Unit + 2 * MaxSkew + IF tmos.left[b] = Empty THEN 0 ELSE tmos.left[b]
=============================================================================
