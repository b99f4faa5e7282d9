----------------------------- MODULE SoftTimers -----------------------------
(***************************************************************************)
(* The CH570 soft timers (ch570/src/main.c, sched.h): N slots multiplexed  *)
(* over one hardware timer.  In one-shot mode the timer is armed to the    *)
(* nearest deadline and software time is an epoch plus its count; while a  *)
(* slot owns the periodic grid the timer reloads by itself, software time  *)
(* follows SysTick and the other slots are drained once a period.          *)
(*                                                                         *)
(* Time is a Tick action.  Words are taken modulo Mod (2^32 in the code)   *)
(* and the end register modulo HwMod (2^26).  The code reads the clock,    *)
(* deadlines and SysTick only as differences, so deadlines are kept        *)
(* relative to st_epoch (an epoch that advances is a Shift of them) and    *)
(* SysTick relative to its last sync.                                      *)
(***************************************************************************)
EXTENDS Integers, FiniteSets

CONSTANTS
  Slots,      \* slot numbers, 0..ST_N-1; the lower the more urgent
  Cadence,    \* the slots that are ever armed as periodic
  None,       \* no slot owns the grid
  Mod, HwMod, \* modulus of a software word, and of the end register
  MinDelta,   \* ST_MIN_DELTA
  Delays,     \* delays given to st_set
  Periods,    \* periods given to st_set_periodic
  Nudges,     \* stretches given to st_periodic_nudge
  Runaway,    \* callbacks one interrupt may dispatch (65 in the code)
  MaxWait,    \* bound: ticks an interrupt is held off, or runs
  MaxLate     \* bound: a caller does not re-arm past a slot this overdue

ASSUME SoftTimersAssumption ==
  /\ Slots \subseteq Nat /\ IsFiniteSet(Slots) /\ Cadence \subseteq Slots
  /\ None \notin Slots
  /\ {Mod, HwMod, MinDelta, Runaway, MaxWait, MaxLate} \subseteq Nat \ {0}
  /\ Delays \subseteq Nat /\ Periods \subseteq Nat \ {0} /\ Nudges \subseteq Nat \ {0}

Larger(a, b)  == IF a > b THEN a ELSE b
Smallest(S)   == CHOOSE x \in S : \A y \in S : x <= y

\* One interrupt can dispatch every slot, and the distance to a deadline, ahead or
\* behind, stays within a quarter of a word: a slot found late by MaxLate is
\* served after one more cycle of the timer (the floor, or a period and its
\* stretch) and at most three delays of the interrupt, and a delay more where the
\* clock skips one.  A cycle of the grid fits the end register; a delay need not.
Quarter == Mod \div 4
Cycles  == {MinDelta} \cup {Larger(p, MinDelta) + f : p \in Periods, f \in Nudges \cup {0}}
ASSUME DistanceAssumption ==
  /\ MinDelta < HwMod /\ HwMod <= Quarter /\ Cardinality(Slots) <= Runaway
  /\ \A c \in Cycles : /\ c < HwMod
                       /\ \A d \in Delays \cup {MinDelta} : MaxLate + 3 * MaxWait + c + d < Quarter

VARIABLES
  tm,    \* the scheduler's statics and the hardware timer
  isr,   \* where TMR_IRQHandler stands, and the callbacks it has run
  left,  \* history: true ticks until a slot's requested delay has passed, less
         \* those the clock has skipped while the slot waited (Skipped)
  wait   \* ticks since the expiry flag rose or the interrupt was entered

vars == <<tm, isr, left, wait>>

\* (int32_t) of a difference of two words
Signed(x) == LET d == x % Mod IN IF d < Mod \div 2 THEN d ELSE d - Mod

-----------------------------------------------------------------------------
(* The helpers of main.c, each a function of the whole timer state *)

\* st_now - st_epoch: the count alone, plus the armed interval while its expiry
\* is pending, or SysTick while the grid runs
Now(t) == IF t.owner # None THEN t.since
          ELSE t.count + IF t.flag THEN t.armed ELSE 0

\* The slots that wait for a deadline: a grid owner has none
Waiting(t) == t.active \ {t.owner}

\* Deadlines of waiting slots, the epoch having moved by n
Shift(t, n) == [t EXCEPT !.deadline =
                  [s \in Slots |-> IF s \in Waiting(t) THEN (@[s] - n) % Mod ELSE 0]]

Remaining(t, s) == Signed(t.deadline[s] - Now(t))
Due(t) == {s \in Waiting(t) : Remaining(t, s) <= 0}

NearestSlip(t) == Smallest(t.active)            \* the first armed slot, not the nearest
Nearest(t) == CHOOSE s \in t.active :
                \A o \in t.active : Signed(t.deadline[s] - t.deadline[o]) <= 0

StopTimer(t)     == [t EXCEPT !.on = FALSE, !.count = 0, !.flag = FALSE]
StartTimer(t, d) == [t EXCEPT !.armed = d, !.end = d % HwMod, !.count = 0,
                              !.flag = FALSE, !.on = TRUE]

\* st_rearm: the grid's timer is not touched; with nothing armed the timer
\* stops (and the epoch is not re-based); else it is armed to the nearest
\* deadline, never under the floor and however far: the end register keeps the
\* low bits of the distance, st_armed_delta all of it
Rearm(t) ==
  IF t.owner # None THEN t
  ELSE IF t.active = {} THEN StopTimer(t)
  ELSE StartTimer(Shift(t, Now(t)), Larger(Remaining(t, Nearest(t)), MinDelta))

\* st_advance: an expiry not yet served is moved into the epoch
AdvanceSlip(t) ==                                \* the flag is left raised
  IF t.owner = None /\ t.flag THEN Shift(t, t.armed) ELSE t
Advance(t) ==
  IF t.owner = None /\ t.flag THEN [Shift(t, t.armed) EXCEPT !.flag = FALSE] ELSE t

\* st_periodic_exit_locked
ExitGridSlip(t) ==                               \* the epoch keeps its last sync
  [StopTimer(t) EXCEPT !.armed = 0, !.req = 0, !.applied = 0, !.owner = None, !.since = 0]
ExitGrid(t) ==
  [StopTimer(Shift(t, Now(t))) EXCEPT !.armed = 0, !.req = 0, !.applied = 0,
                                      !.owner = None, !.since = 0]

\* st_periodic_sync: whole periods move from SysTick into the epoch, at least
\* one; the remainder is carried
Sync(t) == LET n == Larger(1, t.since \div t.period) * t.period
           IN [Shift(t, n) EXCEPT !.since = (@ - n) % Mod]

\* The end of a stretched cycle consumes the period and the stretch
SyncStretched(t) == LET n == t.period + t.applied
                    IN [Shift(t, n) EXCEPT !.since = (@ - n) % Mod, !.applied = 0]

\* st_periodic_apply_nudge: one write of the end register a cycle at most; the
\* write restarts the count (measured, main.c 255-257)
ApplyNudge(t) ==
  IF t.req # 0
    THEN [t EXCEPT !.applied = t.req, !.req = 0, !.end = (t.period + t.req) % HwMod, !.count = 0]
  ELSE IF t.end # t.period THEN [t EXCEPT !.end = t.period % HwMod, !.count = 0]
  ELSE t

-----------------------------------------------------------------------------
(* The calls, and what they do to the history *)

\* A slot that waits for nothing keeps no deadline, here and in the history
Becomes(t, l) ==
  /\ tm' = [t EXCEPT !.deadline = [s \in Slots |-> IF s \in Waiting(t) THEN @[s] ELSE 0]]
  /\ left' = [s \in Slots |-> IF s \in Waiting(t) THEN l[s] ELSE 0]

\* st_set (hal_timer_arm): a slot that owns the grid leaves it first
SetOneShot(t, s, d) ==
  LET a == Advance(IF t.owner = s THEN ExitGrid(t) ELSE t)
  IN Rearm([a EXCEPT !.deadline[s] = (Now(a) + d) % Mod, !.active = @ \cup {s}])

\* st_cancel
CancelSlot(t, s) ==
  IF t.owner = s THEN Rearm(ExitGrid([t EXCEPT !.active = @ \ {s}]))
                 ELSE Rearm([Advance(t) EXCEPT !.active = @ \ {s}])

\* st_set_periodic, with hal_timer_arm_periodic's floor: a former owner is
\* disarmed and the grid is anchored here
SetGrid(t, s, p) ==
  LET a == Advance(t)
      n == Larger(p, MinDelta)
  IN StartTimer([Shift(a, Now(a)) EXCEPT
                   !.since = 0, !.owner = s, !.period = n, !.req = 0, !.applied = 0,
                   !.active = (@ \ {a.owner}) \cup {s}], n)

\* st_periodic_transfer: ownership moves, the running timer does not notice
Transferred(t, from, to) ==
  [t EXCEPT !.owner = to, !.active = (@ \ {from}) \cup {to}]

\* A caller runs in the foreground, in a radio interrupt or in a callback; the
\* timer interrupt does not preempt the call
InCallback == isr.at \in {"pollCb", "drainCb", "dispatchCb"}
Calls ==
  /\ isr.at = "idle" \/ InCallback
  /\ \A s \in Waiting(tm) : Remaining(tm, s) > -MaxLate
  /\ UNCHANGED isr
  /\ wait' = IF InCallback \/ tm'.flag THEN wait ELSE 0

Set(s, d)    == /\ Becomes(SetOneShot(tm, s, d), [left EXCEPT ![s] = d])
                /\ Calls
Cancel(s)    == Becomes(CancelSlot(tm, s), left) /\ Calls
SetPeriodic(s, p) == Becomes(SetGrid(tm, s, p), left) /\ Calls
\* hal_timer_promote_periodic: a grid that cannot be inherited is anchored anew
Promote(from, to, p) ==
  /\ Becomes(IF tm.owner = from THEN Transferred(tm, from, to) ELSE SetGrid(tm, to, p), left)
  /\ Calls
Nudge(d) ==
  /\ tm.owner # None /\ tm.req = 0
  /\ Becomes([tm EXCEPT !.req = d], left)
  /\ Calls

-----------------------------------------------------------------------------
(* TMR_IRQHandler *)

At(place, n) == isr' = [at |-> place, n |-> n]

EnterGrid ==
  /\ isr.at = "idle" /\ tm.flag /\ tm.owner # None
  /\ LET t == IF tm.applied # 0 THEN SyncStretched(tm) ELSE Sync(tm)
     IN Becomes(ApplyNudge([t EXCEPT !.flag = FALSE]), left)
  /\ At(IF tm.owner \in tm.active THEN "pollCb" ELSE "drain", 0)
  /\ wait' = 0

EnterOneShot ==
  /\ isr.at = "idle" /\ tm.flag /\ tm.owner = None
  /\ Becomes(Advance(tm), left)
  /\ At("dispatch", 0)
  /\ wait' = 0

\* The most urgent due slot is disarmed before its callback runs
FireFirst(place) ==
  /\ Due(tm) # {}
  /\ Becomes([tm EXCEPT !.active = @ \ {Smallest(Due(tm))}], left)
  /\ At(place, isr.n + 1)
  /\ UNCHANGED wait

\* st_dispatch: until nothing is due, or the guard against a runaway trips
DispatchFires == isr.at = "dispatch" /\ isr.n < Runaway /\ FireFirst("dispatchCb")
DispatchEnds ==
  /\ isr.at = "dispatch" /\ (Due(tm) = {} \/ isr.n = Runaway)
  /\ Becomes(Rearm(tm), left)
  /\ At("idle", 0)
  /\ wait' = 0

\* st_periodic_drain: at most ST_N callbacks a period
DrainFires == isr.at = "drain" /\ isr.n < Cardinality(Slots) /\ FireFirst("drainCb")
DrainEnds ==
  /\ isr.at = "drain" /\ (Due(tm) = {} \/ isr.n = Cardinality(Slots))
  /\ At("idle", 0)
  /\ UNCHANGED <<tm, left>>
  /\ wait' = 0

\* A callback may have left the grid: the call it made has re-armed the timer
CallbackReturns ==
  /\ InCallback
  /\ IF isr.at = "dispatchCb" THEN At("dispatch", isr.n)
     ELSE IF tm.owner = None THEN At("idle", 0)
     ELSE At("drain", isr.n)
  /\ wait' = IF isr'.at = "idle" THEN 0 ELSE wait
  /\ UNCHANGED <<tm, left>>

-----------------------------------------------------------------------------
(* The hardware: SysTick runs for ever; the timer clears itself at its end
   value and raises the flag, also while the flag is still up *)

\* The count meets the end register (an end of 0 when it wraps)
Ends == tm.on /\ (tm.count + 1) % HwMod = tm.end

\* Ticks that the clock runs ahead when a one-shot interval ends: the armed
\* interval is counted whole (Now) whatever the register kept of it.  None is, for
\* an interval that fits.
Skipped == IF tm.owner = None /\ Ends /\ ~tm.flag THEN tm.armed - (tm.count + 1) ELSE 0

Tick ==
  /\ wait < MaxWait
  /\ tm' = [tm EXCEPT !.since = IF tm.owner # None THEN (@ + 1) % Mod ELSE @,
                      !.count = IF ~tm.on THEN @ ELSE IF Ends THEN 0 ELSE (@ + 1) % HwMod,
                      !.flag = @ \/ Ends]
  /\ LET gone == 1 + Skipped
     IN left' = [s \in Slots |-> Larger(left[s] - gone, 0)]
  /\ wait' = IF tm.flag \/ isr.at # "idle" THEN wait + 1 ELSE 0
  /\ UNCHANGED isr

Init ==
  /\ tm = [active |-> {}, deadline |-> [s \in Slots |-> 0], armed |-> 0,
           owner |-> None, period |-> 0, since |-> 0, req |-> 0, applied |-> 0,
           on |-> FALSE, count |-> 0, end |-> 0, flag |-> FALSE]
  /\ isr = [at |-> "idle", n |-> 0]
  /\ left = [s \in Slots |-> 0]
  /\ wait = 0

Interrupt == EnterGrid \/ EnterOneShot \/ DispatchFires \/ DispatchEnds
             \/ DrainFires \/ DrainEnds \/ CallbackReturns
Caller ==
  \/ \E s \in Slots : Cancel(s) \/ \E d \in Delays : Set(s, d)
  \/ \E s \in Cadence, p \in Periods : SetPeriodic(s, p) \/ \E f \in Cadence : Promote(f, s, p)
  \/ \E d \in Nudges : Nudge(d)

Next == Tick \/ Interrupt \/ Caller

Spec == Init /\ [][Next]_vars

-----------------------------------------------------------------------------
(* Properties *)

\* A slot is not dispatched before its delay has passed ("fires not earlier than
\* the deadline", sched.h), but for what the clock itself skipped: whatever mode
\* changes, restarts and late interrupts came between, the software clock leaves
\* at least the true time.  A slot that waits over no interval longer than the end
\* register is never early; over one that is, it is early by what the register
\* dropped and no more (TODO.md 96-155).
NeverEarly == \A s \in Slots : left[s] > 0 => Remaining(tm, s) >= left[s]

\* Between two interrupts the running timer covers every armed slot: it ends no
\* later than the slot's deadline, or the floor; while the grid runs, within
\* one (stretched) period.  The owner of the grid is armed.
Covered ==
  isr.at = "idle" /\ tm.active # {} =>
    /\ tm.on /\ (tm.owner # None => tm.owner \in tm.active)
    /\ tm.flag \/ \A s \in tm.active :
         tm.end - tm.count <= IF tm.owner # None THEN tm.period + tm.applied
                              ELSE Larger(Remaining(tm, s), MinDelta)

\* Only time moves the software clock under a waiting slot: no call for another
\* slot, no interrupt and no change of mode does, and a tick moves it by one and by
\* what the register dropped of the interval that ends with it.  The exception is
\* the code's: a second expiry before the first is served.
ExpiresTwice == tm.flag /\ tm.owner = None /\ tm'.count = 0
ClockContinuous ==
  [][ExpiresTwice \/ \A s \in Waiting(tm) \cap Waiting(tm)' :
       \/ Remaining(tm, s)' = Remaining(tm, s) - IF Tick THEN 1 + Skipped ELSE 0
       \/ \E d \in Delays : Set(s, d)]_vars
=============================================================================
