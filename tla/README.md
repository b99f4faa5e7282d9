# OpenDongle: a TLA+ model of the firmware

OpenDongle (`src/firmware`) is the firmware of a 2.4 GHz keyboard dongle, built
for two chips from one set of sources.  It pairs with one keyboard over a vendor
radio link, keeps that link alive across silence, loss and re-pairing, stores the
pairing in DataFlash, and forwards reports to a USB host.  This directory holds
TLA+ modules for the parts of it that are hard to test, the TLC configurations
that check them, and proofs of the results that matter most.

## 1. The system

| part | source | state it keeps | operations |
|---|---|---|---|
| link task | `common/src/rf_task.c` | `rf_state`, EV10 scan, boot window, pair-ACK burst, confirm state, camp watchdog, RAM bond, hop phase, LED relay | `RF_ProcessEvent` (one handler per event bit), `rf_phy_event_sink` (radio interrupt), timer callbacks, `RF_TombstoneBond`, `RF_QuiesceRequest`, `RF_DiagIntervene` |
| bond store | `common/src/bond.c` | the DataFlash page | `bond_load`, `bond_save` (erase, write), `bond_clear` |
| event dispatch | `ch570/src/hal_dispatch_ch570.c`; TMOS on CH59x | event word, two delay slots (CH570), task event word (TMOS) | post, cancel, delayed post, pump |
| soft timers | `ch570/src/main.c:167-733` | six slots over one TMR, an epoch, one periodic owner | `st_set`, `st_cancel`, `st_set_periodic`, `st_periodic_transfer`, `TMR_IRQHandler` |
| CH59x timing | `ch592/src/hal_timing_ch592.c` | TMR0 latch, TMOS one-shots | arm, cancel, promote |
| radio seam | `ch592/src/hal_rf_ch592.c`, `ch570/src/hal_rf_ch570.c` | PHY mode, last status | configure, start RX/TX, shut |
| USB device | `common/src/usb_device.c` | configuration, suspend, remote wake, EP1 report queue, EP2/EP3 slots, EP6 pipe | USB interrupt, `USB_Send*`, `USB_PollEP6`, `USB_ServiceRemoteWake` |
| IAP | `common/src/iap.c`, EP6 of `usb_device.c` | armed session, pending reboot, service state, the latched command | EP6 interrupt, command handlers, `IAP_Service` |
| power manager | `ch592/src/pm_ch592.c` | deadline table, TMR3 plan, activity seen, TMOS decided | `pm_loop_top`, `pm_idle_try`, `pm_tmr3_plan`, `pm_halt`, `TMR3_IRQHandler` |
| main loops | `ch570/src/main.c`, `ch592/src/main.c` | HID forward latch (CH570) | a fixed order of calls per pass |

The link task is driven from three sides.  Its executor (foreground) takes the
highest-priority event bit and runs one handler to completion with interrupts
on.  The radio library's completions call `rf_phy_event_sink` from interrupt
context, in the middle of whatever handler runs, and the timer interrupts post
bits or (CH570) transmit.  The main loop calls into it between two runs of the
executor: the IAP handler clears the bond or asks for a reboot.  Reports leave it
through a callback into `usb_device.c`.  Below it lie the timers, one hardware
timer multiplexed by software on the CH570 and TMOS on the CH59x; on the CH59x
the main loop ends in a decision whether to wait for an interrupt, and until when.

What is hard here: handlers preempted by the sink between any two statements;
one timer slot shared by two owners (boot window and camp watchdog); one periodic
timer shared by pair-ACK and polling; a tentative pair that must not reach the
flash before the keyboard has answered; refused arms and swallowed completions
after which nothing would ever happen again; a reset at any point of a
flash write; a clock that callers read while an expiry is pending; timers started
by an interrupt between the plan of a sleep and the sleep; a command endpoint
that the main loop and an interrupt both open and close.  `PROJECT.json` lists each hazard at the line where it bites with
the property that watches it.

What makes each part correct:

- link task: a keyboard is stored only once confirmed; a bonded dongle changes
  keyboards only in its boot window; a cleared bond stays cleared; each waiting
  state has something that ends it; a connected link is polled; a lost link
  leaves no key down; nothing runs after quiesce;
- soft timers: an armed slot fires, not before its deadline; only time moves the
  clock under a slot that waits;
- USB: the host's key state ends up as the keyboard's; no report is lost or
  replayed by suspend, resume, a halt clear or a reset; the waking key wakes;
- IAP: an acknowledged command runs once, the endpoint never wedges, a reboot that
  was acknowledged happens, and not before its reply is taken or given up;
- power manager: no wait past a deadline or over work that is owed.

## 2. Plan

| order | module | what it is | status |
|---|---|---|---|
| 1 | `RfLink` | link task, both executors, the sink, the bond record | done |
| 2 | `RfLinkProofs`, `RfBondProofs` | type correctness; confirm before persist; the window and the tombstone | done |
| 3 | `KeyChannel` | what the EP1 queue promises (abstract) | done |
| 4 | `UsbHid` | HID endpoints, suspend/resume/reset, remote wake, CH570 latch; implements `KeyChannel` | done |
| 5 | `UsbHidProofs` | the queue invariant and the refinement, for every depth | done |
| 6 | `SoftTimers` | the six CH570 slots over one TMR in true time, periodic owner, both clock formulas, the interrupt | done |
| 7 | `PmIdle` | CH59x: deadline table, plan, last looks, halt, against TMOS and interrupts | done |
| 8 | `IapService` | EP6, the command session, the reboot service, against a host that retries | done |
| 9 | `IapServiceProofs` | a command runs once, the reply before the reset, for every deadline | done |
| 10 | `RfDeadlineProofs` | every wait of the link task ends; polls, keys and bursts of one executor | done |
| 11 | `PmIdleProofs` | no sleep over work, by counting passes | done |
| 12 | `PmDeadlineProofs` | the deadline table: no sleep past a timer (`TimersCovered`) | done |
| 13 | `SoftTimersProofs` | `ClockContinuous`, `NeverEarly`, `Covered` and a bound on lateness, delays longer than the end register included | done |
| 14 | `HopClock` | hop phase and supervision thresholds as functions, against a reference definition | later |
| 15 | `KbdRing` | the byte-indexed ring under the EP1 queue (`uint8` head and tail), refining a sequence | later |
| 16 | LED relay, CH59x receive window | the remaining parts of `rf_task.c` | later |

Abstract specifications: `KeyChannel` (an ordered channel whose newest entry may
be replaced) for the EP1 queue; for `KbdRing`, the sequence `kq` of `UsbHid`.
`SoftTimers` and `PmIdle` carry true time as history, and state what they promise
against it.

A module that is proved about declares its parameters as CONSTANTS with named
assumptions and uses no RECURSIVE operator.

## 3. What each module models

### RfLink

| variable | code |
|---|---|
| `link` | `rf_state` (`state`), `rf_ev10_state` (`ev10`), `rf_boot_window_active`, `rf_boot_pair_window`, step (`boot`, `pairWin`, `step`), the pair-ACK burst (`burst`, `idx`, `fresh`), `rf_confirm_state`, TX-failure latch, camp watchdog (`wd`, `moved`), supervision age (`recent`, `heard`) |
| `bond` | the RAM copy: peer, `rf_bond_valid`, `rf_bond_persisted`, `rf_bond_pending`, the committed record, the tombstone |
| `nv` | the peer of the record in DataFlash, `NoPeer` when none validates |
| `q` | event word, the executor's snapshot, delayed posts, one-shot slots, owner of the periodic timer |
| `radio` | PHY mode, access address, status of the last arm |
| `pc` | where a preempted handler, or the foreground BondClear, stands |
| `quiesced`, `hostKey` | `rf_quiesced`; whether the last forwarded report holds a key down |
| `proven`, `faults` | history: keyboards heard on the session address this boot; faults spent |

Each bit of `RF_ProcessEvent` is one action (`PersistSnapshot`, `Quiesce`,
`Start`, `CampTick`, ...).  A handler runs with interrupts on.  Where the sink
could change what it reads or writes the handler is split into several actions
joined by `pc` (re-acquire, give-up, boot-window listen, confirm, restart,
persist), and the sink's actions (`Rx...`, `TxDone...`, `TxFail`) may run at each
of these points.  Elsewhere preemption by the sink commutes with the handler.
The two executors differ in `Return`, `Current` and `Disarm`: TMOS gives left-over
bits back to the task's event word and its one-shots *are* the event bit; the
CH570 pump keeps a snapshot until it is empty and has two delay slots
(`PostDelayed`).  Host calls (`BondErase`/`TombstoneBond`, `QuiesceRequest`,
`DiagIntervene`) run between two handlers.  `Reset` is a replug or watchdog
reset at any point, the flash write included.

What the model relies on, and leaves out:

- Time is not modelled.  An armed timer or a delayed post may expire at any
  moment, before or after a handler but not within one; `Ages` is silence past
  the supervision threshold.
- One radio completion per handler, since completions are an air frame apart and
  handlers take microseconds; the flash write takes milliseconds and admits one
  between any two of its points.
- The sink returns at once while `rf_quiesced` is set.
- Flags are kept at a fixed value where the code never reads them: the window
  step while no window is open, `fresh` without a burst, `moved` without a
  watchdog, `heard` on CH59x.
- The loss of the pair-ACK's own TX_FINISH is left out: `rf_task.c:1828-1830`
  names it as a residual.
- A one-byte poll reply carries no identity, so `proven` counts it for the current
  peer; the code's comment at `rf_task.c:2091` ff. names that limit.
- Not modelled: channels and hop phase, payloads, the second rung's PHY re-init
  and its silence counter, a stored record with a zero peer, the skip when the
  session address diverged (3855-3864), the semantic validator (3943), the IAP
  BondWrite command, a failed readback in `bond_clear`, `DONGLE_RX_WINDOW`, the LED.

### KeyChannel and UsbHid

`KeyChannel` is the promise: states offered to EP1 reach the host in order and
once; the newest may be replaced when the queue is full; a bus reset forgets.

| variable of `UsbHid` | code |
|---|---|
| `conf`, `susp`, `resume`, `rec`, `wake` | `usb_config`, `usb_suspended`, `usb_resume_clear_kbd`, `usb_reconcile_ep1..3`, the three remote-wake flags |
| `kq`, `owned` | `usb_kbd_q` between head and tail, `usb_kbd_q_owned` |
| `ep` | per endpoint: T_RES is ACK, collected by the host and not yet served, buffer; history: whether a NAK dropped the newest report (`lost`) |
| `bus`, `irq` | the wire, and the bus interrupts raised and not yet served |
| `latch` | `hid_fwd_pending`, `_tag`, `_body` of `ch570/src/main.c` |
| `pc` | the main-loop call in progress between two points where interrupts are on |
| `host`, `src`, `episode` | what the host saw last, what the keyboard said last, history of this suspend |

`Radio` is the HID callback (direct on CH59x, through the latch on CH570) and the
link-loss path of `rf_task.c`; `MainLoop` the resume half of `USB_PollEP6`,
`USB_ServiceRemoteWake` and the CH570 pump; `Interrupts` the branches of
`USB_IRQHandler` in their order; `Host` the IN tokens, three control requests and
the edges of the bus.  A masked section is one action; an unmasked statement is
an action that runs only when no interrupt is pending.

Bounds and abstractions: the interrupt of one bus edge is served before the
next edge (a suspend takes 3 ms of idle, a resume 20 ms) and at most one edge
falls within a main-loop call; reports do not overwrite a full latch except
during the 2 ms wake pulse; reports have ended when the link-loss handler runs
(`RfLink` checks that race); `RB_UC_INT_BUSY` keeps the bus NAKed until the
interrupt of the last transfer is served; a host that drops the configuration or
resets the bus releases every key.  Endpoint 3 stands for its consumer report.
Left out: the EP0 table of descriptors and replies, data toggles, the EP6 pipe,
and the byte ring under `kq`.

### SoftTimers

| variable | code |
|---|---|
| `tm` | `st_active`, `st_deadline` (relative to `st_epoch`), the hardware timer (COUNT, end register, expiry flag, whether it runs), the grid's owner, period, nudge and SysTick since its last sync |
| `isr` | where `TMR_IRQHandler` stands, and how many callbacks it has run |
| `left` | history: true time until a slot's requested delay has passed, less what the clock has skipped while it waited |
| `wait` | how long an expiry, or the interrupt, has been held |

`Set`, `Cancel`, `SetPeriodic`, `Promote` and `Nudge` are the `hal_timer_*` calls,
made by the main loop or by a callback of the dispatch; `EnterGrid`,
`EnterOneShot`, `DispatchFires`, `DrainFires` and their ends are
`TMR_IRQHandler`; `Tick` is the timer.  Times are small: the width of the counter
is a constant, the deadlines are compared with sign as `st_rearm` does.

- A stop zeroes COUNT without moving it into the epoch (`ch570/src/main.c:369-374`), so
  the clock steps back, and stands still while nothing is armed.  No slot waits
  then, which is what `ClockContinuous` needs; `hal_timing.h` calls the epoch
  monotonic and also says that it freezes.
- A second expiry before the first is served is lost: slots fire late, never early.
- The latency of the interrupt (`MaxWait`) and of a caller's masked section
  (`MaxLate`) are bounded.  The dispatch's `Runaway` limit is 65 in the code.
- `st_rearm` arms the timer to any distance, and the end register keeps its low bits
  (`StartTimer`).  When such an interval ends, early, the clock counts it whole: it skips
  what the register dropped (`Skipped`).  A delay may be that long in the run and in the
  proofs.  `NeverEarly` and `ClockContinuous` say what it costs: a slot that waits
  over the end of such an interval is early by exactly what was skipped, no other
  slot is, and nothing else moves the clock.  With intervals that fit, nothing is
  skipped and `left` is the true time.  `Covered` has no exception.
- A distance that is a multiple of the register's width leaves it 0, which `st_rearm`'s
  comment wants never to happen; the model ends that interval when the count wraps.
  What the hardware does with an end of 0 is not known.
- `DistanceAssumption` names what keeps a distance between two words from aliasing: the end
  register is at most a quarter of a word wide, and `MaxLate`, three latencies, one cycle
  and one delay fit a quarter of a word.  In the code that quarter is 10.7 s at 100 MHz and
  the longest delay, the EV10 watchdog, 2.125 s.  It also says that the floor and a cycle of the
  grid fit the register, which holds for the intervals keyboards send but which the code does
  not see to (section 6).  One interrupt can dispatch each of the six slots (65).
- `st_set_at` has no caller and is left out.

### PmIdle

| variable | code |
|---|---|
| `pc` | where the main loop stands in `Main_Circulation`, `pm_idle_try` and the plan, with their locals |
| `pm` | the activity latches (`dongle_pm_post`, `dongle_pm_ran`, ...) and the previous plan's clock read |
| `table` | `pm_deadline`, relative to the RTC |
| `tmos` | TMOS itself (external): running timers, queued events, dispatches left to the other tasks |
| `hw` | TMR3, the pending interrupts, the event latch of the wait, the RTC trigger |
| `ok` | whether link class and USB allow a sleep |
| `hist` | history: events posted by code, timers the table may miss (`loose`), lateness |

One timer of one task stands for the table's entries, and an untimed event for
every post.  Decisions are taken per entry of the table and the plan is the
minimum of them, so one entry shows every crossing.  `OtherTasks` bounds the
dispatches of the two other TMOS tasks, each at most once per iteration; without
that bound an expiry survives the extra pass, and the comment's argument for that
pass counts on it.  The crossings the code documents as residual
(`pm_ch592.c:248-255`, 336-341) are marked `loose` and excepted from
`TimersCovered`; so is a timer whose expiry is queued when the sink restarts it,
until the next wake.  `AgeAssumption` and `DistanceAssumption` keep the RTC's distances
below half its modulus: the first bounds how far an entry falls behind before the
code's retirement age drops it, over as many iterations (`MaxFires`) as one can miss; the second says that no delay
and no lateness comes near half the modulus, and that the last look leaves the
time of a call.  Half the code's modulus (0xA8C00000) is twelve hours, its longest
sleep a quarter of a second.  A USB resume or reset between the last look and the wait
of a halt is the residual the code gives a one second backstop.  The comment at
`pm_ch592.c:545-546` says "this is why the knob ships off", and
`ch592/Makefile:242` ships `PM_HALT ?= 1`.

### IapService

| variable | code |
|---|---|
| `chip` | whether `hal_now` runs when no timer is armed |
| `host` | the command in flight, whether the device had it already, the host's toggle |
| `ep6` | R_RES, T_RES, R_TOG, `iap_pkt_pending`, the buffer, the interrupt not served |
| `main` | where `USB_PollEP6` and `IAP_Service` stand |
| `iap`, `svc` | `iap_armed`, `iap_reboot_pending`; `svc_state` and what is left of its deadline |
| `rf` | the radio, as `RF_Quiesced` sees it |
| `hist` | commands owed, fate of the reboot's reply, exemptions |

`Drop`, `Query`, `GetDevInfo`, `Action` and `EnterBootloader` are the handlers by
what they do to the session, the reply and the reboot latch; what they do to the bond
and the radio is in `RfLink`.  The reply is filled, then offered under a mask
(`SendReply`); `ClearPending` and `OpenOut` are the two statements between which
the interrupt may run.  The host retries until it sees an ACK, may never poll,
may send a command before it took the last reply (the reply is then replaced, or
torn), resets the bus and clears halts.

Two exemptions.  A bus reset over a pending command re-opens the endpoint
(`usb_device.c:784-793` says so): until the next idle poll nothing is asserted
about that command.  CLEAR_FEATURE(ENDPOINT_HALT) on EP6 OUT does not reset R_TOG:
if it is 1, the host's next DATA0 is taken for a duplicate, and that command is lost.
The data toggle of IN is left out.

### MCRfLink, MCUsbHid, MCSoftTimers, MCPmIdle, MCIapService

They add the symmetry sets and nothing else.  The constants are in the `.cfg` files.

## 4. What is checked

| run | instance | properties | distinct states |
|---|---|---|---|
| `ch592` | TMOS, two keyboards (symmetric), 2 window steps, no faults, `clear` and `quiesce` | TypeOK, BondInvariant, PendingHasEvent, LinkSupervised, WindowTicks, BurstDriven, NoStuckKey, QuiesceSilent, WindowLock, TombstoneFinal | 507,085 |
| `faults` | TMOS, one keyboard, one fault anywhere, `clear` | PersistedMeansStored, ConfirmHasDeadline, CampWatched | 1,703,831 |
| `ch570` | CH570 executor, one keyboard, no faults, `clear` | ConfirmBeforePersist, DeadlineInvariant, PollsRun | 2,259,098 |
| `live` | TMOS, one keyboard, 2 window steps, no faults, `clear` and `diag`, fair | LapseNoticed, ScanEnds, WindowCloses, ConfirmSettles, ProvenKept, CampHeals | 215,972 |
| `usb_ch592` | keyboard with two keys (symmetric), mouse, 2 slots, halts on both | TypeOK, KeysSettle, OthersSettle, QueueArmed, HeadInFlight, WakeOnce, WakeAsked, DeliversInOrder | 1,714,802 |
| `usb_ch570` | keyboard behind the latch, fair | KeysSettle, WakeAnswered, Drains | 19,735 |
| `st` | three slots, two of them periodic, a delay below the floor and one above the end register, late interrupts | NeverEarly, Covered, ClockContinuous | 991,071 |
| `pm` | one timer of two delays, two other tasks, RTC modulo 32 | NoSleepOverWork, TimersCovered | 4,466,682 |
| `iap` | both chips, deadlines of two ticks, fair | IapInvariant, RebootHappens | 483,128 |
| `polls`, `usb_latch`, `usb_overlap` | see section 6 | one each, violated | |

Why the bounds are enough.  Two keyboards are the fewest that can compete for a
bond, and `WindowLock` and `BondInvariant` are about that competition; the other
link properties concern one keyboard against the dongle.  Two window steps give
the first, the last and the rotation between the two addresses (the code has ten
like these).  One fault at any point covers every single refused arm, lost
completion or failed write.  The diagnostic's third rung leaves a camp as a lost
completion does, silent and with the radio off, and `live` allows it in every
camp the link comes to (boot, closed window, give-up, cleared bond) and without
limit; what a refused arm leaves behind is checked by `CampWatched` only.  Two
queue slots are the CH570 value and the fewest the code
accepts: the queue fills with one state in flight and one waiting, which is when
a push coalesces; the proofs cover every depth, the four slots of CH59x included.
Two keys tell a replaced state from a repeated one.

For `st`, three slots, two of which may own the grid, show a one-shot beside every
owner and a hand-over between two; one delay is below the floor `MinDelta`, the
other longer than the end register.  A register of four values
is truncated to 1 by the delay of 5, is left 0 by a distance of 4 and
holds the rest.  An end of 1 comes again within an interrupt, so the clock skips
twice in one dispatch too.  The word has 68 values, the fewest (to a multiple
of four) that `DistanceAssumption` admits, and the epoch and the deadlines wrap within
the run.  For `pm`, the modulus of
the RTC is small enough that deadlines and the plan's clock read wrap within the
run.  For `iap`, a deadline of two ticks can pass partly, and be restarted by the
next state of the service.

Deadlock is checked in every run but `iap`, which ends in the reset into the
bootloader.  `SoftTimers` and `PmIdle` state no liveness: that a timer fires is
stated as a bound on how late, which is the stronger form (`Covered`,
`TimersCovered`).

Each property has a mutant in `PROJECT.json`: an operator `...Slip` that stands
for a slip the code could have had (a missing re-arm, a dropped guard, a swapped
operation) under which TLC finds the property violated.

## 5. Fairness

`RfLink!FairSpec`: a transmission ends in
TX_FINISH or a failure; an armed one-shot, and the confirm deadline, is served
when its time has come (strongly: the slot may be re-armed meanwhile); and the
event word runs empty again and again.  The last one is the time scale of the code:
handlers take microseconds and what posts their events - air frames, 875 us and
longer timers - does not outrun them.  It implies that every handler runs and, once
started, ends, so no other fairness of the executor is stated.  Nothing is assumed of the keyboard or of the air: silence
and noise for ever are allowed.

`UsbHid!FairSpec`: interrupts are served; the main loop visits each of its calls
again and again; a configured host with an active bus polls the keyboard.  The host
is not assumed to resume, to configure or to permit remote wake.

`IapService!Fairness`: an interrupt is served; the main loop goes on (strongly:
interrupts suspend it, and they come no faster than the frames of the bus); the
clock ticks on the CH592.  Nothing is assumed of the host, of the radio's executor,
or of the clock of the CH570, which stands when no timer is armed.  `RebootHappens`
therefore promises the CH570's reboot only once the radio has quiesced and the reply
is gone; for the CH592 it promises it unconditionally.

## 6. Where the code and its comments disagree

The first three are runs that TLC finds violated, listed under `findings`.

- `polls`: on CH59x the TX_FINISH of a stray pair-ACK sent during an EV10 scan
  promotes the link to connected with the periodic timer stopped
  (`rf_task.c:2679`); nothing polls the link until supervision ends it.
- `usb_latch`: inside the CH570 wake pulse a mouse report replaces a latched key
  release (`ch570/src/main.c:101`): the key stays down.
- `usb_overlap`: the EP2/EP3 interrupt NAKs a report armed after the one it is for
  (`usb_device.c:752`, 758): a release is lost and the button stays down until the
  next report or resume.  The design note at 938-944 calls what happens to two
  reports within a frame benign: the older gives way.  Here it is the newer one.

Seen while modelling, with no run of their own:

- a refused pair-ACK opens a boot window on a dongle with no bond
  (`rf_task.c:1259`), and after it the dongle camps on the session address, where
  no new keyboard is heard, against the comment at `rf_task.c:650-651`;
- SET_CONFIGURATION(0) clears `usb_config` and not the EP1 queue
  (`usb_device.c:364` against the comment at 1292-1294).  With `Detaches` TRUE
  `KeysSettle` fails: an old state is delivered in the next configuration.  The
  passing runs have `Detaches = FALSE`;
- once the link task is quiesced the CH570's clock stands (`TODO.md:66`), so neither
  deadline of `IAP_Service` can pass there: with a wedged executor, or with a host that never takes the reply, the
  reboot waits for ever, against `iap.c:439-446` and 451;
- CLEAR_FEATURE(ENDPOINT_HALT) on EP6 OUT leaves R_TOG (`usb_device.c:440-457`);
- the shipped value of `PM_HALT` against the comment at `pm_ch592.c:545-546`;
- a burst and an EV10 scan can be latched together (`rf_task.c:1667`, 1682)
  although the comment at 2731-2733 takes them as exclusive; this is how `polls`
  starts;
- `NoStuckKey` needs both qualifiers of its run: on CH570, and after a fault, the
  re-acquire handler can send its keys-up while the link is still connected, and a
  report the sink forwards before the state is left (`rf_task.c:1659-1675`) comes
  after it.  `BurstDriven` likewise fails on CH570 and with one fault;
- the diagnostic intervention's third rung cancels a posted restart
  (`rf_task.c:4466`) and counts on the camp watchdog to undo the silence ("must
  bring it back at its next tick", 4462).  After a burst that ends without a link,
  because BondClear came in its middle or its transmission failed, it is that
  restart which would start the watchdog: the camp stays deaf until a reset or
  another command.  `CampHeals` excepts this camp by name (`Orphaned`);
- link loss can request a remote wake: between its test of the suspend flag
  (`rf_task.c:1211`) and the forwarded report (1219) the bus may suspend, against
  `usb_device.c:1170-1171`;
- CLEAR_FEATURE(ENDPOINT_HALT) on EP2 or EP3 drops an armed release; only EP1 is
  re-armed (`usb_device.c:440-457`).  `OthersSettle` excepts an endpoint whose newest
  report was lost so, or as in `usb_overlap`, until its next report or flush;
- a CH570 one-shot longer than the 26 bits of the end register is truncated while
  `st_armed_delta` keeps the whole delay (`ch570/src/main.c:380-381`), against
  `sched.h`.  `TODO.md:96-155` lists the defect as latent.  One delay of the code is that long,
  the EV10 re-acquire watchdog (`rf_task.c:1512`, 1691: 212,500,000 ticks of 100 MHz against
  67,108,863), and it is written only when it is the nearest deadline; the boot window and the
  camp watchdog (`rf_task.c:694` asserts it) fit.  The run `st` and the proofs include it:
  `NeverEarly` counts what the clock skipped against the slots that waited; without
  that (`left` falling by one each tick) TLC finds it violated as soon as the interval ends.  `TODO.md` expects every timer
  with a deadline inside the jump to be dispatched with it.  The proof narrows this: the
  clock lands on the nearest deadline (`Aimed`), and passes others only if
  the truncated interval ends a second time within the dispatch, before a call re-arms it;
- the grid has the same limit (`ch570/src/main.c:672-673`): `st_period` keeps the whole period.  A stored
  interval is at most 300 (`bond.h:108`), 9.4 ms, but the one a re-key takes over from the
  keyboard's broadcast (`rf_task.c:2341`) has no bound, and one of 21,475 or more (671 ms;
  keyboards send 28) would not fit;
- the comment listing the delay-slot users in `hal_dispatch_ch570.c:53-58` omits
  the confirm deadline.

## 7. What is proved

Unless an entry below names a hypothesis, the proofs assume only what the modules' named ASSUMEs say: any set of
keyboards, any positive number of window steps, any number of faults, any
commands, either executor; any key set, at least two queue slots, any choice of
endpoints; any two positive deadlines.

- `RfLinkProofs!TypeCorrect`: `TypeOK` of `RfLink`, one step per action.
- `RfBondProofs!BondInvariantHolds` and `ConfirmBeforePersistHolds`.
  "The record names a keyboard that was heard on the session address" is not
  inductive: a write takes its peer from what was posted, what was posted rests on
  a confirmation, that on a burst, that on an open window.  `BondInvariant` is the
  chain, one named conjunct per link (`WriteIsProven`, `Tentative`, `KnownBurst`,
  `RecordIsPeer`, `OpenWindow`), and `Unstarted` says that none of it exists
  before RF_EVT_START.  Most actions only let go of things; they are `Tame`, and
  one lemma (`TameKeeps`) shows a tame step keeps the chain.  The ones that are
  not have a lemma each: START, the pair accept, the promotion, BondClear's two
  halves, a quiesce that precedes START, the ageing of the link, and reset.
- `RfBondProofs!WindowLockHolds`, `TombstoneFinalHolds` and `PersistedMeansStoredHolds`.  The first two look at every
  action once.  Only an accepted beacon, `RF_TombstoneBond` and a reset change
  the peer or the tombstone (`SameStep`); the gate lets a bonded dongle with its
  window closed accept nobody but its peer, and only the two promotions connect
  (`ConnectStep`).  That the record stays erased needs an invariant, `Cleared`:
  no tombstone meets a write under way, and between BondClear's two halves the
  page is blank.  A write starts only without a tombstone, and the tombstone is
  set only by the main loop, which does not run inside a write.
  The durability flag is not stale because a write under way is always of the
  committed record, with the flag down and no tombstone (`Stored`), whatever preempts
  it; everything else lets go of the flag or leaves record and flag as they are (`Lowers`).
- `RfDeadlineProofs!DeadlineInvariantHolds`, and from it `PendingHasEventHolds`,
  `ConfirmHasDeadlineHolds`, `LinkSupervisedHolds`, `WindowTicksHolds`,
  `QuiesceSilentHolds` and `CampWatchedHolds`: whatever the task waits for has a
  timer armed or an event posted, on both executors and with any number of
  faults.  The seven conjuncts of `DeadlineInvariant` (in `RfLink`, checked by
  the `ch570` run) say for each state what is owed, also at the points where a
  handler is preempted half way.  "Owed" is in the event word, in the snapshot, in
  the delay slot or armed: no operation of the queue forgets what it does not
  name (`OwesKept`), so an action is followed only through the operations that
  name the event.  `CampWatchedHolds` has the hypothesis `"diag" \notin Commands`:
  the diagnostic's third rung can deafen a camp for good (section 6).
- `RfDeadlineProofs!PollsRunHolds` has the hypothesis `~Tmos`: on CH59x it is the
  finding `polls`.  `Polled` excepts the end of a give-up, whose camp takes the link
  down.
- `RfDeadlineProofs!NoStuckKeyHolds` and `BurstDrivenHolds` have the hypotheses
  `Tmos` and `MaxFaults = 0`; section 6 says how each fails without them.  For keys,
  `KeysUp`: outside a connected link, and on a tentative pair, none is held, and each
  point where a give-up or the re-acquire handler is preempted keeps it so.  For a burst: its next transmission is posted, or is on the air and nothing that
  is posted would take the radio from it (`BurstCarried`).  That needs `Settled`,
  which holds of the TMOS build alone: whenever the handler is not running the
  snapshot is empty, since TMOS hands over one event at a time, and without faults
  nobody delays a restart.
- `UsbHidProofs!TypeCorrect` and `HeadInFlightHolds`: the transfer in flight is the
  head of the queue.  The two are inductive together (`IInv`); the lemmas say what
  `Push` and `Service` leave behind and each action is followed through them.
- `UsbHidProofs!WakeOnceHolds` and `WakeAskedHolds`, from `BusKnown` (what the wire
  and the flags of `usb_device.c` know of each other, with a bus interrupt pending or
  not) and `WakeClaims` (what a latched request, and a pulse under way, has spent).
- `UsbHidProofs!QueueArmedHolds` and `KeysSettleHolds`, from `KeyInvariant`: with no
  configuration nothing is queued, a collected report waits for its
  interrupt, a head that lost its transfer is halted, suspended or about to
  be re-armed, the latch is as new as what overwrote it, and the last state the host has or
  will be given is the keyboard's.  Hypotheses: `~Detaches` for both (configuration
  0 keeps an old queue, section 6), and for the keys behind the latch
  (`Deferred`) no other endpoint, or the finding `usb_latch` applies.
- `UsbHidProofs!OthersSettleHolds`, from `OtherFollows`, the same for an endpoint of
  one report, and `PulseFollows` for what is reported during a wake pulse.
  Its hypothesis is `~Detaches`.  A report that a NAK dropped unseen is marked in the
  history (`lost`), and the argument is about endpoints without the mark: arming one
  that is not being collected removes it, and nothing else does (`LostStays`).
- `UsbHidProofs!QueueImplementsChannel`: `UsbHid` implements `KeyChannel` unless
  the host selects configuration 0.  The mapping takes the queue without the entry
  the host has already collected (its interrupt is still to come), and empties
  it when a reset is pending.  A push is an accept or a coalesce of the mapped
  queue because dropping the head commutes with both (`TailAppend`,
  `TailExcept`); the completion and reset interrupts are stutters.

- `IapServiceProofs!IapInvariantHolds` and `CommandsRunOnceHolds`.  "A command
  runs once" is not inductive: a retry that carries the old toggle must find the
  device past it, which `Toggles` says of the two toggles in terms of what the
  host has in flight; and a command can only be overwritten while the endpoint is
  open, which `OneAtATime` excludes while one is pending.  `ReplyKept` is the same
  for the reboot's reply: nothing replaces it once it waits.  One lemma per
  group of actions, the host and the wire first.

- `PmIdleProofs!TypeCorrect`, `IdleInvariantHolds` and `NoSleepOverWorkHolds`: the
  core never sleeps over an event posted by code.  The argument is that of
  `pm_ch592.c:29-35`, made exact by counting: a post sets a latch with its queue
  entry, the loop takes the latch before the first of three passes, and a pass that
  runs the handler ends the iteration; so at the mask an event is visible in a latch,
  or each of the three passes went to another task.  `IdleInvariant` is this count.
  Hypothesis: `OtherTasks <= 2`, since TMOS in this program has three tasks and each is
  dispatched once per iteration.
- `PmDeadlineProofs!DeadlineStateHolds` and `TimersCoveredHolds`, under the same
  hypothesis: no wait and no halt runs past a timer, or past an expiry not yet
  dispatched.  "The sleep ends in time" says nothing of the table the next plan reads,
  so `DeadlineState` follows the whole chain.  An entry follows its timer, behind by the bounded
  latencies at most (`EntryFollows`); a plan, and the sleep armed from it, ends soon
  after every entry it keeps (`PlanCovers`, `SleepCovers`); and an entry a plan
  retires is owed to no timer (`ClearsUnowed`).  The last is the hard one:
  `pm_settled` compares two distances modulo the RTC, so an entry or a clock read
  that fell half a modulus behind would alias.  `Recent` and `ReadYoung` bound how far
  they fall, and `Settles` counts the passes, as `IdleInvariant` does, to show that
  an expiry the previous plan saw has been dispatched.  A step other than a tick leaves
  a timer alone, starts it afresh or polls it (`Carried`); a tick moves every
  distance by one.  TLC checked `DeadlineState` on the instance of `pm` before it was proved.

- `SoftTimersProofs!NeverEarlyHolds`, `CoveredHolds` and `ClockContinuousHolds`, from
  `SlotInvariantHolds`, for delays longer than the end register too.  Deadlines
  and the clock are words, so the proof reasons modulo a word: two values are `Alike`
  when they differ by whole turns, and `Signed` recovers a distance below half a turn.
  `Rebased`, `Moved` and `Compared` say what moving the epoch, letting time pass and
  comparing two deadlines do to distances.  None of this holds of distances near half
  a word, so that there are none is part of `SlotInvariant`: `NotFar` ahead,
  `Punctual` behind.  `Punctual` is the hard one.  One interrupt may find several slots late, run
  callbacks that arm others, and end at its limit of callbacks; but a slot later than `MaxLate`
  keeps every caller from re-arming, so until it has run each callback disarms a slot,
  and slots run out before the limit does.  `Sound` says that the timer runs to what the
  register holds of the interval by which its end will move the clock (`Cut`: all of it, or
  less by the register's width), and `Aimed` that this brings the clock to no deadline but the
  nearest, or to the floor, so an interval that skips lands no slot late.  A dispatch
  may outlast the interval it left running; what that skips is `Overrun`, and such a
  dispatch is still `Undisturbed` by a call.  A call is summarised by `Called`, a step of the interrupt by `Kept`, and one
  lemma for each shows the invariant kept.  TLC checked `SlotInvariant` before it was proved.
- `SoftTimersProofs!NeverLateHolds`, from the same invariant: the bound on how overdue a
  slot can be.  It counts what an overrun skipped.  It is on the clock the code reads; an expiry lost
  to a second one (section 3) delays that clock, and the bound does not count it.

## 8. What is only model-checked

- All liveness: `LapseNoticed`, `ScanEnds`, `WindowCloses`, `ConfirmSettles`,
  `ProvenKept` and `CampHeals` of `RfLink`; `WakeAnswered` and `Drains` of `UsbHid`;
  `RebootHappens` of `IapService`.  Fairness and ENABLED are beyond the provers used.

They hold on the instances of section 4.  Every safety property of section 4 is proved,
under the hypotheses that section 7 names for it.

## 9. What is not modelled

The hop clock, byte ring, LED relay and receive window are planned (section 2).  AES is a block cipher with published
test vectors and no control of its own; descriptors and identity strings are
tables; start-up, fault handlers and register seams are hardware configuration;
the host tools are sequential clients; the build scripts and boards are not
part of the running system.
