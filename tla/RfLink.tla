------------------------------- MODULE RfLink -------------------------------
(***************************************************************************)
(* The radio link task of the dongle (firmware/common/src/rf_task.c): the  *)
(* pairing / connected / re-acquire state machine, the event executor that *)
(* runs its handlers, the radio completion sink that preempts them, and    *)
(* the bond record the machine confirms before it persists.                *)
(*                                                                         *)
(* Two executors run the same source.  On CH59x (Tmos = TRUE) a handler's  *)
(* left-over events go back to the task's event word after every handler;  *)
(* on CH570 (Tmos = FALSE) RF_TaskPump keeps them in a local snapshot until *)
(* it is empty.  Time is not modelled: an armed timer or a delayed post    *)
(* may expire at any moment.  Channels, payloads and hop phase are left    *)
(* out; of an access address only "pair" or "session" is kept.             *)
(*                                                                         *)
(* An operator named ...Slip is a wrong variant of the definition after    *)
(* it, a slip the code could have had.  The specification uses none: they  *)
(* show that the properties at the end can tell.                           *)
(***************************************************************************)
EXTENDS Naturals, FiniteSets

CONSTANTS
  Tmos,         \* TRUE: CH59x TMOS executor; FALSE: CH570 polled executor
  Keyboards,    \* MAC addresses rf_accept_peer_mac lets through
  NoPeer,       \* the all-zero MAC: no keyboard known, no record stored
  BootSteps,    \* RF_BOOT_WINDOW_STEPS (10 in the code)
  Commands,     \* host commands in play: subset of CommandNames
  MaxFaults     \* bound: refused arms, lost completions, failed flash writes

ASSUME TmosAssumption   == Tmos \in BOOLEAN
CommandNames == {"clear", "quiesce", "diag"}

ASSUME CommandsAssumption == Commands \subseteq CommandNames
ASSUME NoPeerAssumption == NoPeer \notin Keyboards
ASSUME BoundsAssumption == BootSteps \in Nat \ {0} /\ MaxFaults \in Nat

VARIABLES
  link,      \* the link state machine's flags (rf_state and its companions)
  bond,      \* the RAM bond: peer, validity, durability, pending write
  nv,        \* peer of the DataFlash record, NoPeer when none validates
  q,         \* event word, executor snapshot, delayed posts, timer slots
  radio,     \* what the PHY is doing, on which address, did the last arm fail
  pc,        \* the handler in progress between two preemption points
  quiesced,  \* rf_quiesced: the one-way pre-reboot latch
  hostKey,   \* the last keyboard report forwarded holds a key down
  proven,    \* history: keyboards heard on the session address this boot
  faults     \* faults spent, at most MaxFaults

vars == <<link, bond, nv, q, radio, pc, quiesced, hostKey, proven, faults>>

-----------------------------------------------------------------------------
(* Data *)

Peers     == Keyboards \cup {NoPeer}
Addresses == {"pair", "session"}
Confirms  == {"none", "waitRx", "waitRearm"}

\* RF_EVT_*, in the order RF_ProcessEvent tests them.
Prio == [PERSIST |-> 1, QUIESCE |-> 2, START |-> 3, BOOT |-> 4, CONFIRM |-> 5,
         RESTART |-> 6, POST_RX |-> 7, PREP |-> 8, ACK |-> 9, POLL |-> 10,
         TX15 |-> 11, TX15B |-> 12, TIMEOUT |-> 13]
Events   == DOMAIN Prio
OneShots == {"EV10", "BOOT"}                 \* one-shot timer slots
Expiry   == [EV10 |-> "TIMEOUT", BOOT |-> "BOOT"]
Grids    == {"off", "POLL", "ACK", "halted"} \* the one periodic timer's owner

\* Points at which the sink may preempt a handler that is still running.
Points == {"idle", "reacquire1", "reacquire2", "giveup1", "giveup2", "giveup3",
           "bootpair", "bootsession", "bootclose", "confirm", "restart", "persist1", "persist2", "persist3", "clear"}

LinkType ==
  [state: {"idle", "pairing", "connected"}, ev10: BOOLEAN, boot: BOOLEAN,
   pairWin: BOOLEAN, step: 0 .. BootSteps - 1, burst: BOOLEAN, idx: 0 .. 1,
   fresh: BOOLEAN, confirm: Confirms, txfail: BOOLEAN, wd: BOOLEAN,
   moved: BOOLEAN, recent: BOOLEAN, heard: BOOLEAN]
BondType  == [peer: Peers, valid: BOOLEAN, persisted: BOOLEAN,
              pending: BOOLEAN, rec: Peers, tombstone: BOOLEAN]
QueueType == [pend: SUBSET Events, ev: SUBSET Events, delayed: SUBSET Events,
              timers: SUBSET OneShots, grid: Grids]
RadioType == [mode: {"off", "rx", "tx"}, aa: Addresses, failed: BOOLEAN]
PcType    == [at: Points, saw: Confirms, want: Peers, conn: BOOLEAN,
              busy: BOOLEAN]

TypeOK ==
  /\ link \in LinkType
  /\ bond \in BondType
  /\ nv \in Peers
  /\ q \in QueueType
  /\ radio \in RadioType
  /\ pc \in PcType
  /\ quiesced \in BOOLEAN
  /\ hostKey \in BOOLEAN
  /\ proven \in SUBSET Keyboards
  /\ faults \in 0 .. MaxFaults

-----------------------------------------------------------------------------
(* The executor and the timing seam *)

Post(s, e)    == [s EXCEPT !.pend = @ \cup {e}]
Cancel(s, E)  == [s EXCEPT !.pend = @ \ E, !.delayed = @ \ E]

\* CH570 has two delay slots; a third bit is posted at once.
PostDelayed(s, e) ==
  IF Tmos \/ e \in s.delayed \/ Cardinality(s.delayed) < 2
    THEN [s EXCEPT !.delayed = @ \cup {e}]
    ELSE Post(s, e)

Arm(s, slot)  == [s EXCEPT !.timers = @ \cup {slot}]

\* TMOS one-shots are the event bit itself, so stopping one drains the bit.
Disarm(s, T) ==
  [s EXCEPT !.timers = @ \ T,
            !.pend = IF Tmos THEN @ \ {Expiry[t] : t \in T} ELSE @]

GridStart(s, owner) == [s EXCEPT !.grid = owner]

\* One TMR0 backs both slots on CH59x; on CH570 only the owner releases it.
GridStop(s, owner) ==
  [s EXCEPT !.grid = IF Tmos \/ @ = owner THEN "off" ELSE @]
GridStopAll(s) == [s EXCEPT !.grid = "off"]

\* The events RF_ProcessEvent sees now, and whether e is the one it handles.
\* Once quiesced it lets only PERSIST through; the tail of QUIESCE leaves
\* nothing else behind, so there is no action for what it would drop.
Current == IF q.ev = {} THEN q.pend ELSE q.ev
Turn(e) == /\ pc.at = "idle"
           /\ e \in Current
           /\ \A f \in Current : Prio[e] <= Prio[f]
           /\ quiesced => e = "PERSIST"

Took(e) == [q EXCEPT !.ev = Current \ {e},
                     !.pend = IF q.ev = {} THEN {} ELSE @]
\* What a handler leaves behind when it returns its remaining events.
Return(s) == IF Tmos THEN [s EXCEPT !.pend = @ \cup s.ev, !.ev = {}] ELSE s

Idle == [at |-> "idle", saw |-> "none", want |-> NoPeer, conn |-> FALSE,
         busy |-> FALSE]
\* A handler that starts, or goes on after an erase or a write of the flash
Goto(p)   == [pc EXCEPT !.at = p, !.busy = FALSE]
GoOn(p)   == [pc EXCEPT !.at = p]

-----------------------------------------------------------------------------
(* The radio seam: every arm may be refused while a fault is left to spend *)

Cost(ok)     == IF ok THEN 0 ELSE 1
OutcomesAt(n) == IF n < MaxFaults THEN BOOLEAN ELSE {TRUE}
Outcomes     == OutcomesAt(faults)
Spend(ok)    == faults' = faults + Cost(ok)
\* two calls that may both fail, in one handler
Then(ok)     == OutcomesAt(faults + Cost(ok))
SpendBoth(ok, ok2) == faults' = faults + Cost(ok) + Cost(ok2)

\* rf_start_rx / rf_rearm_rx: shut, (configure,) receive, keep the status.
Listen(aa, ok)   == [mode |-> IF ok THEN "rx" ELSE "off", aa |-> aa,
                     failed |-> ~ok]
\* rf_arm_post_poll_rx and rf_send_pair_prep do not record the status.
Listening(ok)    == [radio EXCEPT !.mode = IF ok THEN "rx" ELSE "off"]
Transmit(aa, ok) == [radio EXCEPT !.mode = IF ok THEN "tx" ELSE "off",
                                  !.aa = aa]
Shut             == [radio EXCEPT !.mode = "off"]

\* rf_arm_retry_if_failed
Retry(s, ok) == IF ok THEN s ELSE PostDelayed(s, "RESTART")

-----------------------------------------------------------------------------
(* Shared pieces of the handlers *)

\* rf_camp_is_terminal
Terminal(l) == /\ l.state = "pairing" /\ ~l.ev10 /\ ~l.boot /\ ~l.burst
               /\ ~quiesced

\* rf_camp_watchdog_arm
WatchdogOnSlip(l) == [l EXCEPT !.moved = FALSE]          \* never active
WatchdogOn(l)     == [l EXCEPT !.moved = FALSE, !.wd = TRUE]
WatchdogTimer(s)  == Arm(s, "BOOT")

\* The boot window's flags; its step counts only while it is open.
CloseWindow(l) == [l EXCEPT !.boot = FALSE, !.pairWin = FALSE, !.step = 0]

\* rf_abort_pair_burst: the chained TX is cancelled, the first one is not.
AbortBurstSlip(l) == [l EXCEPT !.idx = 0, !.fresh = FALSE]   \* latch kept
AbortBurst(l)  == [l EXCEPT !.burst = FALSE, !.idx = 0, !.fresh = FALSE]
AbortBurstQ(s) == Cancel(s, {"TX15B"})

\* rf_return_to_fresh_pair, up to the receive it ends in
ForgetAttempt(l) ==
  [AbortBurst(l) EXCEPT !.confirm = "none", !.txfail = FALSE, !.ev10 = FALSE,
     !.recent = FALSE]
FreshPair(l) ==
  [ForgetAttempt(l) EXCEPT !.boot = TRUE, !.pairWin = FALSE, !.step = 0,
     !.wd = FALSE, !.moved = FALSE, !.state = "pairing"]
FreshPairQSlip(s) ==                                    \* armed, then stopped
  AbortBurstQ(Cancel(Disarm(GridStopAll(Arm(s, "BOOT")), OneShots),
        {"PREP", "ACK", "POLL", "POST_RX", "CONFIRM"}))
FreshPairQ(s) ==
  Arm(AbortBurstQ(Cancel(Disarm(GridStopAll(s), {"EV10"}),
        {"PREP", "ACK", "POLL", "POST_RX", "CONFIRM"})), "BOOT")

\* rf_arm_connected_supervision
SuperviseSlip(s) == Disarm(Arm(s, "EV10"), {"EV10"})    \* order swapped
Supervise(s) == Arm(Disarm(s, {"EV10"}), "EV10")

\* rf_commit_bond_ram; rf_arm_bond_persist
CommitRam(b) == IF b.tombstone THEN b
                ELSE [b EXCEPT !.rec = b.peer, !.valid = TRUE]
MustPersist(b)     == ~b.tombstone /\ ~b.persisted /\ ~b.pending
ArmPersist(b)      == IF MustPersist(b) THEN [b EXCEPT !.pending = TRUE] ELSE b
ArmPersistQ(b, s)  == IF MustPersist(b) THEN Post(s, "PERSIST") ELSE s

-----------------------------------------------------------------------------
(* Boot: RF_TaskInit and rf_load_persistent_bond, from whatever nv holds *)

BootLink ==
  [state |-> "idle", ev10 |-> FALSE, boot |-> FALSE, pairWin |-> FALSE,
   step |-> 0, burst |-> FALSE, idx |-> 0, fresh |-> FALSE,
   confirm |-> "none", txfail |-> FALSE, wd |-> FALSE,
   moved |-> FALSE, recent |-> FALSE, heard |-> FALSE]
BootBond(r) ==
  [peer |-> r, valid |-> r # NoPeer, persisted |-> r # NoPeer,
   pending |-> FALSE, rec |-> NoPeer, tombstone |-> FALSE]
BootQueue == [pend |-> {"START"}, ev |-> {}, delayed |-> {}, timers |-> {},
              grid |-> "off"]
BootRadio(r) ==
  [mode |-> "off", aa |-> IF r = NoPeer THEN "pair" ELSE "session",
   failed |-> FALSE]

Init ==
  /\ nv \in Peers
  /\ link = BootLink
  /\ bond = BootBond(nv)
  /\ q = BootQueue
  /\ radio = BootRadio(nv)
  /\ pc = Idle
  /\ quiesced = FALSE
  /\ hostKey = FALSE
  /\ proven = {nv} \ {NoPeer}
  /\ faults = 0

\* A replug or watchdog reset, at any point of any handler.
Reset ==
  /\ link' = BootLink
  /\ bond' = BootBond(nv)
  /\ q' = BootQueue
  /\ radio' = BootRadio(nv)
  /\ pc' = Idle
  /\ quiesced' = FALSE
  /\ hostKey' = FALSE
  /\ proven' = {nv} \ {NoPeer}
  /\ UNCHANGED <<nv, faults>>

-----------------------------------------------------------------------------
(* Handlers of RF_ProcessEvent, in its order.  A handler that can be       *)
(* preempted where it matters is several actions joined by pc.             *)

\* RF_EVT_PERSIST_BOND: the early returns, or the masked snapshot
PersistSkipsSlip == bond.tombstone \/ bond.valid        \* the wrong flag
PersistSkips == bond.tombstone \/ bond.persisted

PersistSnapshot ==
  /\ Turn("PERSIST")
  /\ bond' = [bond EXCEPT !.pending = FALSE]
  /\ IF PersistSkips
       THEN q' = Return(Took("PERSIST")) /\ UNCHANGED pc
       ELSE /\ q' = Took("PERSIST")
            /\ pc' = [Goto("persist1") EXCEPT !.want = bond.rec]
  /\ UNCHANGED <<link, nv, radio, quiesced, hostKey, proven, faults>>

\* The tail of RF_EVT_QUIESCE: every slot and event cancelled, radio shut.
QuiesceTailSlip ==                                      \* timers left armed
  /\ q' = [q EXCEPT !.pend = {}, !.ev = {}, !.delayed = {}]
  /\ radio' = Shut
QuiesceTail ==
  /\ q' = [pend |-> {}, ev |-> {}, delayed |-> {}, timers |-> {},
           grid |-> "off"]
  /\ radio' = Shut

\* rf_persist_bond_task returns to whoever called it: the QUIESCE handler,
\* which goes on to its tail, or the executor.
PersistReturn(s, r) ==
  /\ pc' = Idle
  /\ IF quiesced THEN QuiesceTail ELSE q' = Return(s) /\ radio' = r

\* bond_load + bond_tuple_equal: the record is already there
PersistAlready ==
  /\ pc.at = "persist1" /\ nv = pc.want
  /\ bond' = [bond EXCEPT !.persisted = TRUE]
  /\ PersistReturn(q, radio)
  /\ UNCHANGED <<link, nv, quiesced, hostKey, proven, faults>>

\* CH570 outside a connection tears the radio down; bond_save then erases.
PersistErase ==
  /\ pc.at = "persist1" /\ nv # pc.want
  /\ LET down == ~Tmos /\ link.state # "connected" IN
     /\ pc' = [Goto("persist2") EXCEPT !.conn = (link.state = "connected")]
     /\ link' = IF down THEN [link EXCEPT !.wd = FALSE, !.moved = FALSE] ELSE link
     /\ q' = IF down THEN Disarm(GridStopAll(q), OneShots) ELSE q
     /\ radio' = IF down THEN Shut ELSE radio
  /\ nv' = NoPeer
  /\ UNCHANGED <<bond, quiesced, hostKey, proven, faults>>

\* dongle_nv_write may fail and leave the page blank; CH570 then restarts the
\* camp it tore down, or refreshes the stamp of the link it kept.
PersistWrite ==
  /\ pc.at = "persist2"
  /\ \E written \in Outcomes :
       /\ nv' = IF written THEN pc.want ELSE NoPeer
       /\ IF Tmos \/ pc.conn
            THEN /\ link' = [link EXCEPT !.recent = @ \/ ~Tmos]
                 /\ UNCHANGED <<q, radio>>
                 /\ Spend(written)
            ELSE \E ok \in Then(written) :
                 /\ link' = WatchdogOn([link EXCEPT !.ev10 = FALSE,
                                                    !.state = "pairing"])
                 /\ q' = WatchdogTimer(Retry(q, ok))
                 /\ radio' = Listen("session", ok)
                 /\ SpendBoth(written, ok)
  /\ pc' = Goto("persist3")
  /\ UNCHANGED <<bond, quiesced, hostKey, proven>>

\* rf_bond_persisted only once the readback matches
PersistReadbackSlip ==                                  \* write not verified
  /\ pc.at = "persist3"
  /\ bond' = [bond EXCEPT !.persisted = TRUE]
  /\ PersistReturn(q, radio)
  /\ UNCHANGED <<link, nv, quiesced, hostKey, proven, faults>>
PersistReadback ==
  /\ pc.at = "persist3"
  /\ bond' = IF nv = pc.want THEN [bond EXCEPT !.persisted = TRUE] ELSE bond
  /\ PersistReturn(q, radio)
  /\ UNCHANGED <<link, nv, quiesced, hostKey, proven, faults>>

\* RF_EVT_QUIESCE, with the pending record written inline
Quiesce ==
  /\ Turn("QUIESCE")
  /\ quiesced' = TRUE
  /\ bond' = [bond EXCEPT !.pending = FALSE]
  /\ IF bond.pending /\ ~PersistSkips
       THEN /\ pc' = [Goto("persist1") EXCEPT !.want = bond.rec]
            /\ q' = Took("QUIESCE")
            /\ UNCHANGED radio
       ELSE /\ QuiesceTail
            /\ UNCHANGED pc
  /\ UNCHANGED <<link, nv, hostKey, proven, faults>>

\* RF_EVT_START
Start ==
  /\ Turn("START")
  /\ \E ok \in Outcomes :
     LET l == [link EXCEPT !.confirm = "none", !.txfail = FALSE,
                           !.state = "pairing"]
         s == Retry(Cancel(Took("START"), {"CONFIRM"}), ok)
     IN /\ link' = IF bond.valid
                     THEN [l EXCEPT !.boot = TRUE, !.pairWin = TRUE,
                                    !.step = 0, !.wd = FALSE, !.moved = FALSE]
                     ELSE WatchdogOn(l)
        /\ q' = Return(Arm(s, "BOOT"))
        /\ radio' = Listen(radio.aa, ok)
        /\ Spend(ok)
  /\ UNCHANGED <<bond, nv, pc, quiesced, hostKey, proven>>

SilentTickSlip(l) == l.moved                            \* sense inverted
SilentTick(l)     == ~l.moved

\* RF_EVT_BOOT_WINDOW with the window closed: rf_camp_watchdog_tick.  A camp
\* that has seen no radio event since the last tick is re-armed.
CampTick ==
  /\ Turn("BOOT") /\ ~link.boot
  /\ IF ~link.wd \/ ~Terminal(link)
       THEN /\ link' = [link EXCEPT !.wd = FALSE, !.moved = FALSE]
            /\ q' = Return(Took("BOOT"))
            /\ UNCHANGED <<radio, faults>>
     ELSE IF ~SilentTick(link)
       THEN /\ link' = [link EXCEPT !.moved = FALSE]
            /\ q' = Return(WatchdogTimer(Took("BOOT")))
            /\ UNCHANGED <<radio, faults>>
     ELSE \E ok \in Outcomes :
            /\ q' = Return(WatchdogTimer(
                      Retry(Cancel(Took("BOOT"), {"RESTART"}), ok)))
            /\ radio' = Listen(radio.aa, ok)
            /\ Spend(ok)
            /\ UNCHANGED link
  /\ UNCHANGED <<bond, nv, pc, quiesced, hostKey, proven>>

LastStepSlip(n) == n > BootSteps                        \* off by one
LastStep(n)     == n >= BootSteps

\* RF_EVT_BOOT_WINDOW with the window open.  It stands down once the link is
\* up or being re-acquired; otherwise the tick counts, and the last one closes
\* the window.  The sink can accept a keyboard between this decision and the
\* re-listen below.
BootWindowStep ==
  /\ Turn("BOOT") /\ link.boot
  /\ IF link.state # "pairing" \/ link.ev10
       THEN /\ link' = CloseWindow(link)
            /\ q' = Return(Took("BOOT"))
            /\ UNCHANGED pc
       ELSE LET next == link.step + 1 IN
            /\ IF LastStep(next)
                 THEN /\ link' = CloseWindow(link)
                      /\ pc' = Goto("bootclose")
                 ELSE /\ link' = [link EXCEPT !.step = next]
                      /\ pc' = Goto(IF next % 2 = 1 THEN "bootpair"
                                                   ELSE "bootsession")
            /\ q' = Took("BOOT")
  /\ UNCHANGED <<bond, nv, radio, quiesced, hostKey, proven, faults>>

BootWindowListen ==
  /\ pc.at \in {"bootpair", "bootsession", "bootclose"}
  /\ \E ok \in Outcomes :
     /\ radio' = Listen(IF pc.at = "bootpair" THEN "pair" ELSE "session", ok)
     /\ IF pc.at = "bootclose"
          THEN /\ link' = WatchdogOn(link)
               /\ q' = Return(WatchdogTimer(Retry(q, ok)))
          ELSE /\ q' = Return(Arm(q, "BOOT"))
               /\ UNCHANGED link
     /\ Spend(ok)
  /\ pc' = Idle
  /\ UNCHANGED <<bond, nv, quiesced, hostKey, proven>>

\* RF_EVT_CONFIRM_TIMEOUT: the masked claim, then the action on what it saw
ConfirmClaim ==
  /\ Turn("CONFIRM")
  /\ link' = IF link.confirm = "waitRx"
               THEN [link EXCEPT !.confirm = "none", !.state = "pairing",
                                 !.ev10 = FALSE]
               ELSE [link EXCEPT !.confirm = "none"]
  /\ q' = Took("CONFIRM")
  /\ pc' = [Goto("confirm") EXCEPT !.saw = link.confirm]
  /\ UNCHANGED <<bond, nv, radio, quiesced, hostKey, proven, faults>>

ConfirmAct ==
  /\ pc.at = "confirm"
  /\ pc' = Idle
  /\ \/ /\ pc.saw = "waitRx"
        /\ bond' = [bond EXCEPT !.persisted = FALSE]
        /\ link' = FreshPair(link)
        /\ q' = Return(FreshPairQ(q))
        /\ \E ok \in Outcomes : radio' = Listen("session", ok) /\ Spend(ok)
     \/ /\ pc.saw = "waitRearm"
        /\ bond' = ArmPersist(bond)
        /\ LET s == ArmPersistQ(bond, q)
               up == link.state = "connected" /\ ~link.ev10
           IN q' = Return(IF up THEN Supervise(s) ELSE s)
        /\ UNCHANGED <<link, radio, faults>>
     \/ /\ pc.saw = "none"
        /\ q' = Return(q)
        /\ UNCHANGED <<link, bond, radio, faults>>
  /\ UNCHANGED <<nv, quiesced, hostKey, proven>>

\* A terminal camp the watchdog does not look after
Unwatched(l) == Terminal(l) /\ ~l.wd

\* RF_EVT_RX_RESTART: the deferred fallback, the EV10 drop, or the re-arm
RestartFallback ==
  /\ Turn("RESTART") /\ Tmos /\ link.txfail
  /\ link' = FreshPair(link)
  /\ q' = Return(FreshPairQ(Took("RESTART")))
  /\ \E ok \in Outcomes : radio' = Listen("session", ok) /\ Spend(ok)
  /\ UNCHANGED <<bond, nv, pc, quiesced, hostKey, proven>>

RestartDrop ==
  /\ Turn("RESTART") /\ ~(Tmos /\ link.txfail)
  /\ link.ev10 /\ link.state = "pairing"
  /\ q' = Return(Took("RESTART"))
  /\ UNCHANGED <<link, bond, nv, radio, pc, quiesced, hostKey, proven, faults>>

RestartRearm ==
  /\ Turn("RESTART") /\ ~(Tmos /\ link.txfail)
  /\ ~(link.ev10 /\ link.state = "pairing")
  /\ \E ok \in Outcomes : radio' = Listen(radio.aa, ok) /\ Spend(ok)
  /\ q' = Took("RESTART")
  /\ pc' = [Goto("restart") EXCEPT !.saw = link.confirm]
  /\ UNCHANGED <<link, bond, nv, quiesced, hostKey, proven>>

\* The confirmed pair needs neither its latch nor its deadline any more.
DecidedSlip(l) == l                                     \* latch kept
Decided(l)     == [l EXCEPT !.confirm = "none"]

\* The rest of it reads the state again: the sink may have run meanwhile.
RestartFinish ==
  /\ pc.at = "restart"
  /\ LET s0   == Retry(q, ~radio.failed)
         camp == Unwatched(link)
         s1   == IF camp THEN WatchdogTimer(s0) ELSE s0
         l1   == IF camp THEN WatchdogOn(link) ELSE link
         sure == /\ pc.saw = "waitRearm" /\ link.confirm = "waitRearm"
                 /\ ~radio.failed
     IN /\ link' = IF sure THEN Decided(l1) ELSE l1
        /\ bond' = IF sure THEN ArmPersist(bond) ELSE bond
        /\ q' = Return(IF sure
                  THEN Supervise(ArmPersistQ(bond, Cancel(s1, {"CONFIRM"})))
                  ELSE s1)
  /\ pc' = Idle
  /\ UNCHANGED <<nv, radio, quiesced, hostKey, proven, faults>>

\* RF_EVT_POST_POLL_RX
PostPollRx ==
  /\ Turn("POST_RX")
  /\ q' = Return(Took("POST_RX"))
  /\ IF link.state = "connected"
       THEN \E ok \in Outcomes : radio' = Listening(ok) /\ Spend(ok)
       ELSE UNCHANGED <<radio, faults>>
  /\ UNCHANGED <<link, bond, nv, pc, quiesced, hostKey, proven>>

\* RF_EVT_PAIR_PREP: rf_send_pair_prep, one hop of the EV10 scan
PairPrep ==
  /\ Turn("PREP")
  /\ IF link.ev10 /\ link.state = "pairing"
       THEN /\ \E ok \in Outcomes : radio' = Listening(ok) /\ Spend(ok)
            /\ q' = Return(PostDelayed(Took("PREP"), "PREP"))
       ELSE /\ q' = Return(Took("PREP"))
            /\ UNCHANGED <<radio, faults>>
  /\ UNCHANGED <<link, bond, nv, pc, quiesced, hostKey, proven>>

\* RF_EVT_SEND_PAIR_ACK and RF_EVT_POLL, posted by the CH59x timer ISR and
\* dispatched only while the timer's latch is still set
SendPairAck ==
  /\ Turn("ACK")
  /\ IF q.grid # "off" /\ link.ev10 /\ link.state = "pairing"
       THEN /\ q' = Return(GridStart(Took("ACK"), "ACK"))
            /\ \E ok \in Outcomes : radio' = Transmit(radio.aa, ok) /\ Spend(ok)
       ELSE /\ q' = Return(Took("ACK"))
            /\ UNCHANGED <<radio, faults>>
  /\ UNCHANGED <<link, bond, nv, pc, quiesced, hostKey, proven>>

SendPoll ==
  /\ Turn("POLL")
  /\ q' = Return(Took("POLL"))
  /\ IF q.grid # "off" /\ link.state = "connected"
       THEN \E ok \in Outcomes : radio' = Transmit(radio.aa, ok) /\ Spend(ok)
       ELSE UNCHANGED <<radio, faults>>
  /\ UNCHANGED <<link, bond, nv, pc, quiesced, hostKey, proven>>

\* RF_EVT_TX_PAIR_15 and RF_EVT_TX_PAIR_15B: a refused StartTx falls back to
\* the fresh-pair relisten (rf_pair_tx_recover_if_failed).
TxPair(e, aa) ==
  \E ok \in Outcomes :
    /\ IF ok
         THEN /\ radio' = Transmit(aa, TRUE)
              /\ q' = Return(Took(e))
              /\ UNCHANGED <<link, faults>>
         ELSE /\ link' = FreshPair(link)
              /\ q' = Return(FreshPairQ(Took(e)))
              /\ \E ok2 \in Then(ok) :
                   radio' = Listen("session", ok2) /\ SpendBoth(ok, ok2)

TxPair15 ==
  /\ Turn("TX15")
  /\ TxPair("TX15", radio.aa)
  /\ UNCHANGED <<bond, nv, pc, quiesced, hostKey, proven>>

TxPair15B ==
  /\ Turn("TX15B")
  /\ IF link.burst /\ link.idx = 1
       THEN TxPair("TX15B", "session")
       ELSE /\ q' = Return(Took("TX15B"))
            /\ UNCHANGED <<link, radio, faults>>
  /\ UNCHANGED <<bond, nv, pc, quiesced, hostKey, proven>>

\* RF_EVT_TIMEOUT: a scan that gave up, a link still alive, or a lapse
TimeoutAlive ==
  /\ Turn("TIMEOUT") /\ ~link.ev10
  /\ \/ /\ link.state = "connected" /\ link.recent
        /\ q' = Return(Supervise(Took("TIMEOUT")))
     \/ /\ link.state # "connected"
        /\ q' = Return(Took("TIMEOUT"))
  /\ UNCHANGED <<link, bond, nv, radio, pc, quiesced, hostKey, proven, faults>>

Lapsed == Turn("TIMEOUT") /\ ~link.ev10 /\ link.state = "connected"
                          /\ ~link.recent

\* rf_enter_stock_reacquire.  CH570, nobody heard this boot: fresh pair.
ReacquireFresh ==
  /\ Lapsed /\ ~Tmos /\ ~link.heard
  /\ link' = FreshPair(link)
  /\ q' = Return(FreshPairQ(Took("TIMEOUT")))
  /\ \E ok \in Outcomes : radio' = Listen("session", ok) /\ Spend(ok)
  /\ UNCHANGED <<bond, nv, pc, quiesced, hostKey, proven>>

\* CH59x leaves CONNECTED under the mask that sends the keys-up.
LeavesMaskedSlip == FALSE                               \* after it, as on CH570
LeavesMasked     == Tmos

\* rf_send_keys_up_on_link_loss
ReacquireKeysUp ==
  /\ Lapsed /\ (Tmos \/ link.heard)
  /\ hostKey' = FALSE
  /\ link' = IF LeavesMasked THEN [link EXCEPT !.state = "idle"] ELSE link
  /\ q' = Took("TIMEOUT")
  /\ pc' = Goto("reacquire1")
  /\ UNCHANGED <<bond, nv, radio, quiesced, proven, faults>>

ReacquireTeardown ==
  /\ pc.at = "reacquire1"
  /\ link' = [CloseWindow(AbortBurst(link)) EXCEPT !.state = "idle"]
  /\ q' = AbortBurstQ(Cancel(GridStop(q, "POLL"),
                             {"POLL", "POST_RX", "ACK", "PREP"}))
  /\ pc' = GoOn("reacquire2")
  /\ UNCHANGED <<bond, nv, radio, quiesced, hostKey, proven, faults>>

ReacquireScanSlip ==                                    \* no deadline
  /\ pc.at = "reacquire2"
  /\ link' = [link EXCEPT !.ev10 = TRUE, !.state = "pairing"]
  /\ q' = Return(Post(q, "PREP"))
  /\ radio' = [Shut EXCEPT !.aa = "session"]
  /\ pc' = Idle
  /\ UNCHANGED <<bond, nv, quiesced, hostKey, proven, faults>>
ReacquireScan ==
  /\ pc.at = "reacquire2"
  /\ link' = [link EXCEPT !.ev10 = TRUE, !.state = "pairing"]
  /\ q' = Return(Arm(Post(q, "PREP"), "EV10"))
  /\ radio' = [Shut EXCEPT !.aa = "session"]
  /\ pc' = Idle
  /\ UNCHANGED <<bond, nv, quiesced, hostKey, proven, faults>>

\* rf_stock_reacquire_giveup: flags, teardown, masked claim, camp
GiveupStart ==
  /\ Turn("TIMEOUT") /\ link.ev10
  /\ link' = [CloseWindow(link) EXCEPT !.ev10 = FALSE, !.recent = FALSE]
  /\ q' = Took("TIMEOUT")
  /\ pc' = Goto("giveup1")
  /\ UNCHANGED <<bond, nv, radio, quiesced, hostKey, proven, faults>>

GiveupTeardown ==
  /\ pc.at = "giveup1"
  /\ link' = [AbortBurst(link) EXCEPT !.wd = FALSE, !.moved = FALSE]
  /\ q' = AbortBurstQ(Cancel(Disarm(GridStopAll(q), OneShots),
                             {"PREP", "ACK", "POLL", "POST_RX"}))
  /\ pc' = GoOn("giveup2")
  /\ UNCHANGED <<bond, nv, radio, quiesced, hostKey, proven, faults>>

GiveupClaim ==
  /\ pc.at = "giveup2"
  /\ link' = [link EXCEPT !.confirm = "none", !.txfail = FALSE,
                          !.state = IF @ = "connected" THEN "pairing" ELSE @]
  /\ pc' = [GoOn("giveup3") EXCEPT !.saw = link.confirm]
  /\ UNCHANGED <<bond, nv, q, radio, quiesced, hostKey, proven, faults>>

GiveupCamp ==
  /\ pc.at = "giveup3"
  /\ pc' = Idle
  /\ \E ok \in Outcomes :
     /\ radio' = Listen("session", ok)
     /\ Spend(ok)
     /\ IF pc.saw = "waitRx"
          THEN /\ link' = FreshPair(link)
               /\ q' = Return(FreshPairQ(q))
               /\ UNCHANGED bond
          ELSE LET b == IF pc.saw = "waitRearm" THEN ArmPersist(bond) ELSE bond
                   s == IF pc.saw = "waitRearm" THEN ArmPersistQ(bond, q) ELSE q
               IN /\ link' = WatchdogOn([link EXCEPT !.state = "pairing"])
                  /\ bond' = b
                  /\ q' = Return(WatchdogTimer(
                            Retry(Cancel(s, {"CONFIRM"}), ok)))
  /\ UNCHANGED <<nv, quiesced, hostKey, proven>>

-----------------------------------------------------------------------------
(* Interrupt context: the radio completion sink rf_phy_event_sink and the  *)
(* timer ISRs.  Bound: one completion per handler - completions are an air *)
(* frame apart, a handler's points microseconds - but for the flash write, *)
(* which takes milliseconds and allows one between any two of its points.  *)

Preempts == /\ ~quiesced
            /\ ~pc.busy
            /\ pc' = [pc EXCEPT !.busy = (pc.at # "idle")]
Received == Preempts /\ radio.mode = "rx"

\* Every RX completion that leads nowhere: a CRC error, the CH570 30 ms
\* timeout, a beacon the gate rejects, any other frame while not connected.
RxNoise ==
  /\ Received
  /\ radio' = Shut
  /\ q' = Post(q, "RESTART")
  /\ link' = [link EXCEPT !.moved = link.wd]
  /\ UNCHANGED <<bond, nv, quiesced, hostKey, proven, faults>>

\* The same during the EV10 scan, where CH570 re-arms inside the sink
RxScanNoise ==
  /\ Received /\ ~Tmos /\ link.state = "pairing" /\ link.ev10
  /\ link' = [link EXCEPT !.moved = link.wd]
  /\ \E ok \in Outcomes : radio' = Listen(radio.aa, ok) /\ Spend(ok)
  /\ UNCHANGED <<bond, nv, q, quiesced, hostKey, proven>>

\* The LEN-10 pair beacon of keyboard k; near: rf_rssi >= RF_PAIR_MIN_RSSI
PairGateSlip(k, near) == ~bond.tombstone /\ near        \* window not asked
PairGate(k, near) ==
  /\ ~bond.tombstone
  /\ \/ bond.valid /\ bond.peer = k
     \/ (~bond.valid \/ link.pairWin) /\ near

\* A known, verified keyboard on its own session needs no confirmation.
KnownDurableSlip(k) == bond.valid /\ radio.aa = "session" \* whose session?
KnownDurable(k) == /\ bond.valid /\ bond.persisted
                   /\ radio.aa = "session" /\ bond.peer = k

RxPairAccept ==
  /\ Received /\ link.state # "connected" /\ ~link.ev10
  /\ \E k \in Keyboards, near \in BOOLEAN :
     /\ PairGate(k, near)
     /\ bond' = [bond EXCEPT !.peer = k, !.persisted = KnownDurable(k)]
     /\ link' = [CloseWindow(link) EXCEPT !.fresh = ~KnownDurable(k),
                   !.wd = FALSE, !.moved = FALSE, !.burst = TRUE, !.idx = 0]
  /\ LET s == Disarm(q, {"BOOT"})
     IN q' = IF Tmos THEN Post(s, "TX15") ELSE PostDelayed(s, "TX15")
  /\ radio' = Shut
  /\ UNCHANGED <<nv, quiesced, hostKey, proven, faults>>

\* The beacon of the bonded keyboard during the EV10 scan
RxPairRekey ==
  /\ Received /\ link.state = "pairing" /\ link.ev10
  /\ ~bond.tombstone /\ bond.peer # NoPeer
  /\ q' = GridStart(Cancel(q, {"PREP"}), "ACK")
  /\ radio' = Shut
  /\ link' = [link EXCEPT !.moved = link.wd]
  /\ UNCHANGED <<bond, nv, quiesced, hostKey, proven, faults>>

\* The frames that confirm a tentative pair
ConfirmsSlip(kind) == TRUE                              \* any frame at all
ConfirmsPair(kind) == kind # "alien"

\* A frame on the connected link.  "poll" is the LEN-1 reply, "down" and "up"
\* peer-matched reports, "alien" anything else.
RxConnected ==
  /\ Received /\ link.state = "connected"
  /\ \E kind \in {"poll", "down", "up", "alien"} :
     /\ link' = [link EXCEPT !.recent = TRUE, !.heard = ~Tmos, !.moved = link.wd,
                   !.confirm = IF @ = "waitRx" /\ ConfirmsPair(kind)
                                 THEN "waitRearm" ELSE @]
     /\ hostKey' = CASE kind = "down" -> TRUE
                     [] kind = "up"   -> FALSE
                     [] OTHER         -> hostKey
     /\ proven' = IF kind = "alien" THEN proven
                  ELSE proven \cup ({bond.peer} \ {NoPeer})
  /\ q' = Post(Arm(q, "EV10"), "RESTART")
  /\ radio' = Shut
  /\ UNCHANGED <<bond, nv, quiesced, faults>>

Sent == Preempts /\ radio.mode = "tx"

\* First pair ACK done: chain the session-address one.
TxDoneBurst ==
  /\ Sent /\ link.burst /\ link.idx = 0
  /\ link' = [link EXCEPT !.idx = 1]
  /\ q' = PostDelayed(q, "TX15B")
  /\ radio' = Shut
  /\ UNCHANGED <<bond, nv, quiesced, hostKey, proven, faults>>

\* The burst is over but the bond was cleared meanwhile.
TxDoneTombstone ==
  /\ Sent /\ bond.tombstone
  /\ \/ /\ link.burst /\ link.idx = 1
        /\ link' = [AbortBurst(link) EXCEPT !.confirm = "none"]
        /\ q' = Post(Cancel(q, {"CONFIRM"}), "RESTART")
     \/ /\ ~link.burst /\ link.ev10 /\ link.state = "pairing"
        /\ link' = [link EXCEPT !.ev10 = FALSE, !.confirm = "none"]
        /\ q' = Post(Cancel(Disarm(GridStop(q, "ACK"), {"EV10"}),
                            {"PREP", "ACK", "CONFIRM"}), "RESTART")
  /\ radio' = Shut
  /\ UNCHANGED <<bond, nv, quiesced, hostKey, proven, faults>>

\* rf_bond_tombstone vetoes both promotions
MayPromoteSlip == TRUE                                  \* veto forgotten
MayPromote     == ~bond.tombstone

\* Promote after the burst: a fresh pair is tentative until confirmed.
TxDonePromote ==
  /\ Sent /\ link.burst /\ link.idx = 1 /\ MayPromote
  /\ link' = [AbortBurst(link) EXCEPT !.ev10 = FALSE, !.recent = TRUE,
                !.state = "connected",
                !.confirm = IF link.fresh THEN "waitRx" ELSE "none"]
  /\ LET b == CommitRam(bond)
         s == GridStart(q, "POLL")
     IN IF link.fresh
          THEN /\ bond' = b
               /\ q' = Supervise(PostDelayed(s, "CONFIRM"))
          ELSE /\ bond' = ArmPersist(b)
               /\ q' = Supervise(ArmPersistQ(b, s))
  /\ \E ok \in Outcomes : radio' = Listen("session", ok) /\ Spend(ok)
  /\ UNCHANGED <<nv, quiesced, hostKey, proven>>

\* CH570 hands the ACK grid to the polls; CH59x has one timer for both.
HandGridSlip(s) == s                                    \* hand-over missing
HandGrid(s)     == IF Tmos THEN s ELSE GridStart(s, "POLL")

\* Promote after an EV10 re-key
TxDoneRekey ==
  /\ Sent /\ ~link.burst /\ link.ev10 /\ link.state = "pairing"
  /\ MayPromote
  /\ link' = [link EXCEPT !.ev10 = FALSE, !.recent = TRUE,
                          !.state = "connected"]
  /\ q' = HandGrid(Supervise(Cancel(q, {"PREP"})))
  /\ \E ok \in Outcomes : radio' = Listen("session", ok) /\ Spend(ok)
  /\ UNCHANGED <<bond, nv, quiesced, hostKey, proven>>

\* A poll went out: listen for the reply.
TxDonePoll ==
  /\ Sent /\ ~link.burst /\ link.state = "connected"
  /\ IF Tmos
       THEN /\ q' = Post(q, "POST_RX")
            /\ radio' = Shut
            /\ UNCHANGED faults
       ELSE /\ \E ok \in Outcomes : radio' = Listening(ok) /\ Spend(ok)
            /\ UNCHANGED q
  /\ UNCHANGED <<link, bond, nv, quiesced, hostKey, proven>>

TxDoneStray ==
  /\ Sent /\ ~link.burst /\ link.state # "connected"
  /\ ~(link.ev10 /\ link.state = "pairing")
  /\ q' = Post(q, "RESTART")
  /\ radio' = Shut
  /\ UNCHANGED <<link, bond, nv, quiesced, hostKey, proven, faults>>

\* TX_MODE_TX_FAIL, which only the CH59x library raises
TxFail ==
  /\ Sent /\ Tmos /\ faults < MaxFaults
  /\ faults' = faults + 1
  /\ LET scan == link.ev10 /\ link.state = "pairing"
         s    == IF link.burst THEN AbortBurstQ(q) ELSE q
     IN /\ link' = IF link.burst
                     THEN [AbortBurst(link) EXCEPT !.txfail = @ \/ ~scan]
                     ELSE link
        /\ q' = IF scan THEN Post(GridStop(s, "ACK"), "PREP")
                        ELSE Post(s, "RESTART")
  /\ radio' = Shut
  /\ UNCHANGED <<bond, nv, quiesced, hostKey, proven>>

\* The periodic timer on CH59x: rf_tmr0_isr_dispatch posts by rf_state.
GridPosts ==
  /\ ~quiesced /\ Tmos /\ q.grid \in {"POLL", "ACK"}
  /\ q' = IF link.state = "pairing" /\ link.ev10 THEN Post(q, "ACK")
          ELSE IF link.state = "connected"       THEN Post(q, "POLL")
          ELSE GridStart(q, "halted")
  /\ UNCHANGED <<link, bond, nv, radio, pc, quiesced, hostKey, proven, faults>>

\* On CH570 its callback transmits at once: rf_send_poll, rf_send_pair_ack.
GridSends ==
  /\ ~quiesced /\ ~Tmos
  /\ \/ q.grid = "POLL" /\ link.state = "connected"
     \/ q.grid = "ACK" /\ link.ev10 /\ link.state = "pairing"
  /\ \E ok \in Outcomes : radio' = Transmit(radio.aa, ok) /\ Spend(ok)
  /\ UNCHANGED <<link, bond, nv, q, pc, quiesced, hostKey, proven>>

\* One-shot slots and delayed posts, from the TMR ISR on CH570 and the TMOS
\* timer service on CH59x.  All an expiry does is set an event bit that no
\* running handler reads, so it is taken before or after a handler.
Expires == ~quiesced /\ pc.at = "idle" /\ UNCHANGED pc

OneShotFires(t) ==
  /\ Expires
  /\ t \in q.timers
  /\ q' = Post([q EXCEPT !.timers = @ \ {t}], Expiry[t])
  /\ UNCHANGED <<link, bond, nv, radio, quiesced, hostKey, proven, faults>>

DelayFires(e) ==
  /\ Expires
  /\ e \in q.delayed
  /\ q' = Post([q EXCEPT !.delayed = @ \ {e}], e)
  /\ UNCHANGED <<link, bond, nv, radio, quiesced, hostKey, proven, faults>>

-----------------------------------------------------------------------------
(* The main loop's calls into the task, between two runs of the executor   *)

Foreground == pc.at = "idle" /\ q.ev = {} /\ ~quiesced

\* IAP BondClear: bond_clear erases the record, RF_TombstoneBond follows.
\* Once a reboot is pending the IAP handler drops every command.
BondErase ==
  /\ "clear" \in Commands /\ Foreground /\ "QUIESCE" \notin q.pend
  /\ nv' = NoPeer
  /\ pc' = Goto("clear")
  /\ UNCHANGED <<link, bond, q, radio, quiesced, hostKey, proven, faults>>

ClearBondSlip(b) == [b EXCEPT !.tombstone = TRUE, !.valid = FALSE,
                              !.persisted = FALSE]      \* still pending
ClearBond(b)     == [b EXCEPT !.tombstone = TRUE, !.valid = FALSE,
                              !.persisted = FALSE, !.pending = FALSE]

\* RF_TombstoneBond
TombstoneBond ==
  /\ pc.at = "clear"
  /\ bond' = ClearBond(bond)
  /\ q' = Cancel(q, {"PERSIST"})
  /\ pc' = Idle
  /\ UNCHANGED <<link, nv, radio, quiesced, hostKey, proven, faults>>

\* RF_QuiesceRequest
QuiesceRequest ==
  /\ "quiesce" \in Commands /\ Foreground
  /\ q' = Post(q, "QUIESCE")
  /\ UNCHANGED <<link, bond, nv, radio, pc, quiesced, hostKey, proven, faults>>

\* RF_DiagIntervene: rungs 1 and 2 re-arm a terminal camp, rung 3 deafens it
DiagIntervene ==
  /\ "diag" \in Commands /\ Foreground /\ Terminal(link)
  /\ LET s == Cancel(q, {"RESTART"}) IN
     \/ \E ok \in Outcomes :
          /\ radio' = Listen(radio.aa, ok)
          /\ q' = Retry(s, ok)
          /\ Spend(ok)
          /\ UNCHANGED link
     \/ /\ radio' = Shut
        /\ q' = s
        /\ link' = [link EXCEPT !.moved = FALSE]
        /\ UNCHANGED faults
  /\ UNCHANGED <<bond, nv, pc, quiesced, hostKey, proven>>

-----------------------------------------------------------------------------
(* The environment *)

\* Silence long enough for the supervision threshold to pass
Ages ==
  /\ link.recent
  /\ link' = [link EXCEPT !.recent = FALSE]
  /\ UNCHANGED <<bond, nv, q, radio, pc, quiesced, hostKey, proven, faults>>

\* A completion that never comes.  Losing the pair-ACK's own TX_FINISH is the
\* residual the code documents and is left out.
CompletionLost ==
  /\ radio.mode = "rx" \/ (radio.mode = "tx" /\ ~link.burst)
  /\ faults < MaxFaults /\ faults' = faults + 1
  /\ radio' = Shut
  /\ UNCHANGED <<link, bond, nv, q, pc, quiesced, hostKey, proven>>

-----------------------------------------------------------------------------
Handlers ==
  \/ PersistSnapshot \/ Quiesce \/ Start
  \/ CampTick \/ BootWindowStep \/ ConfirmClaim
  \/ RestartFallback \/ RestartDrop \/ RestartRearm \/ PostPollRx \/ PairPrep
  \/ SendPairAck \/ SendPoll \/ TxPair15 \/ TxPair15B
  \/ TimeoutAlive \/ ReacquireFresh \/ ReacquireKeysUp \/ GiveupStart

\* The rest of a handler, or of a foreground call, once it has started
Continues ==
  \/ PersistAlready \/ PersistErase \/ PersistWrite \/ PersistReadback
  \/ BootWindowListen \/ ConfirmAct \/ RestartFinish
  \/ ReacquireTeardown \/ ReacquireScan
  \/ GiveupTeardown \/ GiveupClaim \/ GiveupCamp \/ TombstoneBond

Receives == \/ RxNoise \/ RxScanNoise \/ RxPairAccept \/ RxPairRekey
            \/ RxConnected
Sends    == \/ TxDoneBurst \/ TxDoneTombstone \/ TxDonePromote \/ TxDoneRekey
            \/ TxDonePoll \/ TxDoneStray \/ TxFail
Timers   == \/ GridPosts \/ GridSends
            \/ \E t \in OneShots : OneShotFires(t)
            \/ \E e \in Events : DelayFires(e)
Calls    == BondErase \/ QuiesceRequest \/ DiagIntervene

Next == Handlers \/ Continues \/ Receives \/ Sends \/ Timers \/ Calls
        \/ Ages \/ CompletionLost \/ Reset

Spec == Init /\ [][Next]_vars

\* A transmission ends, a timer whose time has come is served, and handlers
\* (microseconds) outrun the interrupts (air frames), so that between two
\* handlers the event word runs empty again and again: the executor runs, and
\* runs its handlers to completion.
Fairness ==
  /\ WF_vars(Sends)
  /\ []<>(pc.at = "idle" /\ Current = {})
  /\ \A t \in OneShots : SF_vars(OneShotFires(t))
  /\ SF_vars(DelayFires("CONFIRM"))

FairSpec == Spec /\ Fairness

-----------------------------------------------------------------------------
(* Vocabulary of the properties *)

Outstanding(e) == e \in q.pend \cup q.ev \cup q.delayed
\* A one-shot slot that is armed, or whose expiry is still to be handled
Due(t)         == t \in q.timers \/ Outstanding(Expiry[t])
\* Between two handlers, before a reboot is under way
Quiet          == pc.at = "idle" /\ ~quiesced
\* A camp something will bring back to listening
Watched        == Outstanding("RESTART") \/ (link.wd /\ Due("BOOT"))

-----------------------------------------------------------------------------
(* The bond *)

\* Confirm before persist: the record in DataFlash names a keyboard that has
\* been heard on the session address since that record was decided on; a
\* keyboard that only sent a pair beacon never replaces a good bond.
ConfirmBeforePersist == nv # NoPeer => nv \in proven

\* rf_bond_persisted is never stale: while it is set the stored record is the
\* RAM peer's, whatever accept, re-pair, failed write or clear came between.
PersistedMeansStored == bond.persisted /\ pc.at # "clear" => nv = bond.peer

\* A record waiting to be written has its event: none is left behind by a
\* cancelled RF_EVT_PERSIST_BOND.
PendingHasEvent == bond.pending => "PERSIST" \in q.pend \cup q.ev

\* Outside the boot window a bonded dongle never changes keyboards.
WindowLock ==
  [][bond.valid /\ bond'.valid /\ bond.peer # NoPeer /\ ~link.pairWin
       => bond'.peer = bond.peer \/ Reset]_vars

\* After BondClear nothing rewrites the record and no keyboard, not even one
\* half way through its pair-ACK burst, becomes connected before a reboot.
TombstoneFinal ==
  [][bond.tombstone /\ bond'.tombstone =>
       /\ nv' = NoPeer
       /\ link'.state = "connected" => link.state = "connected"]_vars

-----------------------------------------------------------------------------
(* Deadlines: every state that waits has something that will end the wait  *)

\* A tentative pair always has its confirm deadline.
ConfirmHasDeadline == Quiet /\ link.confirm # "none" => Outstanding("CONFIRM")

\* A connected link and an EV10 scan always have the supervision timer.
LinkSupervised == Quiet /\ (link.state = "connected" \/ link.ev10) => Due("EV10")

\* An open boot window always has its next tick.
WindowTicks == Quiet /\ link.boot => Due("BOOT")

\* A terminal camp has the liveness watchdog, or a restart that will start it.
CampWatched == Quiet /\ Terminal(link) => Watched

\* Outside a scan, a latched pair-ACK burst has its next transmission posted
\* or on the air.
BurstDriven == Quiet /\ link.burst /\ ~link.ev10 =>
                 \/ Outstanding("TX15") \/ Outstanding("TX15B")
                 \/ radio.mode = "tx"

\* A connected link is being polled.
PollsRun == Quiet /\ link.state = "connected" =>
              q.grid \in IF Tmos THEN {"POLL", "ACK"} ELSE {"POLL"}

\* No key is left down at the host once the link is not connected.
NoStuckKey == Quiet /\ link.state # "connected" => ~hostKey

\* After RF_EVT_QUIESCE nothing of the task runs again and nothing transmits
\* or waits to be written: the reboot cannot cut a flash write.
QuiesceSilent ==
  quiesced /\ pc.at = "idle" =>
    /\ radio.mode = "off"
    /\ q.timers = {} /\ q.delayed = {} /\ q.grid = "off" /\ q.ev = {}
    /\ ~bond.pending

-----------------------------------------------------------------------------
(* Liveness *)

\* A connected keyboard that falls silent is noticed: the link is left, or
\* the keyboard is heard again.
LapseNoticed == link.state = "connected" /\ ~link.recent
                  ~> link.state # "connected" \/ link.recent

\* An EV10 scan ends, in a link or in a camp.
ScanEnds == link.ev10 ~> ~link.ev10

\* A boot window closes, however much of it is spent on noise.
WindowCloses == link.boot ~> ~link.boot

\* A tentative pair is decided.
ConfirmSettles == link.confirm # "none" ~> link.confirm = "none"

\* A pair the keyboard confirmed reaches the DataFlash, through whichever of
\* the three paths (restart, deadline, give-up) takes it over, unless the host
\* clears the bond.
ProvenKept == link.confirm = "waitRearm"
                ~> bond.persisted \/ bond.peer = NoPeer \/ bond.tombstone

\* The camp whose watchdog the restart has still to start (a burst has just ended
\* without a link) when the diagnostic's third rung cancels that restart: the code
\* leaves it deaf until a reset or another command.
Orphaned == Quiet /\ Terminal(link) /\ ~link.wd /\ ~Outstanding("RESTART")

\* A terminal camp with the radio off listens again, wherever it came from (boot,
\* closed window, give-up, cleared bond, end of a burst) and however often the
\* diagnostic deafens it, unless that orphans it.
CampHeals == Terminal(link) /\ radio.mode = "off"
               ~> ~Terminal(link) \/ radio.mode = "rx" \/ Orphaned

-----------------------------------------------------------------------------
(* The inductive invariant behind ConfirmBeforePersist *)

\* Until RF_EVT_START is handled nothing is armed and nothing was decided.
Unstarted ==
  "START" \in q.pend =>
    /\ q.pend \subseteq {"START", "QUIESCE"}
    /\ q.ev = {} /\ q.delayed = {} /\ q.timers = {} /\ q.grid = "off"
    /\ link.state = "idle" /\ ~link.ev10 /\ ~link.burst /\ ~link.pairWin
    /\ link.confirm = "none"
    /\ bond.rec = NoPeer /\ ~bond.pending
    /\ radio.mode = "off"
    /\ pc.at \in {"idle", "clear"} /\ ~quiesced
StartOnce == "START" \notin q.ev \cup q.delayed

\* While any keyboard may still take the bond over, nothing rests on it.
OpenWindow ==
  link.pairWin => /\ bond.rec = NoPeer /\ ~link.burst
                  /\ link.confirm = "none"

\* The record committed in RAM is the current peer's, and locks it.
RecordIsPeer ==
  bond.rec # NoPeer /\ ~bond.tombstone => bond.valid /\ bond.rec = bond.peer

\* A tentative pair has committed its record; once confirmed it is proven.
Tentative ==
  ~bond.tombstone =>
    /\ link.confirm # "none" => bond.rec # NoPeer
    /\ link.confirm = "waitRearm" => bond.rec \in proven
    /\ pc.at \in {"confirm", "giveup3"} /\ pc.saw = "waitRearm"
         => bond.rec \in proven

\* A burst answers some keyboard; one that needs no confirmation rests on a
\* stored bond.
KnownBurst ==
  link.burst /\ ~bond.tombstone =>
    bond.peer # NoPeer /\ (link.fresh \/ bond.persisted)

\* What waits to be written is proven, and so is what is being written.
WriteIsProven ==
  /\ ~bond.tombstone /\ (bond.pending \/ "PERSIST" \in q.pend \cup q.ev)
       => bond.rec \in proven
  /\ "PERSIST" \notin q.delayed
  /\ pc.at \in {"persist1", "persist2", "persist3"} => pc.want \in proven

\* The conjunction the proof carries through every step.
BondInvariant ==
  /\ Unstarted /\ StartOnce /\ OpenWindow /\ RecordIsPeer
  /\ Tentative /\ KnownBurst /\ WriteIsProven /\ ConfirmBeforePersist

-----------------------------------------------------------------------------
(* The inductive invariant behind the deadlines *)

\* An event is owed if it is posted or delayed, or its one-shot slot is armed.
Owes(s, e) ==
  \/ e \in s.pend \cup s.ev \cup s.delayed
  \/ e = "TIMEOUT" /\ "EV10" \in s.timers
  \/ e = "BOOT" /\ "BOOT" \in s.timers

\* The CH570 write outside a connection, between its teardown and its restart
TornDown == pc.at = "persist2" /\ ~Tmos /\ ~pc.conn

\* From RF_EVT_QUIESCE on only its own write goes on, and then nothing.
Hushed ==
  quiesced =>
    /\ ~bond.pending /\ pc.at \in {"idle", "persist1", "persist2", "persist3"}
    /\ pc.at = "idle" =>
         /\ q.pend = {} /\ q.ev = {} /\ q.delayed = {} /\ q.timers = {}
         /\ q.grid = "off" /\ radio.mode = "off"

PendingOwed == bond.pending => Owes(q, "PERSIST")

\* The give-up's claim is final: a burst the sink starts after its teardown
\* used up the one preemption, so no promotion comes between claim and camp.
ConfirmOwed ==
  /\ ~quiesced /\ link.confirm # "none" => Owes(q, "CONFIRM")
  /\ pc.at \in {"giveup2", "giveup3"} /\ link.burst => pc.busy
  /\ pc.at = "giveup3" => link.confirm = "none"

\* A window is open only while nothing else is going on.
WindowShape ==
  /\ link.boot => link.state = "pairing" /\ ~link.ev10 /\ ~link.burst
  /\ link.ev10 => link.state # "connected"
  /\ pc.at = "reacquire2" => ~link.boot
  /\ pc.at \in {"giveup1", "giveup2", "giveup3"} => ~link.ev10

ScanOwed ==
  /\ ~quiesced /\ ~TornDown
  /\ pc.at \notin {"reacquire1", "reacquire2", "giveup2", "giveup3"}
  /\ link.state = "connected" \/ link.ev10
  => Owes(q, "TIMEOUT")

\* The boot window and the camp watchdog share a slot, and either needs it.
TickOwed ==
  /\ ~quiesced /\ ~TornDown
  /\ pc.at \notin {"bootpair", "bootsession", "bootclose", "giveup2", "giveup3"}
  /\ link.boot \/ link.wd
  => Owes(q, "BOOT")

CampOwed ==
  /\ Terminal(link) /\ ~TornDown
  /\ pc.at \notin {"bootclose", "restart", "giveup1", "giveup2", "giveup3"}
  /\ ~(pc.at = "confirm" /\ pc.saw = "waitRx")
  => Owes(q, "RESTART") \/ link.wd

\* RF_DiagIntervene's third rung deafens a camp on purpose.
DeadlineInvariant ==
  /\ Hushed /\ PendingOwed /\ ConfirmOwed /\ WindowShape /\ ScanOwed /\ TickOwed
  /\ "diag" \notin Commands => CampOwed
=============================================================================
