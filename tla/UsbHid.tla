------------------------------- MODULE UsbHid -------------------------------
(***************************************************************************)
(* The HID half of the USB device (firmware/common/src/usb_device.c) and   *)
(* the two ways a radio report reaches it (ch592/src/main.c, directly from *)
(* the radio callback; ch570/src/main.c, through a one-slot latch the main *)
(* loop empties).                                                          *)
(*                                                                         *)
(* Endpoint 1, the boot keyboard, has a queue; endpoints 2 (mouse) and 3   *)
(* (consumer) hold one report.  The bus suspends, resumes and resets; the  *)
(* interrupt that tells the device runs later; the main loop flushes       *)
(* stale keys after a resume and drives remote wake.  Control transfers    *)
(* other than SET_CONFIGURATION and the FEATURE requests, data toggles,    *)
(* and the vendor pipe on endpoint 6 are left out.                         *)
(*                                                                         *)
(* An operator named ...Slip is a wrong variant of the definition after    *)
(* it; the specification uses none.                                        *)
(***************************************************************************)
EXTENDS Naturals, Sequences, FiniteSets

CONSTANTS
  Deferred,  \* TRUE: CH570, reports pass through the latch of the main loop
  Keys,      \* keyboard states with a key down
  Up,        \* every key, button or usage released
  Others,    \* change-driven endpoints in play: subset of {2, 3}
  Slots,     \* DONGLE_EP1_QUEUE_SLOTS: 4 on CH59x, 2 on CH570
  Halts,     \* endpoints whose halt the host may clear
  Detaches   \* TRUE: the host may select configuration 0

ASSUME KeysAssumption     == Up \notin Keys
ASSUME SlotsAssumption    == Slots \in Nat /\ Slots >= 2
ASSUME EndpointAssumption == Others \subseteq {2, 3} /\ Halts \subseteq {1} \cup Others
ASSUME FlagAssumption     == {Deferred, Detaches} \subseteq BOOLEAN

VARIABLES
  conf,      \* usb_config
  bus,       \* what the wire does; RB_UMS_SUSPEND is bus = "suspended"
  susp,      \* usb_suspended
  irq,       \* bus interrupts raised and not yet served
  kq,        \* usb_kbd_q between head and tail
  owned,     \* usb_kbd_q_owned: a transfer is in flight and owns the head
  ep,        \* per endpoint: T_RES = ACK, collected but not yet served, buffer;
             \* and history: was the newest report lost to the NAK of an
             \* interrupt or a cleared halt (or armed too late to escape it)
  resume,    \* usb_resume_clear_kbd
  rec,       \* usb_reconcile_ep1, _ep2, _ep3
  wake,      \* usb_remote_wakeup, usb_wake_request, usb_wake_inflight
  latch,     \* hid_fwd_pending, _tag, _body (CH570)
  pc,        \* the main-loop call in progress between two interrupt points
  host,      \* per endpoint: the state the host saw last
  src,       \* per endpoint: the state the keyboard reported last
  episode    \* history of this suspend episode: was a wake asked for, pulses

vars == <<conf, bus, susp, irq, kq, owned, ep, resume, rec, wake, latch, pc,
          host, src, episode>>

-----------------------------------------------------------------------------
(* Data *)

States == Keys \cup {Up}
Eps    == {1} \cup Others
Points == {"idle", "poll", "keyboard", "others", "wake", "drive", "pulse", "lost", "forward"}

Endpoints == [Eps -> [ack: BOOLEAN, done: BOOLEAN, buf: States, lost: BOOLEAN]]
Reports   == [full: BOOLEAN, at: Eps, val: States]

NoLatch == [full |-> FALSE, at |-> 1, val |-> Up]
Awake   == [asked |-> FALSE, pulses |-> 0]

TypeOK ==
  /\ conf \in BOOLEAN /\ susp \in BOOLEAN /\ owned \in BOOLEAN
  /\ resume \in BOOLEAN
  /\ bus \in {"active", "suspended"}
  /\ irq \in [reset: BOOLEAN, edge: BOOLEAN]
  /\ kq \in Seq(States) /\ Len(kq) <= Slots
  /\ ep \in Endpoints
  /\ rec \in SUBSET Eps
  /\ wake \in [armed: BOOLEAN, request: BOOLEAN, inflight: BOOLEAN]
  /\ latch \in Reports
  /\ pc \in [at: Points, left: SUBSET Others, edged: BOOLEAN]
  /\ host \in [Eps -> States]
  /\ src \in [Eps -> States]
  /\ episode \in [asked: BOOLEAN, pulses: 0 .. 2]

Init ==
  /\ conf = FALSE /\ susp = FALSE /\ owned = FALSE /\ resume = FALSE
  /\ bus = "active"
  /\ irq = [reset |-> FALSE, edge |-> FALSE]
  /\ kq = <<>>
  /\ ep = [e \in Eps |-> [ack |-> FALSE, done |-> FALSE, buf |-> Up, lost |-> FALSE]]
  /\ rec = {}
  /\ wake = [armed |-> FALSE, request |-> FALSE, inflight |-> FALSE]
  /\ latch = NoLatch
  /\ pc = [at |-> "idle", left |-> {}, edged |-> FALSE]
  /\ host = [e \in Eps |-> Up]
  /\ src = [e \in Eps |-> Up]
  /\ episode = Awake

-----------------------------------------------------------------------------
(* Shared helpers; the caller masks interrupts *)

\* usb_effective_suspended: the flag, or the wire before its interrupt ran
Suspended == susp \/ bus = "suspended"

Collected == {e \in Eps : ep[e].done}
Served    == Collected = {} /\ ~irq.reset /\ ~irq.edge

\* usb_kbd_q_push
Newest(q) == q[Len(q)]
PushOverSlip(q, k) ==                                   \* never full
  IF q # <<>> /\ Newest(q) = k THEN q ELSE Append(q, k)
PushSlip(q, k) ==                                       \* full: dropped
  IF Len(q) < Slots /\ (q = <<>> \/ Newest(q) # k) THEN Append(q, k) ELSE q
PushHeadSlip(q, k) ==                                   \* full: the head goes
  IF q # <<>> /\ Newest(q) = k THEN q
  ELSE IF Len(q) < Slots THEN Append(q, k) ELSE [q EXCEPT ![1] = k]
Push(q, k) ==
  IF q # <<>> /\ Newest(q) = k THEN q
  ELSE IF Len(q) < Slots THEN Append(q, k)
  ELSE [q EXCEPT ![Len(q)] = k]

Nak(eps, E) == [e \in Eps |-> [eps[e] EXCEPT !.ack = @ /\ e \notin E]]

\* usb_ep1_service: arm the head, unless one is in flight, nothing is queued,
\* or the host does not collect.
Serves(q, own) == ~own /\ q # <<>> /\ conf /\ ~Suspended
Service(q, own, eps) ==
  /\ kq' = q
  /\ owned' = (own \/ Serves(q, own))
  /\ ep' = IF Serves(q, own)
             THEN [eps EXCEPT ![1].ack = TRUE, ![1].buf = Head(q)] ELSE eps

\* The side effect of usb_hid_in_ready
AsksWake == conf /\ Suspended /\ wake.armed
AskWake ==
  /\ wake' = [wake EXCEPT !.request = @ \/ AsksWake]
  /\ episode' = [episode EXCEPT !.asked = @ \/ AsksWake]

\* USB_SendKeyboard
SendKeyboard(k) ==
  /\ AskWake
  /\ rec' = IF conf THEN rec \ {1} ELSE rec
  /\ Service(IF conf THEN Push(kq, k) ELSE kq, owned, ep)

\* Endpoints 2 and 3 are armed whether or not the host has just collected
\* what they held and the interrupt for it is still to come.
Armed(e, v) == [ep EXCEPT ![e] = [@ EXCEPT !.ack = TRUE, !.buf = v, !.lost = ep[e].done]]

\* usb_arm_mouse, usb_arm_composite with a fresh report
SendOther(e, v) ==
  /\ AskWake
  /\ IF conf /\ ~Suspended
       THEN /\ rec' = rec \ {e}
            /\ ep' = Armed(e, v)
       ELSE UNCHANGED <<rec, ep>>
  /\ UNCHANGED <<kq, owned>>

Send(e, v) == IF e = 1 THEN SendKeyboard(v) ELSE SendOther(e, v)

\* An unmasked statement of the main loop runs only when no interrupt waits.
Unmasked == Served
Goto(p)  == [pc EXCEPT !.at = p, !.left = {}, !.edged = @ /\ p # "idle"]

-----------------------------------------------------------------------------
(* Radio side.  Bound: reports are an air frame (875 us) apart and the main *)
(* loop empties the latch within microseconds, unless it is in the 2 ms    *)
(* pulse of a remote wake.                                                 *)

\* Reports end before the link-loss handler starts; RfLink checks that race.
LosingLink == pc.at \in {"lost", "forward"}

\* usb_hid_callback of ch592: the endpoint is armed in the radio's context
ReportDirect(e, v) ==
  /\ ~Deferred /\ ~LosingLink
  /\ src' = [src EXCEPT ![e] = v]
  /\ Send(e, v)
  /\ UNCHANGED <<conf, bus, susp, irq, resume, latch, pc, host>>

\* usb_hid_callback of ch570: the newest report takes the one slot
ReportLatch(e, v) ==
  /\ Deferred /\ ~LosingLink
  /\ latch.full => pc.at = "pulse"
  /\ src' = [src EXCEPT ![e] = v]
  /\ latch' = [full |-> TRUE, at |-> e, val |-> v]
  /\ UNCHANGED <<conf, bus, susp, irq, kq, owned, ep, resume, rec, wake, pc,
                 host, episode>>

\* usb_hid_forward_pump
ForwardPump ==
  /\ pc.at = "idle" /\ latch.full
  /\ latch' = NoLatch
  /\ IF conf THEN Send(latch.at, latch.val)
             ELSE UNCHANGED <<kq, owned, ep, rec, wake, episode>>
  /\ UNCHANGED <<conf, bus, susp, irq, resume, pc, host, src>>

\* rf_send_keys_up_on_link_loss: USB_ClearPendingKeyboard queues the release
\* behind whatever is still owed to the host, without asking for a wake ...
LinkLost ==
  /\ pc.at = "idle" /\ ~latch.full
  /\ src' = [src EXCEPT ![1] = Up]
  /\ Service(IF conf THEN Push(kq, Up) ELSE kq, owned, ep)
  /\ pc' = Goto("lost")
  /\ UNCHANGED <<conf, bus, susp, irq, resume, rec, wake, latch, host, episode>>

\* ... and unless the bus is suspended the callback forwards another one.
LinkLostCheck ==
  /\ pc.at = "lost"
  /\ pc' = Goto(IF Suspended THEN "idle" ELSE "forward")
  /\ UNCHANGED <<conf, bus, susp, irq, kq, owned, ep, resume, rec, wake, latch,
                 host, src, episode>>

LinkLostForward ==
  /\ pc.at = "forward"
  /\ pc' = Goto("idle")
  /\ IF Deferred
       THEN /\ latch' = [full |-> TRUE, at |-> 1, val |-> Up]
            /\ UNCHANGED <<kq, owned, ep, rec, wake, episode>>
       ELSE SendKeyboard(Up) /\ UNCHANGED latch
  /\ UNCHANGED <<conf, bus, susp, irq, resume, host, src>>

-----------------------------------------------------------------------------
(* Main loop: the resume half of USB_PollEP6, and USB_ServiceRemoteWake     *)

\* The unmasked test, then the clear and three masked flushes, each its own
\* step: the interrupts below run in between.
PollResume ==
  /\ Unmasked /\ pc.at = "idle" /\ resume /\ conf
  /\ pc' = Goto("poll")
  /\ UNCHANGED <<conf, bus, susp, irq, kq, owned, ep, resume, rec, wake, latch,
                 host, src, episode>>

PollClear ==
  /\ Unmasked /\ pc.at = "poll"
  /\ resume' = FALSE
  /\ pc' = Goto("keyboard")
  /\ UNCHANGED <<conf, bus, susp, irq, kq, owned, ep, rec, wake, latch, host,
                 src, episode>>

\* usb_reconcile_keyboard: what was queued while suspended, else a keys-up
FlushesKeys == 1 \in rec /\ conf /\ ~Suspended

ReconcileKeyboard ==
  /\ pc.at = "keyboard"
  /\ IF FlushesKeys
       THEN /\ rec' = rec \ {1}
            /\ Service(IF kq = <<>> THEN Push(kq, Up) ELSE kq, owned, ep)
       ELSE UNCHANGED <<rec, kq, owned, ep>>
  /\ pc' = IF Others = {} THEN Goto("idle")
                          ELSE [Goto("others") EXCEPT !.left = Others]
  /\ UNCHANGED <<conf, bus, susp, irq, resume, wake, latch, host, src, episode>>

\* usb_arm_mouse, then usb_arm_composite, with reconcile = 1
Flushes(e) == e \in rec /\ conf /\ ~Suspended

ReconcileOther ==
  /\ pc.at = "others"
  /\ \E e \in pc.left :
       /\ \A f \in pc.left : e <= f
       /\ IF Flushes(e)
            THEN /\ rec' = rec \ {e}
                 /\ ep' = Armed(e, Up)
            ELSE UNCHANGED <<rec, ep>>
       /\ pc' = IF pc.left = {e} THEN Goto("idle")
                ELSE [Goto("others") EXCEPT !.left = pc.left \ {e}]
  /\ UNCHANGED <<conf, bus, susp, irq, kq, owned, resume, wake, latch, host,
                 src, episode>>

\* The unmasked test of usb_wake_request
WakeCheck ==
  /\ Unmasked /\ pc.at = "idle" /\ wake.request
  /\ pc' = Goto("wake")
  /\ UNCHANGED <<conf, bus, susp, irq, kq, owned, ep, resume, rec, wake, latch,
                 host, src, episode>>

\* The masked decision
MayDriveSlip == wake.request /\ wake.armed              \* no one-shot latch
MayDrive     == wake.request /\ wake.armed /\ ~wake.inflight

WakeClaim ==
  /\ pc.at = "wake"
  /\ IF ~Suspended
       THEN wake' = [wake EXCEPT !.request = FALSE] /\ pc' = Goto("idle")
     ELSE IF MayDrive
       THEN /\ wake' = [wake EXCEPT !.request = FALSE, !.inflight = TRUE]
            /\ pc' = Goto("drive")
       ELSE UNCHANGED wake /\ pc' = Goto("idle")
  /\ UNCHANGED <<conf, bus, susp, irq, kq, owned, ep, resume, rec, latch, host,
                 src, episode>>

\* The re-check, and hal_usb_remote_wakeup
WakeDrive ==
  /\ Unmasked /\ pc.at = "drive"
  /\ IF Suspended
       THEN /\ pc' = Goto("pulse")
            /\ episode' = [episode EXCEPT !.pulses = IF @ = 2 THEN 2 ELSE @ + 1]
       ELSE pc' = Goto("idle") /\ UNCHANGED episode
  /\ UNCHANGED <<conf, bus, susp, irq, kq, owned, ep, resume, rec, wake, latch,
                 host, src>>

PulseEnds ==
  /\ Unmasked /\ pc.at = "pulse"
  /\ pc' = Goto("idle")
  /\ UNCHANGED <<conf, bus, susp, irq, kq, owned, ep, resume, rec, wake, latch,
                 host, src, episode>>

-----------------------------------------------------------------------------
(* USB_IRQHandler: TRANSFER first, then BUS_RST, then SUSPEND              *)

\* EP1 IN: retire the entry that was in flight, arm the next.
RetireSlip(q) == q                                      \* head not advanced
Retire(q)     == IF q = <<>> THEN q ELSE Tail(q)

TransferKeyboard ==
  /\ ep[1].done
  /\ LET eps == [ep EXCEPT ![1].ack = FALSE, ![1].done = FALSE]
     IN Service(IF owned THEN Retire(kq) ELSE kq, FALSE, eps)
  /\ UNCHANGED <<conf, bus, susp, irq, resume, rec, wake, latch, pc, host, src,
                 episode>>

\* EP2, EP3 IN: NAK whatever the endpoint now holds, a newer report included.
TransferOther(e) ==
  /\ ep[e].done
  /\ ep' = [ep EXCEPT ![e].ack = FALSE, ![e].done = FALSE]
  /\ UNCHANGED <<conf, bus, susp, irq, kq, owned, resume, rec, wake, latch, pc,
                 host, src, episode>>

\* USB_BusReset
BusResetIsr ==
  /\ Collected = {} /\ irq.reset
  /\ conf' = FALSE /\ susp' = FALSE /\ owned' = FALSE /\ resume' = FALSE
  /\ kq' = <<>>
  /\ ep' = Nak(ep, Eps)
  /\ rec' = {}
  /\ wake' = [armed |-> FALSE, request |-> FALSE, inflight |-> FALSE]
  /\ irq' = [irq EXCEPT !.reset = FALSE]
  /\ UNCHANGED <<bus, latch, pc, host, src, episode>>

\* USB_SuspendResume, suspend: NAK the HID endpoints; the cancelled keyboard
\* transfer keeps its entry at the head.
CancelledSlip == owned                                  \* ownership kept
Cancelled     == FALSE
SuspendIsr ==
  /\ Collected = {} /\ ~irq.reset /\ irq.edge /\ bus = "suspended"
  /\ susp' = TRUE
  /\ ep' = Nak(ep, Eps)
  /\ owned' = Cancelled
  /\ irq' = [irq EXCEPT !.edge = FALSE]
  /\ UNCHANGED <<conf, bus, kq, resume, rec, wake, latch, pc, host, src, episode>>

\* The wake episode is over.
WakeOverRequestSlip  == [wake EXCEPT !.inflight = FALSE] \* request kept
WakeOverInflightSlip == [wake EXCEPT !.request = FALSE]  \* latch kept
WakeOver             == [wake EXCEPT !.request = FALSE, !.inflight = FALSE]

\* USB_SuspendResume, resume: ask the main loop for the flushes.
ReconciledSlip == {1}                                   \* keyboard only
Reconciled     == Eps
ResumeIsr ==
  /\ Collected = {} /\ ~irq.reset /\ irq.edge /\ bus = "active"
  /\ resume' = (resume \/ susp)
  /\ rec' = IF susp THEN Reconciled ELSE rec
  /\ susp' = FALSE
  /\ wake' = WakeOver
  /\ irq' = [irq EXCEPT !.edge = FALSE]
  /\ UNCHANGED <<conf, bus, kq, owned, ep, latch, pc, host, src, episode>>

-----------------------------------------------------------------------------
(* The host.  Its control requests are served by USB_EP0_Setup in the same *)
(* interrupt; RB_UC_INT_BUSY keeps the bus NAKed until the last transfer's *)
(* interrupt has been served.                                              *)

Listens == bus = "active" /\ Served

\* An IN token collects what the endpoint holds.
HostPoll(e) ==
  /\ Listens /\ conf /\ ep[e].ack
  /\ host' = [host EXCEPT ![e] = ep[e].buf]
  /\ ep' = [ep EXCEPT ![e].done = TRUE]
  /\ UNCHANGED <<conf, bus, susp, irq, kq, owned, resume, rec, wake, latch, pc,
                 src, episode>>

\* SET_CONFIGURATION; a host that drops the configuration drops its keys.
SetConfiguration(c) ==
  /\ Listens /\ c # conf /\ (~c => Detaches)
  /\ conf' = c
  /\ host' = IF c THEN host ELSE [e \in Eps |-> Up]
  /\ UNCHANGED <<bus, susp, irq, kq, owned, ep, resume, rec, wake, latch, pc,
                 src, episode>>

\* SET_FEATURE and CLEAR_FEATURE(DEVICE_REMOTE_WAKEUP)
SetFeature(b) ==
  /\ Listens /\ conf /\ b # wake.armed
  /\ wake' = [wake EXCEPT !.armed = b]
  /\ UNCHANGED <<conf, bus, susp, irq, kq, owned, ep, resume, rec, latch, pc,
                 host, src, episode>>

\* CLEAR_FEATURE(ENDPOINT_HALT): the keyboard's report is armed again, that of
\* another endpoint is not.
ClearHaltSlip(e) ==                                     \* not armed again
  /\ Listens /\ conf
  /\ ep' = Nak(ep, {e})
  /\ owned' = (owned /\ e # 1)
  /\ UNCHANGED <<conf, bus, susp, irq, kq, resume, rec, wake, latch, pc, host,
                 src, episode>>
ClearHalt(e) ==
  /\ Listens /\ conf
  /\ IF e = 1 THEN Service(kq, FALSE, Nak(ep, {1}))
              ELSE /\ ep' = [Nak(ep, {e}) EXCEPT ![e].lost = @ \/ ep[e].ack]
                   /\ UNCHANGED <<kq, owned>>
  /\ UNCHANGED <<conf, bus, susp, irq, resume, rec, wake, latch, pc, host, src,
                 episode>>

\* Edges of the bus.  A suspend takes 3 ms of idle bus and a resume 20 ms, so
\* the interrupt of one edge is served before the next edge, and at most one
\* falls within a call of the main loop.
Edge == /\ Served
        /\ ~pc.edged
        /\ pc' = [pc EXCEPT !.edged = pc.at # "idle"]

Suspend ==
  /\ Edge /\ bus = "active"
  /\ bus' = "suspended"
  /\ irq' = [irq EXCEPT !.edge = TRUE]
  /\ episode' = Awake
  /\ UNCHANGED <<conf, susp, kq, owned, ep, resume, rec, wake, latch, host, src>>

Resume ==
  /\ Edge /\ bus = "suspended"
  /\ bus' = "active"
  /\ irq' = [irq EXCEPT !.edge = TRUE]
  /\ UNCHANGED <<conf, susp, kq, owned, ep, resume, rec, wake, latch, host, src,
                 episode>>

BusReset ==
  /\ Edge
  /\ bus' = "active"
  /\ irq' = [reset |-> TRUE, edge |-> bus = "suspended"]
  /\ host' = [e \in Eps |-> Up]
  /\ UNCHANGED <<conf, susp, kq, owned, ep, resume, rec, wake, latch, src,
                 episode>>

-----------------------------------------------------------------------------
Radio == \/ \E e \in Eps, v \in States : ReportDirect(e, v) \/ ReportLatch(e, v)
         \/ LinkLost \/ LinkLostCheck \/ LinkLostForward
MainLoop == \/ ForwardPump \/ PollResume \/ PollClear \/ ReconcileKeyboard
            \/ ReconcileOther \/ WakeCheck \/ WakeClaim \/ WakeDrive \/ PulseEnds
Interrupts == \/ TransferKeyboard \/ \E e \in Others : TransferOther(e)
              \/ BusResetIsr \/ SuspendIsr \/ ResumeIsr
Host == \/ \E e \in Eps : HostPoll(e)
        \/ \E c \in BOOLEAN : SetConfiguration(c) \/ SetFeature(c)
        \/ \E e \in Halts : ClearHalt(e)
        \/ Suspend \/ Resume \/ BusReset

Next == Radio \/ MainLoop \/ Interrupts \/ Host

Spec == Init /\ [][Next]_vars

\* Interrupts are served, the main loop goes round and visits each of its
\* calls, and a configured host polls the keyboard while the bus is active.
Fairness ==
  /\ WF_vars(Interrupts)
  /\ WF_vars(LinkLostCheck) /\ WF_vars(LinkLostForward)
  /\ WF_vars(PollClear)
  /\ WF_vars(ReconcileKeyboard) /\ WF_vars(ReconcileOther)
  /\ WF_vars(WakeClaim) /\ WF_vars(WakeDrive) /\ WF_vars(PulseEnds)
  /\ SF_vars(PollResume) /\ SF_vars(WakeCheck) /\ SF_vars(ForwardPump)
  /\ SF_vars(HostPoll(1))

FairSpec == Spec /\ Fairness

-----------------------------------------------------------------------------
(* What should hold *)

\* Nothing is in progress and the host is collecting.
Calm == /\ Served /\ bus = "active" /\ conf
        /\ pc.at = "idle" /\ ~resume /\ ~latch.full

\* No key is stuck: once the queue is empty the host holds what the keyboard
\* holds, or nothing - whatever suspend, resume, halt or link loss cut short.
KeysSettle == Calm /\ kq = <<>> => host[1] \in {src[1], Up}

\* No button or media key is stuck, though their reports are not queued and a
\* suspend drops them - unless a NAK dropped the newest report or flush, and
\* then only until the next one.
OthersSettle ==
  Calm => \A e \in Others : ~ep[e].ack /\ ~ep[e].lost => host[e] \in {src[e], Up}

\* What usb_device.c (938-942) says of these endpoints: two reports within a
\* frame "coalesce/replace rather than queue", which is "benign": a report
\* gives way to a newer one only, so that the newest one is never lost.
NewestSurvives ==
  Calm => \A e \in Others : ~ep[e].ack => host[e] \in {src[e], Up}

\* The queue is never left waiting for a report that may never come: while
\* it holds a state and the host collects, that state is armed.
QueueArmed == Calm /\ kq # <<>> => owned /\ ep[1].ack

\* A transfer in flight is always the head of the queue, so its completion
\* retires the state the host was given.
HeadInFlight ==
  /\ owned <=> ep[1].ack
  /\ ep[1].done => ep[1].ack
  /\ owned => kq # <<>> /\ ep[1].buf = Head(kq)

\* The host is woken at most once per suspend episode, and only when some
\* report of that episode asked for it under the host's permission.
WakeOnce == episode.pulses <= 1
WakeAsked ==
  [][episode'.pulses > episode.pulses => episode.asked /\ wake.armed]_vars

\* The queue implements the abstract channel.
Channel == INSTANCE KeyChannel WITH
  chan <- IF irq.reset THEN <<>>
          ELSE IF ep[1].done THEN Tail(kq) ELSE kq,
  seen <- host[1]
DeliversInOrder == Channel!Spec

\* A report that asks for a wake gets its pulse, or the bus wakes by itself.
WakeAnswered ==
  episode.asked /\ bus = "suspended" /\ wake.armed
    ~> episode.pulses > 0 \/ bus = "active"

\* The oldest queued state is collected, unless the host stops collecting.
Drains == kq # <<>> ~> kq = <<>> \/ host[1] = Head(kq)
                       \/ bus = "suspended" \/ ~conf

=============================================================================
