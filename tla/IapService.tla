----------------------------- MODULE IapService -----------------------------
(***************************************************************************)
(* The IAP command endpoint and the reboot into the bootloader: endpoint 6 *)
(* of usb_device.c (the interrupt handler latches a command and closes the *)
(* endpoint, USB_PollEP6 in the main loop runs it and opens it again), the *)
(* command handlers of iap.c, and IAP_Service, which after an accepted     *)
(* EnterBootloader quiesces the radio, waits for the host to take the      *)
(* reply and resets.                                                       *)
(*                                                                         *)
(* The host sends a command until it sees its ACK, with USB's data toggle  *)
(* against duplicates; it may lose the ACK, poll for the reply or never,   *)
(* send a command before it took the last reply, reset the bus and clear a *)
(* halt.  The controller answers NAK while an interrupt is not served.     *)
(* Commands are told apart by what the session's arm and the reboot latch  *)
(* make of them; what they do to the bond and the radio is in RfLink.      *)
(*                                                                         *)
(* An operator named ...Slip is a wrong variant of the definition after    *)
(* it; the specification uses none.                                        *)
(***************************************************************************)
EXTENDS Naturals, Sequences

CONSTANTS
  QuiesceTicks, DrainTicks   \* IAP_SVC_RF_QUIESCE_TICKS, IAP_SVC_USB_DRAIN_TICKS

ASSUME IapAssumption == {QuiesceTicks, DrainTicks} \subseteq Nat \ {0}

VARIABLES
  chip,   \* the build: hal_now always runs on the CH592, not on the CH570
  host,   \* the command on its way, whether the device has had it, the OUT toggle
  ep6,    \* R_RES and T_RES, OUT toggle, the latch, its buffer (forgotten once run),
          \* whether the reply is EnterBootloader's, the interrupt not served
  main,   \* where the main loop stands
  iap,    \* iap_armed, iap_reboot_pending
  svc,    \* IAP_Service's state, and what is left of its deadline
  rf,     \* the radio, as far as RF_Quiesced tells
  hist    \* history: commands owed, the fate of the reboot's reply, exemptions

vars == <<chip, host, ep6, main, iap, svc, rf, hist>>

Chips == {"ch592", "ch570"}

\* query: handshake, version, status, fault, diagnostics; arm and disarm:
\* GetDevInfo with argument 1 or another; action: bond read, write and clear, RF
\* poke, the retired commands, EnterBootloader with a wrong magic; malformed:
\* short, wrong checksum, unknown, or a body its handler rejects
Commands == {"query", "arm", "disarm", "action", "boot", "malformed"}
None     == "none"

Up      == svc.state # "reset"
\* An interrupt is served before the main loop's next instruction
Running == Up /\ ep6.irq = None

-----------------------------------------------------------------------------
(* The host and the wire *)

HostSends(c) ==
  /\ Up /\ host.cmd = None
  /\ host' = [host EXCEPT !.cmd = c, !.had = FALSE]
  /\ UNCHANGED <<chip, ep6, main, iap, svc, rf, hist>>

\* An OUT transaction of EP6; a duplicate does not move the toggle.  A command
\* that meets a toggle skewed by a cleared OUT halt is taken for one
HostOut ==
  /\ Up /\ host.cmd # None /\ ep6.rx /\ ep6.irq = None
  /\ LET match == host.tog = ep6.tog IN
       /\ ep6' = [ep6 EXCEPT !.out = host.cmd, !.tog = IF match THEN 1 - @ ELSE @,
                             !.irq = IF match THEN "out" ELSE "duplicate"]
       /\ hist' = [hist EXCEPT !.skew = FALSE,
                     !.owed = IF host.had \/ hist.skew \/ hist.crossed THEN @
                              ELSE Append(@, host.cmd)]
  /\ \/ host' = [host EXCEPT !.cmd = None, !.tog = 1 - @]
     \/ host' = [host EXCEPT !.had = TRUE]
  /\ UNCHANGED <<chip, main, iap, svc, rf>>

HostIn ==
  /\ Up /\ ep6.tx /\ ep6.irq = None
  /\ ep6' = [ep6 EXCEPT !.irq = "in"]
  /\ hist' = [hist EXCEPT !.reply = IF ep6.boot THEN "taken" ELSE @]
  /\ UNCHANGED <<chip, host, main, iap, svc, rf>>

-----------------------------------------------------------------------------
(* USB_IRQHandler, as far as endpoint 6 goes *)

\* An OUT has completed: latched if it is new and nothing is pending; with
\* nothing pending a duplicate leaves the endpoint open
OutDoneSlip(e) ==                           \* the duplicate closes it too
  IF e.irq = "out" /\ ~e.pending THEN [e EXCEPT !.pending = TRUE, !.rx = FALSE, !.irq = None]
  ELSE [e EXCEPT !.rx = FALSE, !.irq = None]
OutDone(e) ==
  IF e.irq = "out" /\ ~e.pending THEN [e EXCEPT !.pending = TRUE, !.rx = FALSE, !.irq = None]
  ELSE [e EXCEPT !.rx = ~e.pending, !.irq = None]

Interrupt ==
  /\ Up /\ ep6.irq # None
  /\ ep6' = IF ep6.irq = "in" THEN [ep6 EXCEPT !.tx = FALSE, !.irq = None] ELSE OutDone(ep6)
  /\ UNCHANGED <<chip, host, main, iap, svc, rf, hist>>

\* A reply the host itself has cancelled
Cancelled(h) == [h EXCEPT !.reply = IF @ = "waiting" /\ main # "send" THEN "cancelled" ELSE @]

Crossing == hist.crossed \/ ep6.pending \/ main = "open"

\* USB_BusReset opens EP6 OUT and keeps what is pending; the host gives up its
\* command and will send it afresh
BusReset ==
  /\ Running
  /\ ep6' = [ep6 EXCEPT !.rx = TRUE, !.tx = FALSE, !.tog = 0]
  /\ host' = [host EXCEPT !.cmd = None, !.tog = 0]
  /\ hist' = [Cancelled(hist) EXCEPT !.skew = FALSE, !.crossed = Crossing, !.owed = IF Crossing THEN <<>> ELSE @]
  /\ UNCHANGED <<chip, main, iap, svc, rf>>

\* CLEAR_FEATURE(ENDPOINT_HALT) resets the IN half of EP6 for either direction
ClearHalt ==
  /\ Running
  /\ ep6' = [ep6 EXCEPT !.tx = FALSE]
  /\ \/ UNCHANGED host /\ hist' = Cancelled(hist)
     \/ /\ host.cmd = None
        /\ host' = [host EXCEPT !.tog = 0]
        /\ hist' = [Cancelled(hist) EXCEPT !.skew = (ep6.tog = 1)]
  /\ UNCHANGED <<chip, main, iap, svc, rf>>

-----------------------------------------------------------------------------
(* The main loop: USB_PollEP6, then IAP_Service *)

\* IAP_PacketHandler: a latched reboot and an unarmed session drop commands
Refused(c) ==
  iap.reboot \/ c = "malformed" \/ (c \in {"action", "boot"} /\ ~iap.armed)

Run(h) == [h EXCEPT !.owed = IF @ = <<>> THEN @ ELSE Tail(@)]
Callback ==
  /\ Running /\ main = "poll" /\ ep6.pending
  /\ UNCHANGED <<chip, host, svc, rf>>

\* USB_SendEP6 fills the reply, does not look whether the last one was taken,
\* and then offers it (SendReply)
Replies(boot) ==
  /\ ~Refused(ep6.out)
  /\ ep6' = [ep6 EXCEPT !.boot = boot]
  /\ main' = "send"

\* A buffer overwritten since it was latched is read by the length latched with
\* the old command, and may be dropped
Drop ==
  /\ Callback /\ (Refused(ep6.out) \/ hist.crossed)
  /\ main' = "ran"
  /\ hist' = Run(hist)
  /\ UNCHANGED <<ep6, iap>>
Query ==
  /\ Callback /\ ep6.out = "query" /\ Replies(FALSE)
  /\ hist' = Run(hist)
  /\ UNCHANGED iap
GetDevInfo ==
  /\ Callback /\ ep6.out \in {"arm", "disarm"} /\ Replies(FALSE)
  /\ iap' = [iap EXCEPT !.armed = (ep6.out = "arm")]
  /\ hist' = Run(hist)
Action ==
  /\ Callback /\ ep6.out = "action" /\ Replies(FALSE)
  /\ hist' = Run(hist)
  /\ UNCHANGED iap
EnterBootloader ==
  /\ Callback /\ ep6.out = "boot" /\ Replies(TRUE)
  /\ hist' = [Run(hist) EXCEPT !.reply = "waiting"]
  /\ UNCHANGED iap

\* The offer masks interrupts: an IN that completes meanwhile is served after it;
\* EnterBootloader then latches the reboot
SendReply ==
  /\ Up /\ main = "send" /\ ep6.irq \in {None, "in"}
  /\ ep6' = [ep6 EXCEPT !.tx = TRUE]
  /\ iap' = [iap EXCEPT !.reboot = @ \/ ep6.boot]
  /\ main' = "ran"
  /\ UNCHANGED <<chip, host, svc, rf, hist>>

ClearPending ==
  /\ Running /\ main = "ran"
  /\ ep6' = [ep6 EXCEPT !.pending = FALSE, !.out = None]
  /\ main' = "open"
  /\ UNCHANGED <<chip, host, iap, svc, rf, hist>>

OpenOut ==
  /\ Running /\ main = "open"
  /\ ep6' = [ep6 EXCEPT !.rx = TRUE]
  /\ main' = "service"
  /\ UNCHANGED <<chip, host, iap, svc, rf, hist>>

\* Nothing pending: what a bus reset has crossed is over
PollNothing ==
  /\ Running /\ main = "poll" /\ ~ep6.pending
  /\ main' = "service"
  /\ hist' = [hist EXCEPT !.crossed = FALSE]
  /\ UNCHANGED <<chip, host, ep6, iap, svc, rf>>

At(state, ticks) == svc' = [state |-> state, left |-> ticks]
EP6InIdle        == ~ep6.tx

QuiescedSlip == rf = "off"                  \* waits for the radio without a limit
Quiesced     == rf = "off" \/ svc.left = 0

Service ==
  /\ Running /\ main = "service"
  /\ main' = "poll"
  /\ \/ /\ svc.state = "idle" /\ ~iap.reboot
        /\ UNCHANGED <<svc, rf>>
     \/ /\ svc.state = "idle" /\ iap.reboot
        /\ At("quiesce", QuiesceTicks)
        /\ rf' = IF rf = "on" THEN "asked" ELSE rf
     \/ /\ svc.state = "quiesce"
        /\ IF Quiesced THEN At("drain", DrainTicks) ELSE UNCHANGED svc
        /\ UNCHANGED rf
     \/ /\ svc.state = "drain"
        /\ IF EP6InIdle \/ svc.left = 0 THEN At("reset", svc.left) ELSE UNCHANGED svc
        /\ UNCHANGED rf
  /\ UNCHANGED <<chip, host, ep6, iap, hist>>

-----------------------------------------------------------------------------
(* The radio's executor may take the request or be wedged; hal_now *)

Quiesce ==
  /\ Up /\ rf = "asked"
  /\ rf' = "off"
  /\ UNCHANGED <<chip, host, ep6, main, iap, svc, hist>>

Tick ==
  /\ svc.state \in {"quiesce", "drain"} /\ svc.left > 0
  /\ svc' = [svc EXCEPT !.left = @ - 1]
  /\ UNCHANGED <<chip, host, ep6, main, iap, rf, hist>>

Init ==
  /\ chip \in Chips
  /\ host = [cmd |-> None, had |-> FALSE, tog |-> 0]
  /\ ep6 = [rx |-> TRUE, tx |-> FALSE, tog |-> 0, pending |-> FALSE, out |-> None, boot |-> FALSE,
            irq |-> None]
  /\ main = "poll"
  /\ iap = [armed |-> FALSE, reboot |-> FALSE]
  /\ svc = [state |-> "idle", left |-> 0]
  /\ rf = "on"
  /\ hist = [owed |-> <<>>, reply |-> None, crossed |-> FALSE, skew |-> FALSE]

Commanded == Drop \/ Query \/ GetDevInfo \/ Action \/ EnterBootloader
Main == Commanded \/ SendReply \/ ClearPending \/ OpenOut \/ PollNothing \/ Service
Next ==
  \/ Main \/ Interrupt \/ HostOut \/ HostIn \/ BusReset \/ ClearHalt \/ Quiesce \/ Tick
  \/ \E c \in Commands : HostSends(c)

\* Interrupts come no faster than the frames of the bus, so they are served and
\* the main loop goes on between them; nothing is owed by the host or the radio,
\* and the CH570's clock stands while no soft timer is armed
Fairness ==
  /\ SF_vars(Main) /\ WF_vars(Interrupt)
  /\ WF_vars(chip = "ch592" /\ Tick)

Spec == Init /\ [][Next]_vars /\ Fairness

-----------------------------------------------------------------------------
(* Properties *)

HostState == [cmd : Commands \cup {None}, had : BOOLEAN, tog : {0, 1}]
EP6State  == [rx : BOOLEAN, tx : BOOLEAN, tog : {0, 1}, pending : BOOLEAN,
              out : Commands \cup {None}, boot : BOOLEAN, irq : {None, "out", "duplicate", "in"}]
History   == [owed : Seq(Commands), reply : {None, "waiting", "taken", "cancelled"},
              crossed : BOOLEAN, skew : BOOLEAN]
TypeOK ==
  /\ chip \in Chips
  /\ host \in HostState /\ ep6 \in EP6State /\ hist \in History
  /\ main \in {"poll", "send", "ran", "open", "service"}
  /\ iap \in [armed : BOOLEAN, reboot : BOOLEAN]
  /\ svc \in [state : {"idle", "quiesce", "drain", "reset"}, left : Nat]
  /\ rf \in {"on", "asked", "off"}

\* A command the device has acknowledged is the one it runs, once: what is owed
\* is what is latched or about to be (usb_device.c 775-813); and the endpoint is
\* closed only while a command is pending or about to be followed by the opening
\* (the wedge of 798-808).  Excepted is what 784-793 excepts: a bus reset over a
\* command; and the toggle a cleared OUT halt leaves behind.
Held == IF (ep6.pending /\ main \notin {"send", "ran"}) \/ ep6.irq = "out"
          THEN <<ep6.out>> ELSE <<>>
CommandsRunOnce ==
  /\ ~hist.crossed => hist.owed = Held
  /\ ep6.rx \/ ep6.pending \/ main = "open"

\* The reply to EnterBootloader stays until the host takes or cancels it, and
\* the reset comes after that or after the deadline (iap.c 52-55, 390-396)
ReplyBeforeReset ==
  hist.reply = "waiting" /\ iap.reboot =>
    IF Up THEN ep6.tx /\ ep6.boot ELSE svc.left = 0

\* The toggles differ exactly while a command is on its way that the device has
\* had, or a cleared halt has skewed them
Toggles ==
  host.tog # ep6.tog <=> hist.skew \/ (host.cmd # None /\ host.had)

\* The endpoint is open only with nothing pending, and opened only once nothing is
OneAtATime ==
  /\ ep6.irq \in {"out", "duplicate"} => ep6.rx
  /\ main \in {"send", "ran"} => ep6.pending
  /\ ~hist.crossed =>
       /\ ep6.rx \/ main = "open" => ~ep6.pending
       /\ main = "open" => ~ep6.rx
  /\ hist.crossed => hist.owed = <<>>

\* While the reply to EnterBootloader waits no other is filled in
ReplyKept ==
  /\ main = "send" => ~iap.reboot
  /\ hist.reply = "waiting" => /\ ep6.boot /\ ep6.irq # "in"
                               /\ main = "send" \/ iap.reboot

\* What holds of every reachable state, in the strength that each step preserves
\* it: the acknowledged command runs once and the reboot's reply is not overtaken
IapInvariant ==
  /\ TypeOK /\ Toggles /\ OneAtATime /\ ReplyKept
  /\ CommandsRunOnce /\ ReplyBeforeReset

\* An accepted EnterBootloader leads to the reset whatever host and radio do,
\* where the clock runs (iap.c 436-457); where it stands, once the radio is shut
\* and the reply is gone
RebootHappens ==
  /\ (chip = "ch592" /\ iap.reboot) ~> ~Up
  /\ (iap.reboot /\ rf = "off" /\ EP6InIdle) ~> ~Up
=============================================================================
