-------------------------- MODULE IapServiceProofs --------------------------
(***************************************************************************)
(* IapInvariant of IapService holds in every reachable state, for every    *)
(* value of the two deadlines.  It is inductive: one lemma per group of    *)
(* actions shows that a step keeps it, the host and the wire first, then   *)
(* the interrupt handler, the main loop and what lies around them.         *)
(***************************************************************************)
EXTENDS IapService, TLAPS

\* Toggles are bits
LEMMA Toggle == \A x \in {0, 1} : 1 - x \in {0, 1} /\ 1 - x # x
OBVIOUS

\* A queue of one holds what was put in, and is empty when it is taken out
LEMMA QueueOfOne == \A c : Append(<<>>, c) = <<c>> /\ Tail(<<c>>) = <<>> /\ <<c>> # <<>>
OBVIOUS

USE DEF None

LEMMA InitHolds == Init => IapInvariant
BY IapAssumption DEF Init, IapInvariant, TypeOK, HostState, EP6State, History,
   Toggles, OneAtATime, ReplyKept, CommandsRunOnce, ReplyBeforeReset, Held, Up,
   Chips, Commands

-----------------------------------------------------------------------------
(* The host and the wire *)

LEMMA HostSendsKeeps ==
  ASSUME IapInvariant, NEW c \in Commands, HostSends(c)
  PROVE  IapInvariant'
<1>1. TypeOK'
  <2>1. host' \in HostState BY DEF HostSends, IapInvariant, TypeOK, HostState
  <2> QED BY <2>1 DEF HostSends, IapInvariant, TypeOK
<1>2. Toggles'
  BY DEF HostSends, IapInvariant, TypeOK, HostState, Toggles
<1> QED
  BY <1>1, <1>2 DEF HostSends, IapInvariant, OneAtATime, ReplyKept,
     CommandsRunOnce, ReplyBeforeReset, Held, Up

LEMMA HostOutKeeps ==
  ASSUME IapInvariant, HostOut
  PROVE  IapInvariant'
<1> DEFINE match == host.tog = ep6.tog
<1>1. /\ host.cmd \in Commands /\ host.cmd # None
      /\ host \in HostState /\ ep6 \in EP6State /\ hist \in History
      /\ ep6.rx /\ ep6.irq = None
  BY DEF HostOut, IapInvariant, TypeOK, HostState
<1>2. UNCHANGED <<chip, main, iap, svc, rf>> BY DEF HostOut
<1>3. ep6' = [ep6 EXCEPT !.out = host.cmd, !.tog = IF match THEN 1 - @ ELSE @,
                         !.irq = IF match THEN "out" ELSE "duplicate"]
  BY DEF HostOut
<1>4. hist' = [hist EXCEPT !.skew = FALSE,
                 !.owed = IF host.had \/ hist.skew \/ hist.crossed THEN @
                          ELSE Append(@, host.cmd)]
  BY DEF HostOut
<1>5. /\ host' \in HostState
      /\ \/ host'.cmd = None /\ host'.tog = 1 - host.tog
         \/ host'.cmd = host.cmd /\ host'.tog = host.tog /\ host'.had
  <2>1. CASE host' = [host EXCEPT !.cmd = None, !.tog = 1 - @]
    BY <2>1, <1>1, Toggle DEF HostState
  <2>2. CASE host' = [host EXCEPT !.had = TRUE] BY <2>2, <1>1 DEF HostState
  <2> QED BY <2>1, <2>2 DEF HostOut
<1>6. /\ ep6' \in EP6State
      /\ ep6'.tog = IF match THEN 1 - ep6.tog ELSE ep6.tog
      /\ ep6'.irq = IF match THEN "out" ELSE "duplicate"
      /\ ep6'.out = host.cmd
      /\ ep6'.rx = ep6.rx /\ ep6'.tx = ep6.tx /\ ep6'.pending = ep6.pending /\ ep6'.boot = ep6.boot
  <2>1. CASE match BY <2>1, <1>1, <1>3, Toggle DEF EP6State
  <2>2. CASE ~match BY <2>2, <1>1, <1>3 DEF EP6State
  <2> QED BY <2>1, <2>2
<1>7. /\ hist' \in History /\ ~hist'.skew
      /\ hist'.reply = hist.reply /\ hist'.crossed = hist.crossed
      /\ hist'.owed = IF host.had \/ hist.skew \/ hist.crossed THEN hist.owed
                      ELSE Append(hist.owed, host.cmd)
  <2>1. hist.owed \in Seq(Commands) BY <1>1 DEF History
  <2>2. Append(hist.owed, host.cmd) \in Seq(Commands) BY <2>1, <1>1
  <2> QED BY <1>1, <1>4, <2>1, <2>2 DEF History
<1>8. TypeOK' BY <1>2, <1>5, <1>6, <1>7 DEF IapInvariant, TypeOK
<1>9. Toggles'
  BY <1>1, <1>5, <1>6, <1>7, Toggle DEF Toggles, IapInvariant, HostState, EP6State
<1>10. OneAtATime' /\ ReplyKept' /\ ReplyBeforeReset'
  BY <1>1, <1>2, <1>6, <1>7 DEF IapInvariant, OneAtATime, ReplyKept, ReplyBeforeReset, Up
<1>11. CommandsRunOnce'
  <2> SUFFICES ASSUME ~hist.crossed PROVE hist'.owed = Held'
    BY <1>1, <1>6, <1>7 DEF CommandsRunOnce
  <2>1. ~ep6.pending /\ hist.owed = <<>>
    BY <1>1 DEF IapInvariant, OneAtATime, CommandsRunOnce, Held
  <2>2. CASE match
    <3>1. ~hist.skew /\ ~host.had BY <2>2, <1>1 DEF IapInvariant, Toggles
    <3> QED BY <2>1, <2>2, <3>1, <1>6, <1>7, QueueOfOne DEF Held
  <2>3. CASE ~match
    <3>1. hist.skew \/ host.had BY <2>3, <1>1 DEF IapInvariant, Toggles
    <3> QED BY <2>1, <2>3, <3>1, <1>6, <1>7 DEF Held
  <2> QED BY <2>2, <2>3
<1> QED BY <1>8, <1>9, <1>10, <1>11 DEF IapInvariant

LEMMA HostInKeeps ==
  ASSUME IapInvariant, HostIn
  PROVE  IapInvariant'
<1>1. ep6 \in EP6State /\ hist \in History BY DEF IapInvariant, TypeOK
<1>2. /\ ep6' \in EP6State /\ hist' \in History
      /\ ep6'.irq = "in" /\ ep6' = [ep6 EXCEPT !.irq = "in"]
      /\ hist'.owed = hist.owed /\ hist'.crossed = hist.crossed /\ hist'.skew = hist.skew
      /\ hist'.reply = IF ep6.boot THEN "taken" ELSE hist.reply
  BY <1>1 DEF HostIn, EP6State, History
<1> QED
  BY <1>1, <1>2 DEF HostIn, IapInvariant, TypeOK, EP6State, Toggles, OneAtATime, ReplyKept,
     CommandsRunOnce, ReplyBeforeReset, Held, Up

-----------------------------------------------------------------------------
(* The interrupt handler *)

LEMMA InterruptKeeps ==
  ASSUME IapInvariant, Interrupt
  PROVE  IapInvariant'
<1>1. ep6 \in EP6State /\ ep6.irq # None BY DEF Interrupt, IapInvariant, TypeOK
<1>2. UNCHANGED <<chip, host, main, iap, svc, rf, hist>> BY DEF Interrupt
<1>3. CASE ep6.irq = "in"
  <2>1. /\ ep6' \in EP6State /\ ~ep6'.tx /\ ep6'.irq = None
        /\ ep6'.rx = ep6.rx /\ ep6'.tog = ep6.tog /\ ep6'.pending = ep6.pending
        /\ ep6'.out = ep6.out /\ ep6'.boot = ep6.boot
    BY <1>1, <1>3 DEF Interrupt, EP6State
  <2> QED
    BY <1>1, <1>2, <1>3, <2>1 DEF IapInvariant, TypeOK, Toggles, OneAtATime, ReplyKept,
       CommandsRunOnce, ReplyBeforeReset, Held, Up
<1>4. CASE ep6.irq = "out" /\ ~ep6.pending
  <2>1. /\ ep6' \in EP6State /\ ep6'.pending /\ ~ep6'.rx /\ ep6'.irq = None
        /\ ep6'.tog = ep6.tog /\ ep6'.tx = ep6.tx
        /\ ep6'.out = ep6.out /\ ep6'.boot = ep6.boot
    BY <1>1, <1>4 DEF Interrupt, OutDone, EP6State
  <2>2. TypeOK' /\ Toggles' /\ ReplyKept' /\ ReplyBeforeReset'
    BY <1>2, <2>1 DEF IapInvariant, TypeOK, Toggles, ReplyKept, ReplyBeforeReset, Up
  <2>3. OneAtATime'
    BY <1>1, <1>2, <1>4, <2>1 DEF IapInvariant, OneAtATime, EP6State
  <2>4. CommandsRunOnce'
    BY <1>1, <1>2, <1>4, <2>1 DEF IapInvariant, OneAtATime, CommandsRunOnce, Held, EP6State
  <2> QED BY <2>2, <2>3, <2>4 DEF IapInvariant
<1>5. CASE ep6.irq # "in" /\ ~(ep6.irq = "out" /\ ~ep6.pending)
  <2>1. /\ ep6' \in EP6State /\ ep6'.rx = ~ep6.pending /\ ep6'.irq = None
        /\ ep6'.tog = ep6.tog /\ ep6'.pending = ep6.pending /\ ep6'.tx = ep6.tx
        /\ ep6'.out = ep6.out /\ ep6'.boot = ep6.boot
    BY <1>1, <1>5 DEF Interrupt, OutDone, EP6State
  <2>2. TypeOK' /\ Toggles' /\ ReplyKept' /\ ReplyBeforeReset'
    BY <1>2, <2>1 DEF IapInvariant, TypeOK, Toggles, ReplyKept, ReplyBeforeReset, Up
  <2>3. OneAtATime'
    BY <1>1, <1>2, <1>5, <2>1 DEF IapInvariant, OneAtATime, EP6State
  <2>4. CommandsRunOnce'
    BY <1>1, <1>2, <1>5, <2>1 DEF IapInvariant, OneAtATime, CommandsRunOnce, Held, EP6State
  <2> QED BY <2>2, <2>3, <2>4 DEF IapInvariant
<1> QED BY <1>3, <1>4, <1>5

LEMMA BusResetKeeps ==
  ASSUME IapInvariant, BusReset
  PROVE  IapInvariant'
<1>1. /\ ep6 \in EP6State /\ host \in HostState /\ hist \in History
      /\ Up /\ ep6.irq = None
  BY DEF BusReset, Running, IapInvariant, TypeOK
<1>2. UNCHANGED <<chip, main, iap, svc, rf>> BY DEF BusReset
<1>3. /\ ep6' \in EP6State /\ ep6'.rx /\ ~ep6'.tx /\ ep6'.tog = 0 /\ ep6'.irq = None
      /\ ep6'.pending = ep6.pending /\ ep6'.out = ep6.out /\ ep6'.boot = ep6.boot
  BY <1>1 DEF BusReset, EP6State
<1>4. host' \in HostState /\ host'.cmd = None /\ host'.tog = 0
  BY <1>1 DEF BusReset, HostState
<1>5. /\ hist' \in History /\ ~hist'.skew /\ hist'.crossed = Crossing
      /\ hist'.owed = IF Crossing THEN <<>> ELSE hist.owed
      /\ hist'.reply = IF hist.reply = "waiting" /\ main # "send" THEN "cancelled" ELSE hist.reply
  <2>1. Crossing \in BOOLEAN BY <1>1 DEF Crossing, History, EP6State
  <2>2. <<>> \in Seq(Commands) OBVIOUS
  <2> QED BY <1>1, <2>1, <2>2 DEF BusReset, Cancelled, History
<1> QED
  BY <1>1, <1>2, <1>3, <1>4, <1>5 DEF IapInvariant, TypeOK, Toggles, OneAtATime, ReplyKept,
     CommandsRunOnce, ReplyBeforeReset, Held, Up, Crossing

LEMMA ClearHaltKeeps ==
  ASSUME IapInvariant, ClearHalt
  PROVE  IapInvariant'
<1>1. /\ ep6 \in EP6State /\ host \in HostState /\ hist \in History
      /\ Up /\ ep6.irq = None
  BY DEF ClearHalt, Running, IapInvariant, TypeOK
<1>2. UNCHANGED <<chip, main, iap, svc, rf>> BY DEF ClearHalt
<1>3. /\ ep6' \in EP6State /\ ep6'.rx = ep6.rx /\ ~ep6'.tx /\ ep6'.tog = ep6.tog
      /\ ep6'.irq = None /\ ep6'.pending = ep6.pending /\ ep6'.out = ep6.out
      /\ ep6'.boot = ep6.boot
  BY <1>1 DEF ClearHalt, EP6State
<1>4. /\ host' \in HostState /\ hist' \in History
      /\ hist'.crossed = hist.crossed /\ hist'.owed = hist.owed
      /\ hist'.reply = IF hist.reply = "waiting" /\ main # "send" THEN "cancelled" ELSE hist.reply
      /\ \/ host' = host /\ hist'.skew = hist.skew
         \/ host'.cmd = None /\ host'.tog = 0 /\ (hist'.skew <=> ep6.tog = 1)
  <2>1. CASE UNCHANGED host /\ hist' = Cancelled(hist)
    BY <2>1, <1>1 DEF Cancelled, History
  <2>2. CASE /\ host.cmd = None /\ host' = [host EXCEPT !.tog = 0]
             /\ hist' = [Cancelled(hist) EXCEPT !.skew = (ep6.tog = 1)]
    BY <2>2, <1>1 DEF Cancelled, History, HostState
  <2> QED BY <2>1, <2>2 DEF ClearHalt
<1>5. Toggles'
  BY <1>1, <1>3, <1>4 DEF IapInvariant, Toggles, EP6State
<1> QED
  BY <1>1, <1>2, <1>3, <1>4, <1>5 DEF IapInvariant, TypeOK, OneAtATime, ReplyKept,
     CommandsRunOnce, ReplyBeforeReset, Held, Up

-----------------------------------------------------------------------------
(* The main loop *)

\* What a command that is run leaves behind, whether it replies or not: the
\* queue of owed commands is empty, and the endpoint is still closed
LEMMA CallbackHolds ==
  ASSUME IapInvariant, Callback
  PROVE  /\ Up /\ main = "poll" /\ ep6.pending /\ ep6.irq = None
         /\ UNCHANGED <<chip, host, svc, rf>>
         /\ Run(hist) \in History /\ Run(hist).owed = <<>>
         /\ Run(hist).skew = hist.skew /\ Run(hist).crossed = hist.crossed
         /\ Run(hist).reply = hist.reply
<1>1. /\ Up /\ main = "poll" /\ ep6.pending /\ ep6.irq = None /\ hist \in History
      /\ UNCHANGED <<chip, host, svc, rf>>
  BY DEF Callback, Running, IapInvariant, TypeOK
<1>2. hist.owed = <<>> \/ hist.owed = <<ep6.out>>
  BY <1>1 DEF IapInvariant, OneAtATime, CommandsRunOnce, Held
<1>3. IF hist.owed = <<>> THEN TRUE ELSE Tail(hist.owed) = <<>>
  BY <1>2, QueueOfOne
<1>4. <<>> \in Seq(Commands) OBVIOUS
<1> QED BY <1>1, <1>3, <1>4 DEF Run, History

\* A command dropped without a reply
LEMMA DropKeeps ==
  ASSUME IapInvariant, Drop
  PROVE  IapInvariant'
<1>1. Callback BY DEF Drop
<1>2. UNCHANGED <<ep6, iap>> /\ main' = "ran" /\ hist' = Run(hist) BY DEF Drop
<1>3. TypeOK' BY <1>1, <1>2, CallbackHolds DEF IapInvariant, TypeOK
<1>4. Toggles' /\ OneAtATime' /\ CommandsRunOnce'
  BY <1>1, <1>2, CallbackHolds DEF IapInvariant, Toggles, OneAtATime, CommandsRunOnce, Held
<1>5. ReplyKept' /\ ReplyBeforeReset'
  BY <1>1, <1>2, CallbackHolds DEF IapInvariant, ReplyKept, ReplyBeforeReset, Up
<1> QED BY <1>3, <1>4, <1>5 DEF IapInvariant

\* A reply is filled in only while no reboot is latched, so it replaces none of
\* EnterBootloader's
LEMMA RepliesHolds ==
  ASSUME IapInvariant, Callback, NEW boot \in BOOLEAN, Replies(boot)
  PROVE  /\ ~iap.reboot /\ hist.reply # "waiting" /\ main' = "send"
         /\ ep6' \in EP6State /\ ep6'.boot = boot
         /\ ep6'.rx = ep6.rx /\ ep6'.tx = ep6.tx /\ ep6'.tog = ep6.tog
         /\ ep6'.pending = ep6.pending /\ ep6'.out = ep6.out /\ ep6'.irq = ep6.irq
<1>1. ep6 \in EP6State /\ main = "poll" BY DEF Callback, IapInvariant, TypeOK
<1>2. ep6' = [ep6 EXCEPT !.boot = boot] /\ main' = "send" /\ ~iap.reboot
  BY DEF Replies, Refused
<1> QED BY <1>1, <1>2 DEF EP6State, IapInvariant, ReplyKept

\* A command answered; EnterBootloader's answer starts to wait
LEMMA RepliedKeeps ==
  ASSUME IapInvariant, Callback, NEW boot \in BOOLEAN, Replies(boot),
         hist' = IF boot THEN [Run(hist) EXCEPT !.reply = "waiting"] ELSE Run(hist),
         iap' \in [armed : BOOLEAN, reboot : BOOLEAN], iap'.reboot = iap.reboot
  PROVE  IapInvariant'
<1>1. /\ hist' \in History /\ hist'.owed = <<>>
      /\ hist'.skew = hist.skew /\ hist'.crossed = hist.crossed
      /\ hist'.reply = IF boot THEN "waiting" ELSE hist.reply
  BY CallbackHolds DEF History
<1>2. TypeOK' BY <1>1, CallbackHolds, RepliesHolds DEF IapInvariant, TypeOK
<1>3. Toggles' /\ OneAtATime' /\ CommandsRunOnce'
  BY <1>1, CallbackHolds, RepliesHolds
     DEF IapInvariant, Toggles, OneAtATime, CommandsRunOnce, Held
<1>4. ReplyKept' /\ ReplyBeforeReset'
  BY <1>1, CallbackHolds, RepliesHolds DEF ReplyKept, ReplyBeforeReset
<1> QED BY <1>2, <1>3, <1>4 DEF IapInvariant

LEMMA CommandedKeeps ==
  ASSUME IapInvariant, Commanded
  PROVE  IapInvariant'
<1>1. iap \in [armed : BOOLEAN, reboot : BOOLEAN] BY DEF IapInvariant, TypeOK
<1>2. CASE Drop BY <1>2, DropKeeps
<1>3. CASE Query BY <1>3, <1>1, RepliedKeeps DEF Query
<1>4. CASE GetDevInfo
  <2>1. /\ iap' \in [armed : BOOLEAN, reboot : BOOLEAN] /\ iap'.reboot = iap.reboot
    BY <1>1, <1>4 DEF GetDevInfo
  <2> QED BY <2>1, <1>4, RepliedKeeps DEF GetDevInfo
<1>5. CASE Action BY <1>5, <1>1, RepliedKeeps DEF Action
<1>6. CASE EnterBootloader BY <1>6, <1>1, RepliedKeeps DEF EnterBootloader
<1> QED BY <1>2, <1>3, <1>4, <1>5, <1>6 DEF Commanded

LEMMA SendReplyKeeps ==
  ASSUME IapInvariant, SendReply
  PROVE  IapInvariant'
<1>1. /\ ep6 \in EP6State /\ iap \in [armed : BOOLEAN, reboot : BOOLEAN]
      /\ Up /\ main = "send" /\ main' = "ran"
      /\ UNCHANGED <<chip, host, svc, rf, hist>>
  BY DEF SendReply, IapInvariant, TypeOK
<1>2. /\ ep6' \in EP6State /\ ep6'.tx /\ ep6'.boot = ep6.boot
      /\ ep6'.rx = ep6.rx /\ ep6'.tog = ep6.tog /\ ep6'.pending = ep6.pending
      /\ ep6'.out = ep6.out /\ ep6'.irq = ep6.irq
  BY <1>1 DEF SendReply, EP6State
<1>3. /\ iap' \in [armed : BOOLEAN, reboot : BOOLEAN]
      /\ iap'.reboot <=> iap.reboot \/ ep6.boot
  <2>1. ep6.boot \in BOOLEAN /\ iap.reboot \in BOOLEAN BY <1>1 DEF EP6State
  <2>2. iap' = [iap EXCEPT !.reboot = @ \/ ep6.boot] BY DEF SendReply
  <2> QED BY <1>1, <2>1, <2>2
<1>4. TypeOK' BY <1>1, <1>2, <1>3 DEF IapInvariant, TypeOK
<1>5. Toggles' /\ OneAtATime' /\ CommandsRunOnce'
  BY <1>1, <1>2 DEF IapInvariant, Toggles, OneAtATime, CommandsRunOnce, Held
<1>6. ReplyKept' /\ ReplyBeforeReset'
  BY <1>1, <1>2, <1>3 DEF IapInvariant, ReplyKept, ReplyBeforeReset, Up
<1> QED BY <1>4, <1>5, <1>6 DEF IapInvariant

LEMMA PolledKeeps ==
  ASSUME IapInvariant, ClearPending \/ OpenOut \/ PollNothing
  PROVE  IapInvariant'
<1>1. ep6 \in EP6State /\ hist \in History /\ Up /\ ep6.irq = None
  BY DEF ClearPending, OpenOut, PollNothing, Running, IapInvariant, TypeOK
<1>2. CASE ClearPending
  <2>1. /\ ep6' \in EP6State /\ ~ep6'.pending /\ ep6'.out = None
        /\ ep6'.rx = ep6.rx /\ ep6'.tx = ep6.tx /\ ep6'.tog = ep6.tog
        /\ ep6'.boot = ep6.boot /\ ep6'.irq = ep6.irq
    BY <1>1, <1>2 DEF ClearPending, EP6State
  <2>2. main = "ran" /\ main' = "open" /\ UNCHANGED <<chip, host, iap, svc, rf, hist>>
    BY <1>2 DEF ClearPending
  <2>3. TypeOK' BY <2>1, <2>2 DEF IapInvariant, TypeOK
  <2>4. Toggles' /\ OneAtATime' /\ CommandsRunOnce'
    BY <1>1, <2>1, <2>2 DEF IapInvariant, Toggles, OneAtATime, CommandsRunOnce, Held
  <2>5. ReplyKept' /\ ReplyBeforeReset'
    BY <2>1, <2>2 DEF IapInvariant, ReplyKept, ReplyBeforeReset, Up
  <2> QED BY <2>3, <2>4, <2>5 DEF IapInvariant
<1>3. CASE OpenOut
  <2>1. /\ ep6' \in EP6State /\ ep6'.rx /\ ep6'.pending = ep6.pending /\ ep6'.out = ep6.out
        /\ ep6'.tx = ep6.tx /\ ep6'.tog = ep6.tog
        /\ ep6'.boot = ep6.boot /\ ep6'.irq = ep6.irq
    BY <1>1, <1>3 DEF OpenOut, EP6State
  <2>2. main = "open" /\ main' = "service" /\ UNCHANGED <<chip, host, iap, svc, rf, hist>>
    BY <1>3 DEF OpenOut
  <2>3. TypeOK' BY <2>1, <2>2 DEF IapInvariant, TypeOK
  <2>4. Toggles' /\ OneAtATime' /\ CommandsRunOnce'
    BY <1>1, <2>1, <2>2 DEF IapInvariant, Toggles, OneAtATime, CommandsRunOnce, Held
  <2>5. ReplyKept' /\ ReplyBeforeReset'
    BY <2>1, <2>2 DEF IapInvariant, ReplyKept, ReplyBeforeReset, Up
  <2> QED BY <2>3, <2>4, <2>5 DEF IapInvariant
<1>4. CASE PollNothing
  <2>1. /\ hist' \in History /\ ~hist'.crossed /\ hist'.owed = hist.owed
        /\ hist'.skew = hist.skew /\ hist'.reply = hist.reply
    BY <1>1, <1>4 DEF PollNothing, History
  <2>2. /\ main = "poll" /\ ~ep6.pending /\ main' = "service"
        /\ UNCHANGED <<chip, host, ep6, iap, svc, rf>>
    BY <1>4 DEF PollNothing
  <2>3. TypeOK' BY <2>1, <2>2 DEF IapInvariant, TypeOK
  <2>4. Toggles' /\ OneAtATime' /\ CommandsRunOnce'
    BY <1>1, <2>1, <2>2 DEF IapInvariant, Toggles, OneAtATime, CommandsRunOnce, Held
  <2>5. ReplyKept' /\ ReplyBeforeReset'
    BY <2>1, <2>2 DEF IapInvariant, ReplyKept, ReplyBeforeReset, Up
  <2> QED BY <2>3, <2>4, <2>5 DEF IapInvariant
<1> QED BY <1>2, <1>3, <1>4

\* The reset comes from the drain alone, and there the reply is gone or time is up
LEMMA ServiceKeeps ==
  ASSUME IapInvariant, Service
  PROVE  IapInvariant'
<1>1. /\ main = "service" /\ main' = "poll" /\ UNCHANGED <<chip, host, ep6, iap, hist>>
      /\ Up /\ svc.left \in Nat
  BY DEF Service, Running, IapInvariant, TypeOK
<1>2. rf' \in {"on", "asked", "off"}
  BY DEF Service, IapInvariant, TypeOK
<1>3. /\ svc' \in [state : {"idle", "quiesce", "drain", "reset"}, left : Nat]
      /\ svc'.state = "reset" => (~ep6.tx \/ svc'.left = 0)
  BY IapAssumption DEF Service, Running, Up, At, EP6InIdle, IapInvariant, TypeOK
<1>4. TypeOK' BY <1>1, <1>2, <1>3 DEF IapInvariant, TypeOK
<1>5. Toggles' /\ OneAtATime' /\ CommandsRunOnce'
  BY <1>1 DEF IapInvariant, Toggles, OneAtATime, CommandsRunOnce, Held
<1>6. ReplyKept' /\ ReplyBeforeReset'
  BY <1>1, <1>3 DEF IapInvariant, ReplyKept, ReplyBeforeReset, Up
<1> QED BY <1>4, <1>5, <1>6 DEF IapInvariant

-----------------------------------------------------------------------------
(* The radio's executor and the clock *)

LEMMA OutsideKeeps ==
  ASSUME IapInvariant, Quiesce \/ Tick
  PROVE  IapInvariant'
<1>1. UNCHANGED <<chip, host, ep6, main, iap, hist>> BY DEF Quiesce, Tick
<1>2. /\ svc' \in [state : {"idle", "quiesce", "drain", "reset"}, left : Nat]
      /\ svc'.state = svc.state /\ (svc.state = "reset" => svc'.left = svc.left)
      /\ rf' \in {"on", "asked", "off"}
  BY DEF Quiesce, Tick, IapInvariant, TypeOK
<1> QED
  BY <1>1, <1>2 DEF IapInvariant, TypeOK, Toggles, OneAtATime, ReplyKept,
     CommandsRunOnce, ReplyBeforeReset, Held, Up

LEMMA StepKeeps == IapInvariant /\ [Next]_vars => IapInvariant'
<1> SUFFICES ASSUME IapInvariant, [Next]_vars PROVE IapInvariant'
  OBVIOUS
<1>1. CASE Main
  BY <1>1, CommandedKeeps, SendReplyKeeps, PolledKeeps, ServiceKeeps DEF Main
<1>2. CASE Interrupt BY <1>2, InterruptKeeps
<1>3. CASE HostOut \/ HostIn \/ \E c \in Commands : HostSends(c)
  BY <1>3, HostOutKeeps, HostInKeeps, HostSendsKeeps
<1>4. CASE BusReset \/ ClearHalt BY <1>4, BusResetKeeps, ClearHaltKeeps
<1>5. CASE Quiesce \/ Tick BY <1>5, OutsideKeeps
<1>6. CASE UNCHANGED vars
  BY <1>6 DEF vars, IapInvariant, TypeOK, Toggles, OneAtATime, ReplyKept,
     CommandsRunOnce, ReplyBeforeReset, Held, Up
<1> QED BY <1>1, <1>2, <1>3, <1>4, <1>5, <1>6 DEF Next

\* However the host retries, resets, clears halts or never polls, an acknowledged
\* command runs once, the endpoint never wedges, and EnterBootloader's reply is
\* not overtaken by another reply or by the reset (iap.c 388-499, usb_device.c
\* 769-813)
THEOREM IapInvariantHolds == Spec => []IapInvariant
<1> QED BY InitHolds, StepKeeps, PTL DEF Spec

\* Of it, what the host is owed
THEOREM CommandsRunOnceHolds == Spec => []CommandsRunOnce
<1>1. IapInvariant => CommandsRunOnce BY DEF IapInvariant
<1> QED BY <1>1, IapInvariantHolds, PTL
=============================================================================
