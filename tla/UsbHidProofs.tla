---------------------------- MODULE UsbHidProofs ----------------------------
(***************************************************************************)
(* The HID half of the USB device, proved for every queue depth, key set   *)
(* and set of other endpoints.  The transfer in flight is the head of the  *)
(* queue (HeadInFlight), and the queue implements the channel of           *)
(* KeyChannel; a suspend episode has one pulse, and only for a report the  *)
(* host let ask for it (WakeOnce, WakeAsked); a queue that holds a state   *)
(* has it armed (QueueArmed); no key and no button is stuck (KeysSettle,   *)
(* OthersSettle).                                                          *)
(*                                                                         *)
(* The hypotheses of the last three are those of the runs: the README      *)
(* says, for each, what fails without it.                                  *)
(***************************************************************************)
EXTENDS UsbHid, SequenceTheorems, TLAPS

-----------------------------------------------------------------------------
(* Sequences *)

Queues == {s \in Seq(States) : Len(s) <= Slots}

\* What usb_kbd_q_push leaves: a queue that is not empty, with the old head.
LEMMA PushKeepsHead ==
  ASSUME NEW s \in Queues, NEW k \in States
  PROVE  /\ Push(s, k) \in Queues
         /\ Push(s, k) # <<>>
         /\ s # <<>> => Head(Push(s, k)) = Head(s)
<1> USE SlotsAssumption DEF Queues
<1>1. CASE s # <<>> /\ Newest(s) = k
  BY <1>1 DEF Push
<1>2. CASE ~(s # <<>> /\ Newest(s) = k) /\ Len(s) < Slots
  <2>1. Push(s, k) = Append(s, k)
    BY <1>2 DEF Push
  <2> QED
    BY <2>1, <1>2
<1>3. CASE ~(s # <<>> /\ Newest(s) = k) /\ ~(Len(s) < Slots)
  <2>1. Push(s, k) = [s EXCEPT ![Len(s)] = k] /\ Len(s) = Slots
    BY <1>3 DEF Push
  <2> QED
    BY <2>1
<1> QED
  BY <1>1, <1>2, <1>3

\* Dropping the head commutes with appending and with replacing the newest.
LEMMA TailAppend ==
  ASSUME NEW s \in Queues, s # <<>>, NEW k \in States
  PROVE  Tail(Append(s, k)) = Append(Tail(s), k)
<1> DEFINE l == Tail(Append(s, k))  r == Append(Tail(s), k)
<1>1. Len(l) = Len(r) /\ l \in Seq(States) /\ r \in Seq(States)
  BY DEF Queues
<1>2. \A i \in 1 .. Len(l) : l[i] = r[i]
  BY DEF Queues
<1> HIDE DEF l, r
<1>3. l = r
  BY <1>1, <1>2, SeqEqual
<1> QED
  BY <1>3 DEF l, r

LEMMA TailExcept ==
  ASSUME NEW s \in Queues, Len(s) >= 2, NEW k \in States
  PROVE  Tail([s EXCEPT ![Len(s)] = k]) = [Tail(s) EXCEPT ![Len(Tail(s))] = k]
<1> DEFINE n == Len(s)
           e == [s EXCEPT ![n] = k]
           t == Tail(s)
           r == [t EXCEPT ![n - 1] = k]
<1>1. n \in Nat /\ n >= 2 /\ s \in Seq(States)
  BY DEF Queues
<1>2. e \in Seq(States) /\ Len(e) = n
  BY <1>1
<1>3. t \in Seq(States) /\ Len(t) = n - 1
  BY <1>1
<1>4. Tail(e) \in Seq(States) /\ Len(Tail(e)) = n - 1
  BY <1>1, <1>2
<1>5. r \in Seq(States) /\ Len(r) = n - 1
  BY <1>1, <1>3
<1>6. ASSUME NEW i \in 1 .. n - 1
      PROVE  Tail(e)[i] = r[i]
  <2>1. Tail(e)[i] = e[i + 1] /\ t[i] = s[i + 1]
    BY <1>1, <1>2
  <2>2. e[i + 1] = IF i = n - 1 THEN k ELSE s[i + 1]
    BY <1>1
  <2>3. r[i] = IF i = n - 1 THEN k ELSE t[i]
    <3>1. n - 1 \in 1 .. Len(t) /\ i \in 1 .. Len(t)
      BY <1>1, <1>3
    <3>2. t \in Seq(States) /\ k \in States
      BY <1>3
    <3> HIDE DEF t, n
    <3> QED
      BY <3>1, <3>2, ExceptSeq
  <2> QED
    BY <2>1, <2>2, <2>3
<1> HIDE DEF e, r
<1>7. Tail(e) = r
  BY <1>4, <1>5, <1>6, SeqEqual
<1> QED
  BY <1>3, <1>7 DEF e, r

-----------------------------------------------------------------------------
(* What usb_ep1_service and the two senders leave behind *)

\* HeadInFlight, of any queue, ownership and endpoints
InFlight(s, own, eps) ==
  /\ own <=> eps[1].ack
  /\ eps[1].done => eps[1].ack
  /\ own => s # <<>> /\ eps[1].buf = Head(s)

IInv == TypeOK /\ HeadInFlight

\* A step that offers the queue some state, or leaves it alone
OfferStep ==
  /\ \E k \in States : kq' \in {kq, Push(kq, k)}
  /\ ep'[1].done = ep[1].done
  /\ irq'.reset = irq.reset
  /\ host'[1] = host[1]

LEMMA ServiceKeeps ==
  ASSUME TypeOK, NEW s \in Queues, NEW own \in BOOLEAN, NEW eps \in Endpoints,
         InFlight(s, own, eps), Service(s, own, eps)
  PROVE  /\ kq' = s
         /\ owned' \in BOOLEAN
         /\ ep' \in Endpoints
         /\ ep'[1].done = eps[1].done
         /\ InFlight(kq', owned', ep')
<1>1. kq' = s
  BY DEF Service
<1>2. CASE Serves(s, own)
  <2>1. s # <<>> /\ Head(s) \in States /\ ~own
    BY <1>2 DEF Serves, Queues
  <2>2. owned' = TRUE
       /\ ep' = [eps EXCEPT ![1].ack = TRUE, ![1].buf = Head(s)]
    BY <1>2, <2>1 DEF Service
  <2>3. ep' \in Endpoints /\ ep'[1] = [eps[1] EXCEPT !.ack = TRUE, !.buf = Head(s)]
    BY <2>1, <2>2 DEF Endpoints, Eps
  <2>4. /\ ep'[1].ack = TRUE /\ ep'[1].done = eps[1].done
        /\ ep'[1].buf = Head(s)
    BY <2>3 DEF Endpoints, Eps
  <2> QED
    BY <1>1, <2>1, <2>2, <2>3, <2>4 DEF InFlight
<1>3. CASE ~Serves(s, own)
  <2>1. owned' = own /\ ep' = eps
    BY <1>3 DEF Service
  <2> QED
    BY <1>1, <2>1 DEF InFlight
<1> QED
  BY <1>2, <1>3

LEMMA NakKeeps ==
  ASSUME NEW eps \in Endpoints, NEW E
  PROVE  /\ Nak(eps, E) \in Endpoints
         /\ Nak(eps, E)[1].ack = (eps[1].ack /\ 1 \notin E)
         /\ Nak(eps, E)[1].done = eps[1].done
         /\ Nak(eps, E)[1].buf = eps[1].buf
         /\ 1 \notin E => Nak(eps, E)[1] = eps[1]
BY DEF Nak, Endpoints, Eps

\* The halt of another endpoint: its report is gone for good.
LEMMA HaltKeeps ==
  ASSUME ep \in Endpoints, NEW e \in Others
  PROVE  LET new == [Nak(ep, {e}) EXCEPT ![e].lost = @ \/ ep[e].ack]
         IN  /\ new \in Endpoints
             /\ \A f \in Eps \ {e} : new[f] = ep[f]
             /\ new[1] = ep[1]
             /\ ~new[e].ack /\ new[e].done = ep[e].done
             /\ new[e].lost = (ep[e].lost \/ ep[e].ack)
<1>1. e # 1 /\ e \in Eps /\ 1 \in Eps
  BY EndpointAssumption DEF Eps
<1> DEFINE nak == Nak(ep, {e})
<1>2. nak \in Endpoints
  BY NakKeeps
<1>3. /\ \A f \in Eps \ {e} : nak[f] = ep[f]
      /\ ~nak[e].ack /\ nak[e].done = ep[e].done /\ nak[e].lost = ep[e].lost
  BY <1>1 DEF Nak, Endpoints
<1>4. ep[e] \in [ack: BOOLEAN, done: BOOLEAN, buf: States, lost: BOOLEAN]
  BY <1>1 DEF Endpoints
<1> HIDE DEF nak
<1> QED BY <1>1, <1>2, <1>3, <1>4 DEF Endpoints, nak

\* Arming one of the other endpoints leaves the keyboard's alone.
LEMMA ArmKeeps ==
  ASSUME ep \in Endpoints, NEW e \in Others, NEW v \in States
  PROVE  /\ Armed(e, v) \in Endpoints
         /\ \A f \in Eps \ {e} : Armed(e, v)[f] = ep[f]
         /\ Armed(e, v)[1] = ep[1]
         /\ Armed(e, v)[e].ack /\ Armed(e, v)[e].buf = v
         /\ Armed(e, v)[e].done = ep[e].done
         /\ Armed(e, v)[e].lost = ep[e].done
<1> DEFINE entry == [ep[e] EXCEPT !.ack = TRUE, !.buf = v, !.lost = ep[e].done]
<1>1. e # 1 /\ e \in Eps /\ 1 \in Eps
  BY EndpointAssumption DEF Eps
<1>2. ep[e] \in [ack: BOOLEAN, done: BOOLEAN, buf: States, lost: BOOLEAN]
  BY <1>1 DEF Endpoints
<1>3. /\ entry \in [ack: BOOLEAN, done: BOOLEAN, buf: States, lost: BOOLEAN]
      /\ entry.ack /\ entry.buf = v /\ entry.done = ep[e].done /\ entry.lost = ep[e].done
  BY <1>2
<1>4. Armed(e, v) = [ep EXCEPT ![e] = entry]
  BY DEF Armed
<1> HIDE DEF entry
<1> QED
  BY <1>1, <1>3, <1>4 DEF Endpoints

\* A report for the keyboard, or for one of the other endpoints
LEMMA SendKeyboardKeeps ==
  ASSUME IInv, NEW k \in States, SendKeyboard(k)
  PROVE  /\ kq' \in {kq, Push(kq, k)} /\ kq' \in Queues
         /\ owned' \in BOOLEAN /\ ep' \in Endpoints
         /\ ep'[1].done = ep[1].done
         /\ HeadInFlight'
         /\ rec' \in SUBSET Eps
         /\ wake' \in [armed: BOOLEAN, request: BOOLEAN, inflight: BOOLEAN]
         /\ episode' \in [asked: BOOLEAN, pulses: 0 .. 2]
<1> DEFINE s == IF conf THEN Push(kq, k) ELSE kq
<1>1. kq \in Queues /\ owned \in BOOLEAN /\ ep \in Endpoints
      /\ InFlight(kq, owned, ep)
  BY DEF IInv, TypeOK, HeadInFlight, InFlight, Queues
<1>2. s \in Queues /\ InFlight(s, owned, ep)
  BY <1>1, PushKeepsHead DEF InFlight
<1>3. Service(s, owned, ep)
  BY DEF SendKeyboard
<1>4. /\ kq' = s /\ owned' \in BOOLEAN /\ ep' \in Endpoints
      /\ ep'[1].done = ep[1].done /\ InFlight(kq', owned', ep')
  BY <1>1, <1>2, <1>3, ServiceKeeps DEF IInv
<1>5. rec' \in SUBSET Eps
  BY DEF SendKeyboard, IInv, TypeOK
<1>6. /\ wake' \in [armed: BOOLEAN, request: BOOLEAN, inflight: BOOLEAN]
      /\ episode' \in [asked: BOOLEAN, pulses: 0 .. 2]
  BY DEF SendKeyboard, AskWake, AsksWake, Suspended, IInv, TypeOK
<1> QED
  BY <1>2, <1>4, <1>5, <1>6 DEF HeadInFlight, InFlight

LEMMA SendOtherKeeps ==
  ASSUME IInv, NEW e \in Others, NEW v \in States, SendOther(e, v)
  PROVE  /\ kq' = kq
         /\ owned' = owned /\ ep' \in Endpoints
         /\ ep'[1] = ep[1]
         /\ rec' \in SUBSET Eps
         /\ wake' \in [armed: BOOLEAN, request: BOOLEAN, inflight: BOOLEAN]
         /\ episode' \in [asked: BOOLEAN, pulses: 0 .. 2]
<1>2. ep' \in Endpoints /\ ep'[1] = ep[1]
  <2> DEFINE new == Armed(e, v)
  <2>1. ep \in Endpoints
    BY DEF IInv, TypeOK
  <2>2. new \in Endpoints /\ new[1] = ep[1]
    BY <2>1, ArmKeeps
  <2>3. ep' = new \/ ep' = ep
    BY DEF SendOther
  <2> QED
    BY <2>1, <2>2, <2>3
<1>3. kq' = kq /\ owned' = owned /\ rec' \in SUBSET Eps
  BY DEF SendOther, IInv, TypeOK
<1>4. /\ wake' \in [armed: BOOLEAN, request: BOOLEAN, inflight: BOOLEAN]
      /\ episode' \in [asked: BOOLEAN, pulses: 0 .. 2]
  BY DEF SendOther, AskWake, AsksWake, Suspended, IInv, TypeOK
<1> QED
  BY <1>2, <1>3, <1>4

LEMMA SendKeeps ==
  ASSUME IInv, NEW e \in Eps, NEW v \in States, Send(e, v)
  PROVE  /\ kq' \in {kq, Push(kq, v)} /\ kq' \in Queues
         /\ owned' \in BOOLEAN /\ ep' \in Endpoints
         /\ ep'[1].done = ep[1].done
         /\ HeadInFlight'
         /\ rec' \in SUBSET Eps
         /\ wake' \in [armed: BOOLEAN, request: BOOLEAN, inflight: BOOLEAN]
         /\ episode' \in [asked: BOOLEAN, pulses: 0 .. 2]
<1>1. CASE e = 1
  BY <1>1, SendKeyboardKeeps DEF Send
<1>2. CASE e # 1
  <2>1. e \in Others /\ SendOther(e, v)
    BY <1>2 DEF Eps, Send
  <2> QED
    BY <2>1, SendOtherKeeps DEF IInv, TypeOK, HeadInFlight, Queues
<1> QED
  BY <1>1, <1>2

-----------------------------------------------------------------------------
(* The steps, by the part of the system that takes them *)

Pcs == [at: Points, left: SUBSET Others, edged: BOOLEAN]

LEMMA GotoType ==
  ASSUME pc \in Pcs, NEW p \in Points, NEW E \in SUBSET Others
  PROVE  Goto(p) \in Pcs /\ [Goto(p) EXCEPT !.left = E] \in Pcs
BY DEF Goto, Pcs

\* What leaves the queue, the transfer and the host's keys alone offers nothing.
LEMMA QuietStep ==
  ASSUME IInv, UNCHANGED <<kq, owned>>, ep' \in Endpoints, ep'[1] = ep[1],
         irq'.reset = irq.reset, host'[1] = host[1]
  PROVE  HeadInFlight' /\ OfferStep
BY DEF IInv, HeadInFlight, OfferStep, States

LEMMA RadioStep ==
  ASSUME IInv, Radio
  PROVE  IInv' /\ OfferStep
<1> USE DEF Queues
<1>1. ASSUME NEW e \in Eps, NEW v \in States, ReportDirect(e, v)
      PROVE  IInv' /\ OfferStep
  <2>1. Send(e, v) /\ src' = [src EXCEPT ![e] = v]
    BY <1>1 DEF ReportDirect
  <2>2. /\ kq' \in {kq, Push(kq, v)} /\ kq' \in Queues
        /\ owned' \in BOOLEAN /\ ep' \in Endpoints
        /\ ep'[1].done = ep[1].done
        /\ HeadInFlight'
        /\ rec' \in SUBSET Eps
        /\ wake' \in [armed: BOOLEAN, request: BOOLEAN, inflight: BOOLEAN]
        /\ episode' \in [asked: BOOLEAN, pulses: 0 .. 2]
    BY <2>1, SendKeeps
  <2>3. UNCHANGED <<conf, bus, susp, irq, resume, latch, pc, host>>
    BY <1>1 DEF ReportDirect
  <2>4. TypeOK'
    BY <2>1, <2>2, <2>3 DEF IInv, TypeOK
  <2> QED
    BY <2>2, <2>3, <2>4 DEF IInv, OfferStep
<1>2. ASSUME NEW e \in Eps, NEW v \in States, ReportLatch(e, v)
      PROVE  IInv' /\ OfferStep
  <2>1. TypeOK'
    BY <1>2 DEF ReportLatch, IInv, TypeOK, Reports
  <2> QED
    BY <1>2, <2>1, QuietStep DEF ReportLatch, IInv, TypeOK
<1>3. CASE LinkLost
  <2>1. kq \in Queues /\ owned \in BOOLEAN /\ ep \in Endpoints
        /\ InFlight(kq, owned, ep) /\ Up \in States
    BY DEF IInv, TypeOK, HeadInFlight, InFlight, States
  <2> DEFINE s == IF conf THEN Push(kq, Up) ELSE kq
  <2>2. s \in Queues /\ InFlight(s, owned, ep)
    BY <2>1, PushKeepsHead DEF InFlight
  <2>3. Service(s, owned, ep)
    BY <1>3 DEF LinkLost
  <2>4. /\ kq' = s /\ owned' \in BOOLEAN /\ ep' \in Endpoints
        /\ ep'[1].done = ep[1].done /\ InFlight(kq', owned', ep')
    BY <2>1, <2>2, <2>3, ServiceKeeps DEF IInv
  <2>5. pc' \in Pcs
    BY <1>3, GotoType DEF LinkLost, IInv, TypeOK, Pcs, Points
  <2>6. src' \in [Eps -> States]
    BY <1>3, <2>1 DEF LinkLost, IInv, TypeOK
  <2>7. UNCHANGED <<conf, bus, susp, irq, resume, rec, wake, latch, host, episode>>
    BY <1>3 DEF LinkLost
  <2>8. TypeOK'
    BY <2>2, <2>4, <2>5, <2>6, <2>7 DEF IInv, TypeOK, Pcs
  <2> QED
    BY <2>1, <2>4, <2>7, <2>8 DEF IInv, HeadInFlight, InFlight, OfferStep
<1>4. CASE LinkLostCheck
  <2>1. pc' \in Pcs
    BY <1>4, GotoType DEF LinkLostCheck, IInv, TypeOK, Pcs, Points
  <2>2. TypeOK'
    BY <1>4, <2>1 DEF LinkLostCheck, IInv, TypeOK, Pcs
  <2> QED
    BY <1>4, <2>2, QuietStep DEF LinkLostCheck, IInv, TypeOK
<1>5. CASE LinkLostForward
  <2>1. pc' \in Pcs /\ Up \in States /\ 1 \in Eps
    BY <1>5, GotoType DEF LinkLostForward, IInv, TypeOK, Pcs, Points, States, Eps
  <2>2. UNCHANGED <<conf, bus, susp, irq, resume, host, src>>
    BY <1>5 DEF LinkLostForward
  <2>3. CASE Deferred
    <3>1. latch' \in Reports /\ UNCHANGED <<kq, owned, ep, rec, wake, episode>>
      <4>1. [full |-> TRUE, at |-> 1, val |-> Up] \in Reports
        BY <2>1 DEF Reports
      <4> QED
        BY <1>5, <2>3, <4>1 DEF LinkLostForward
    <3>2. TypeOK'
      BY <2>1, <2>2, <3>1 DEF IInv, TypeOK, Pcs
    <3> QED
      BY <2>2, <3>1, <3>2, QuietStep DEF IInv, TypeOK
  <2>4. CASE ~Deferred
    <3>1. SendKeyboard(Up) /\ latch' = latch
      BY <1>5, <2>4 DEF LinkLostForward
    <3>2. /\ kq' \in {kq, Push(kq, Up)} /\ kq' \in Queues
          /\ owned' \in BOOLEAN /\ ep' \in Endpoints
          /\ ep'[1].done = ep[1].done
          /\ HeadInFlight'
          /\ rec' \in SUBSET Eps
          /\ wake' \in [armed: BOOLEAN, request: BOOLEAN, inflight: BOOLEAN]
          /\ episode' \in [asked: BOOLEAN, pulses: 0 .. 2]
      BY <2>1, <3>1, SendKeyboardKeeps
    <3>3. TypeOK'
      BY <2>1, <2>2, <3>1, <3>2 DEF IInv, TypeOK, Pcs
    <3> QED
      BY <2>1, <2>2, <3>2, <3>3 DEF IInv, OfferStep
  <2> QED
    BY <2>3, <2>4
<1> QED
  BY <1>1, <1>2, <1>3, <1>4, <1>5 DEF Radio

LEMMA MainLoopStep ==
  ASSUME IInv, MainLoop
  PROVE  IInv' /\ OfferStep
<1> USE DEF Queues
<1>0. /\ kq \in Queues /\ owned \in BOOLEAN /\ ep \in Endpoints
      /\ InFlight(kq, owned, ep) /\ Up \in States /\ pc \in Pcs /\ 1 \in Eps
  BY DEF IInv, TypeOK, HeadInFlight, InFlight, States, Pcs, Eps
<1>1. CASE ForwardPump
  <2>1. /\ latch' \in Reports
        /\ UNCHANGED <<conf, bus, susp, irq, resume, pc, host, src>>
    BY <1>0, <1>1 DEF ForwardPump, NoLatch, Reports
  <2>2. CASE conf
    <3>1. Send(latch.at, latch.val) /\ latch.at \in Eps /\ latch.val \in States
      BY <1>1, <2>2 DEF ForwardPump, IInv, TypeOK, Reports
    <3>2. /\ kq' \in {kq, Push(kq, latch.val)} /\ kq' \in Queues
          /\ owned' \in BOOLEAN /\ ep' \in Endpoints
          /\ ep'[1].done = ep[1].done
          /\ HeadInFlight'
          /\ rec' \in SUBSET Eps
          /\ wake' \in [armed: BOOLEAN, request: BOOLEAN, inflight: BOOLEAN]
          /\ episode' \in [asked: BOOLEAN, pulses: 0 .. 2]
      BY <3>1, SendKeeps
    <3>3. TypeOK'
      BY <2>1, <3>2 DEF IInv, TypeOK
    <3> QED
      BY <2>1, <3>1, <3>2, <3>3 DEF IInv, OfferStep
  <2>3. CASE ~conf
    <3>1. UNCHANGED <<kq, owned, ep, rec, wake, episode>>
      BY <1>1, <2>3 DEF ForwardPump
    <3>2. TypeOK'
      BY <2>1, <3>1 DEF IInv, TypeOK
    <3> QED
      BY <1>0, <2>1, <3>1, <3>2, QuietStep DEF IInv
  <2> QED
    BY <2>2, <2>3
<1>2. CASE PollResume
  <2>1. pc' \in Pcs
    BY <1>0, <1>2, GotoType DEF PollResume, Points
  <2>2. TypeOK'
    BY <1>2, <2>1 DEF PollResume, IInv, TypeOK, Pcs
  <2> QED
    BY <1>0, <1>2, <2>2, QuietStep DEF PollResume, IInv
<1>3. CASE PollClear
  <2>1. pc' \in Pcs
    BY <1>0, <1>3, GotoType DEF PollClear, Points
  <2>2. TypeOK'
    BY <1>3, <2>1 DEF PollClear, IInv, TypeOK, Pcs
  <2> QED
    BY <1>0, <1>3, <2>2, QuietStep DEF PollClear, IInv
<1>4. CASE ReconcileKeyboard
  <2>1. pc' \in Pcs
    <3>1. Goto("idle") \in Pcs /\ [Goto("others") EXCEPT !.left = Others] \in Pcs
      BY <1>0, GotoType DEF Points
    <3> QED
      BY <1>4, <3>1 DEF ReconcileKeyboard
  <2>2. UNCHANGED <<conf, bus, susp, irq, resume, wake, latch, host, src, episode>>
    BY <1>4 DEF ReconcileKeyboard
  <2>3. CASE FlushesKeys
    <3> DEFINE s == IF kq = <<>> THEN Push(kq, Up) ELSE kq
    <3>1. s \in Queues /\ InFlight(s, owned, ep) /\ s \in {kq, Push(kq, Up)}
      BY <1>0, PushKeepsHead DEF InFlight
    <3>2. Service(s, owned, ep) /\ rec' = rec \ {1}
      BY <1>4, <2>3 DEF ReconcileKeyboard
    <3>3. /\ kq' = s /\ owned' \in BOOLEAN /\ ep' \in Endpoints
          /\ ep'[1].done = ep[1].done /\ InFlight(kq', owned', ep')
      BY <1>0, <3>1, <3>2, ServiceKeeps DEF IInv
    <3>4. TypeOK'
      BY <2>1, <2>2, <3>1, <3>2, <3>3 DEF IInv, TypeOK, Pcs
    <3> QED
      BY <1>0, <2>2, <3>1, <3>3, <3>4 DEF IInv, HeadInFlight, InFlight, OfferStep
  <2>4. CASE ~FlushesKeys
    <3>1. UNCHANGED <<rec, kq, owned, ep>>
      BY <1>4, <2>4 DEF ReconcileKeyboard
    <3>2. TypeOK'
      BY <2>1, <2>2, <3>1 DEF IInv, TypeOK, Pcs
    <3> QED
      BY <1>0, <2>2, <3>1, <3>2, QuietStep DEF IInv
  <2> QED
    BY <2>3, <2>4
<1>5. CASE ReconcileOther
  <2>1. PICK e \in pc.left :
          /\ IF Flushes(e)
               THEN /\ rec' = rec \ {e}
                    /\ ep' = Armed(e, Up)
               ELSE UNCHANGED <<rec, ep>>
          /\ pc' = IF pc.left = {e} THEN Goto("idle")
                   ELSE [Goto("others") EXCEPT !.left = pc.left \ {e}]
    BY <1>5 DEF ReconcileOther
  <2>2. e \in Others /\ pc.left \in SUBSET Others
    BY <1>0 DEF Pcs
  <2>3. pc' \in Pcs
    <3>1. /\ Goto("idle") \in Pcs
          /\ [Goto("others") EXCEPT !.left = pc.left \ {e}] \in Pcs
      BY <1>0, <2>2, GotoType DEF Points
    <3> QED
      BY <2>1, <3>1
  <2>4. ep' \in Endpoints /\ ep'[1] = ep[1]
    <3> DEFINE new == Armed(e, Up)
    <3>1. new \in Endpoints /\ new[1] = ep[1]
      BY <1>0, <2>2, ArmKeeps
    <3>2. ep' = new \/ ep' = ep
      BY <2>1
    <3> QED
      BY <1>0, <3>1, <3>2
  <2>5. rec' \in SUBSET Eps
    BY <2>1 DEF IInv, TypeOK
  <2>6. UNCHANGED <<conf, bus, susp, irq, kq, owned, resume, wake, latch, host, src, episode>>
    BY <1>5 DEF ReconcileOther
  <2>7. TypeOK'
    BY <2>3, <2>4, <2>5, <2>6 DEF IInv, TypeOK, Pcs
  <2> QED
    BY <2>4, <2>6, <2>7, QuietStep DEF IInv
<1>6. CASE WakeCheck
  <2>1. pc' \in Pcs
    BY <1>0, <1>6, GotoType DEF WakeCheck, Points
  <2>2. TypeOK'
    BY <1>6, <2>1 DEF WakeCheck, IInv, TypeOK, Pcs
  <2> QED
    BY <1>0, <1>6, <2>2, QuietStep DEF WakeCheck, IInv
<1>7. CASE WakeClaim
  <2>1. pc' \in Pcs
    <3>1. Goto("idle") \in Pcs /\ Goto("drive") \in Pcs
      BY <1>0, GotoType DEF Points
    <3> QED
      BY <1>7, <3>1 DEF WakeClaim
  <2>2. wake' \in [armed: BOOLEAN, request: BOOLEAN, inflight: BOOLEAN]
    BY <1>7 DEF WakeClaim, IInv, TypeOK
  <2>3. TypeOK'
    BY <1>7, <2>1, <2>2 DEF WakeClaim, IInv, TypeOK, Pcs
  <2> QED
    BY <1>0, <1>7, <2>3, QuietStep DEF WakeClaim, IInv
<1>8. CASE WakeDrive
  <2>1. pc' \in Pcs
    <3>1. Goto("idle") \in Pcs /\ Goto("pulse") \in Pcs
      BY <1>0, GotoType DEF Points
    <3> QED
      BY <1>8, <3>1 DEF WakeDrive
  <2>2. episode' \in [asked: BOOLEAN, pulses: 0 .. 2]
    BY <1>8 DEF WakeDrive, IInv, TypeOK
  <2>3. TypeOK'
    BY <1>8, <2>1, <2>2 DEF WakeDrive, IInv, TypeOK, Pcs
  <2> QED
    BY <1>0, <1>8, <2>3, QuietStep DEF WakeDrive, IInv
<1>9. CASE PulseEnds
  <2>1. pc' \in Pcs
    BY <1>0, <1>9, GotoType DEF PulseEnds, Points
  <2>2. TypeOK'
    BY <1>9, <2>1 DEF PulseEnds, IInv, TypeOK, Pcs
  <2> QED
    BY <1>0, <1>9, <2>2, QuietStep DEF PulseEnds, IInv
<1> QED
  BY <1>1, <1>2, <1>3, <1>4, <1>5, <1>6, <1>7, <1>8, <1>9 DEF MainLoop

\* What the host has still to see, as DeliversInOrder reads it off the state
Owed == IF irq.reset THEN <<>> ELSE IF ep[1].done THEN Tail(kq) ELSE kq

Keeps    == Owed' = Owed /\ host'[1] = host[1]
Collects == Owed # <<>> /\ host'[1] = Head(Owed) /\ Owed' = Tail(Owed)
Forgets  == Owed' = <<>> /\ host'[1] = Up

\* Nothing is done with a transfer while one is waiting for its interrupt.
LEMMA NoneCollected ==
  ASSUME IInv, Collected = {}
  PROVE  ep[1].done = FALSE
BY DEF Collected, IInv, TypeOK, Endpoints, Eps

LEMMA InterruptStep ==
  ASSUME IInv, Interrupts
  PROVE  IInv' /\ (OfferStep \/ Keeps)
<1> USE DEF Queues
<1>0. /\ kq \in Queues /\ owned \in BOOLEAN /\ ep \in Endpoints
      /\ InFlight(kq, owned, ep) /\ Up \in States /\ 1 \in Eps
  BY DEF IInv, TypeOK, HeadInFlight, InFlight, States, Eps
<1>1. CASE TransferKeyboard
  <2> DEFINE eps == [ep EXCEPT ![1].ack = FALSE, ![1].done = FALSE]
             entry == [ep[1] EXCEPT !.ack = FALSE, !.done = FALSE]
  <2>1. ep[1].done /\ owned /\ kq # <<>>
    BY <1>1, <1>0 DEF TransferKeyboard, InFlight
  <2>2. /\ Service(Tail(kq), FALSE, eps)
        /\ UNCHANGED <<conf, bus, susp, irq, resume, rec, wake, latch, pc, host, src, episode>>
    BY <1>1, <2>1 DEF TransferKeyboard, Retire
  <2>3. eps \in Endpoints /\ eps[1].ack = FALSE /\ eps[1].done = FALSE
    <3>1. ep[1] \in [ack: BOOLEAN, done: BOOLEAN, buf: States, lost: BOOLEAN]
      BY <1>0 DEF Endpoints
    <3>2. entry \in [ack: BOOLEAN, done: BOOLEAN, buf: States, lost: BOOLEAN]
          /\ entry.ack = FALSE /\ entry.done = FALSE
      BY <3>1
    <3>3. eps = [ep EXCEPT ![1] = entry]
      BY <1>0 DEF Endpoints
    <3> HIDE DEF eps, entry
    <3> QED
      BY <1>0, <3>2, <3>3 DEF Endpoints
  <2> HIDE DEF eps
  <2>4. Tail(kq) \in Queues /\ InFlight(Tail(kq), FALSE, eps)
    <3>1. Tail(kq) \in Queues
      BY <1>0, <2>1, SlotsAssumption
    <3> QED
      BY <2>3, <3>1 DEF InFlight
  <2>5. /\ kq' = Tail(kq) /\ owned' \in BOOLEAN /\ ep' \in Endpoints
        /\ ep'[1].done = FALSE /\ InFlight(kq', owned', ep')
    BY <2>2, <2>3, <2>4, ServiceKeeps DEF IInv
  <2>6. TypeOK'
    BY <2>2, <2>4, <2>5 DEF IInv, TypeOK
  <2>7. Keeps
    BY <2>1, <2>2, <2>5 DEF Keeps, Owed
  <2> QED
    BY <2>5, <2>6, <2>7 DEF IInv, HeadInFlight, InFlight
<1>2. ASSUME NEW e \in Others, TransferOther(e)
      PROVE  IInv' /\ OfferStep
  <2> DEFINE entry == [ep[e] EXCEPT !.ack = FALSE, !.done = FALSE]
  <2>1. e # 1 /\ e \in Eps
    BY EndpointAssumption DEF Eps
  <2>2. ep[e] \in [ack: BOOLEAN, done: BOOLEAN, buf: States, lost: BOOLEAN]
    BY <1>0, <2>1 DEF Endpoints
  <2>3. entry \in [ack: BOOLEAN, done: BOOLEAN, buf: States, lost: BOOLEAN]
    BY <2>2
  <2>4. ep' = [ep EXCEPT ![e] = entry]
    BY <1>0, <1>2, <2>1 DEF TransferOther, Endpoints
  <2>5. ep' \in Endpoints /\ ep'[1] = ep[1]
    BY <1>0, <2>1, <2>3, <2>4 DEF Endpoints
  <2>6. UNCHANGED <<conf, bus, susp, irq, kq, owned, resume, rec, wake, latch, pc, host, src, episode>>
    BY <1>2 DEF TransferOther
  <2>7. TypeOK'
    BY <2>5, <2>6 DEF IInv, TypeOK
  <2> QED
    BY <2>5, <2>6, <2>7, QuietStep DEF IInv
<1>3. CASE BusResetIsr
  <2>1. /\ kq' = <<>> /\ owned' = FALSE /\ ep' = Nak(ep, Eps)
        /\ irq.reset /\ irq' = [irq EXCEPT !.reset = FALSE] /\ host' = host
        /\ ep[1].done = FALSE
    BY <1>3, NoneCollected DEF BusResetIsr
  <2>2. /\ ep' \in Endpoints /\ ep'[1].ack = FALSE /\ ep'[1].done = FALSE
    BY <1>0, <2>1, NakKeeps
  <2>3. TypeOK'
    <3>1. irq' \in [reset: BOOLEAN, edge: BOOLEAN]
      BY <2>1 DEF IInv, TypeOK
    <3>2. wake' \in [armed: BOOLEAN, request: BOOLEAN, inflight: BOOLEAN]
      BY <1>3 DEF BusResetIsr
    <3>3. kq' \in Seq(States) /\ Len(kq') <= Slots
      BY <2>1, SlotsAssumption
    <3>4. UNCHANGED <<bus, latch, pc, host, src, episode>>
      BY <1>3 DEF BusResetIsr
    <3>5. conf' = FALSE /\ susp' = FALSE /\ resume' = FALSE /\ rec' = {}
      BY <1>3 DEF BusResetIsr
    <3> QED
      BY <2>1, <2>2, <3>1, <3>2, <3>3, <3>4, <3>5 DEF IInv, TypeOK
  <2>4. HeadInFlight'
    BY <2>1, <2>2 DEF HeadInFlight
  <2>5. Keeps
    BY <2>1, <2>2 DEF Keeps, Owed, IInv, TypeOK
  <2> QED
    BY <2>3, <2>4, <2>5 DEF IInv
<1>4. CASE SuspendIsr
  <2>1. /\ kq' = kq /\ owned' = FALSE /\ ep' = Nak(ep, Eps)
        /\ irq' = [irq EXCEPT !.edge = FALSE] /\ host' = host
        /\ ep[1].done = FALSE
    BY <1>4, NoneCollected DEF SuspendIsr, Cancelled
  <2>2. /\ ep' \in Endpoints /\ ep'[1].ack = FALSE /\ ep'[1].done = FALSE
    BY <1>0, <2>1, NakKeeps
  <2>3. TypeOK'
    BY <1>4, <2>1, <2>2 DEF SuspendIsr, IInv, TypeOK
  <2>4. HeadInFlight'
    BY <2>1, <2>2 DEF HeadInFlight
  <2>5. OfferStep
    BY <1>0, <2>1, <2>2 DEF OfferStep, IInv, TypeOK
  <2> QED
    BY <2>3, <2>4, <2>5 DEF IInv
<1>5. CASE ResumeIsr
  <2>1. TypeOK'
    BY <1>5 DEF ResumeIsr, Reconciled, WakeOver, IInv, TypeOK
  <2> QED
    BY <1>0, <1>5, <2>1, QuietStep DEF ResumeIsr, IInv, TypeOK
<1> QED
  BY <1>1, <1>2, <1>3, <1>4, <1>5 DEF Interrupts

LEMMA EdgeType ==
  ASSUME IInv, Edge
  PROVE  pc' \in Pcs
BY DEF Edge, IInv, TypeOK, Pcs

LEMMA HostStep ==
  ASSUME IInv, Host
  PROVE  IInv' /\ (~Detaches => OfferStep \/ Collects \/ Forgets)
<1> USE DEF Queues
<1>0. /\ kq \in Queues /\ owned \in BOOLEAN /\ ep \in Endpoints
      /\ InFlight(kq, owned, ep) /\ Up \in States /\ 1 \in Eps
  BY DEF IInv, TypeOK, HeadInFlight, InFlight, States, Eps
<1>1. ASSUME NEW e \in Eps, HostPoll(e)
      PROVE  IInv' /\ (OfferStep \/ Collects)
  <2> DEFINE entry == [ep[e] EXCEPT !.done = TRUE]
  <2>1. ep[e] \in [ack: BOOLEAN, done: BOOLEAN, buf: States, lost: BOOLEAN] /\ ep[e].ack
    BY <1>0, <1>1 DEF HostPoll, Endpoints
  <2>2. entry \in [ack: BOOLEAN, done: BOOLEAN, buf: States, lost: BOOLEAN]
        /\ entry.done = TRUE /\ entry.ack = ep[e].ack /\ entry.buf = ep[e].buf
    BY <2>1
  <2>3. ep' = [ep EXCEPT ![e] = entry] /\ host' = [host EXCEPT ![e] = ep[e].buf]
    BY <1>1 DEF HostPoll
  <2>4. UNCHANGED <<conf, bus, susp, irq, kq, owned, resume, rec, wake, latch, pc, src, episode>>
    BY <1>1 DEF HostPoll
  <2> HIDE DEF entry
  <2>5. /\ ep' \in Endpoints /\ host' \in [Eps -> States]
        /\ ep'[e] = entry /\ (e # 1 => ep'[1] = ep[1])
    BY <1>0, <2>1, <2>2, <2>3 DEF Endpoints, IInv, TypeOK
  <2>6. TypeOK'
    BY <2>4, <2>5 DEF IInv, TypeOK
  <2>7. CASE e = 1
    <3>1. /\ owned /\ kq # <<>> /\ ep[1].buf = Head(kq) /\ ep[1].done = FALSE
          /\ ~irq.reset
      BY <1>0, <1>1, <2>1, <2>7, NoneCollected DEF HostPoll, Listens, Served, InFlight
    <3>2. HeadInFlight'
      BY <2>1, <2>2, <2>4, <2>5, <2>7, <3>1 DEF HeadInFlight
    <3>3. host'[1] = Head(kq)
      BY <1>0, <2>3, <2>7, <3>1 DEF IInv, TypeOK
    <3>4. Collects
      BY <2>2, <2>4, <2>5, <2>7, <3>1, <3>3 DEF Collects, Owed
    <3> QED
      BY <2>6, <3>2, <3>4 DEF IInv
  <2>8. CASE e # 1
    <3>1. host'[1] = host[1]
      BY <1>0, <2>3, <2>8 DEF IInv, TypeOK
    <3> QED
      BY <2>4, <2>5, <2>6, <2>8, <3>1, QuietStep DEF IInv
  <2> QED
    BY <2>7, <2>8
<1>2. ASSUME NEW c \in BOOLEAN, SetConfiguration(c)
      PROVE  IInv' /\ (~Detaches => OfferStep)
  <2>1. UNCHANGED <<bus, susp, irq, kq, owned, ep, resume, rec, wake, latch, pc, src, episode>>
        /\ conf' = c /\ host' = (IF c THEN host ELSE [e \in Eps |-> Up])
        /\ (~Detaches => c)
    BY <1>2 DEF SetConfiguration
  <2>2. TypeOK'
    BY <1>0, <2>1 DEF IInv, TypeOK
  <2>3. HeadInFlight'
    BY <2>1 DEF IInv, HeadInFlight
  <2>4. ~Detaches => OfferStep
    BY <1>0, <2>1 DEF OfferStep
  <2> QED
    BY <2>2, <2>3, <2>4 DEF IInv
<1>3. ASSUME NEW c \in BOOLEAN, SetFeature(c)
      PROVE  IInv' /\ OfferStep
  <2>1. TypeOK'
    BY <1>3 DEF SetFeature, IInv, TypeOK
  <2> QED
    BY <1>0, <1>3, <2>1, QuietStep DEF SetFeature, IInv
<1>4. ASSUME NEW e \in Halts, ClearHalt(e)
      PROVE  IInv' /\ OfferStep
  <2>1. UNCHANGED <<conf, bus, susp, irq, resume, rec, wake, latch, pc, host, src, episode>>
        /\ ep[1].done = FALSE
    BY <1>4, NoneCollected DEF ClearHalt, Listens, Served
  <2>2. CASE e = 1
    <3>1. Service(kq, FALSE, Nak(ep, {1}))
      BY <1>4, <2>2 DEF ClearHalt
    <3>2. Nak(ep, {1}) \in Endpoints /\ InFlight(kq, FALSE, Nak(ep, {1}))
          /\ Nak(ep, {1})[1].done = FALSE
      BY <1>0, <2>1, NakKeeps DEF InFlight
    <3>3. /\ kq' = kq /\ owned' \in BOOLEAN /\ ep' \in Endpoints
          /\ ep'[1].done = FALSE /\ InFlight(kq', owned', ep')
      BY <1>0, <3>1, <3>2, ServiceKeeps DEF IInv
    <3>4. TypeOK'
      BY <2>1, <3>3 DEF IInv, TypeOK
    <3> QED
      BY <1>0, <2>1, <3>3, <3>4 DEF IInv, HeadInFlight, InFlight, OfferStep
  <2>3. CASE e # 1
    <3>1. /\ ep' = [Nak(ep, {e}) EXCEPT ![e].lost = @ \/ ep[e].ack]
          /\ kq' = kq /\ owned' = owned
      BY <1>4, <2>3 DEF ClearHalt
    <3>2. ep' \in Endpoints /\ ep'[1] = ep[1]
      BY <1>0, <2>3, <3>1, HaltKeeps, EndpointAssumption
    <3>3. TypeOK'
      BY <2>1, <3>1, <3>2 DEF IInv, TypeOK
    <3> QED
      BY <2>1, <3>1, <3>2, <3>3, QuietStep DEF IInv
  <2> QED
    BY <2>2, <2>3
<1>5. CASE Suspend
  <2>1. pc' \in Pcs
    BY <1>5, EdgeType DEF Suspend
  <2>2. TypeOK'
    <3>1. irq' \in [reset: BOOLEAN, edge: BOOLEAN]
      BY <1>5 DEF Suspend, IInv, TypeOK
    <3>2. episode' \in [asked: BOOLEAN, pulses: 0 .. 2]
      BY <1>5 DEF Suspend, Awake
    <3> QED
      BY <1>5, <2>1, <3>1, <3>2 DEF Suspend, IInv, TypeOK, Pcs
  <2> QED
    BY <1>0, <1>5, <2>2, QuietStep DEF Suspend, IInv, TypeOK
<1>6. CASE Resume
  <2>1. pc' \in Pcs
    BY <1>6, EdgeType DEF Resume
  <2>2. TypeOK'
    BY <1>6, <2>1 DEF Resume, IInv, TypeOK, Pcs
  <2> QED
    BY <1>0, <1>6, <2>2, QuietStep DEF Resume, IInv, TypeOK
<1>7. CASE BusReset
  <2>1. pc' \in Pcs
    BY <1>7, EdgeType DEF BusReset
  <2>2. TypeOK'
    BY <1>0, <1>7, <2>1 DEF BusReset, IInv, TypeOK, Pcs
  <2>3. HeadInFlight'
    BY <1>7 DEF BusReset, IInv, HeadInFlight
  <2>4. Forgets
    BY <1>0, <1>7 DEF BusReset, Forgets, Owed
  <2> QED
    BY <2>2, <2>3, <2>4 DEF IInv
<1> QED
  BY <1>1, <1>2, <1>3, <1>4, <1>5, <1>6, <1>7 DEF Host

-----------------------------------------------------------------------------
(* The theorems *)

LEMMA InitHolds == Init => IInv
<1> SUFFICES ASSUME Init PROVE IInv
  OBVIOUS
<1>1. Up \in States /\ 1 \in Eps /\ <<>> \in Seq(States) /\ Len(<<>>) <= Slots
  BY SlotsAssumption DEF States, Eps
<1>2. NoLatch \in Reports /\ Awake \in [asked: BOOLEAN, pulses: 0 .. 2]
  BY <1>1 DEF NoLatch, Awake, Reports
<1>3. ep \in Endpoints /\ ep[1].ack = FALSE /\ ep[1].done = FALSE
  BY <1>1 DEF Init, Endpoints
<1>4. TypeOK
  BY <1>1, <1>2, <1>3 DEF Init, TypeOK, Points
<1> QED
  BY <1>3, <1>4 DEF Init, IInv, HeadInFlight

LEMMA StutterKeeps == IInv /\ UNCHANGED vars => IInv'
BY DEF vars, IInv, TypeOK, HeadInFlight

\* HeadInFlight is not inductive on its own: an action that arms or releases
\* a transfer is followed through the types of the queue and the endpoints.
THEOREM InvariantHolds == Spec => []IInv
<1>1. IInv /\ [Next]_vars => IInv'
  BY RadioStep, MainLoopStep, InterruptStep, HostStep, StutterKeeps DEF Next
<1> QED
  BY InitHolds, <1>1, PTL DEF Spec

\* Type correctness, for any queue depth, key set and choice of endpoints.
THEOREM TypeCorrect == Spec => []TypeOK
<1>1. IInv => TypeOK
  BY DEF IInv
<1> QED
  BY <1>1, InvariantHolds, PTL

\* The transfer in flight is always the head of the EP1 queue, so the
\* completion interrupt (usb_device.c, UIS_TOKEN_IN of EP1) retires the state
\* the host was given, whatever was pushed, coalesced or cancelled since.
THEOREM HeadInFlightHolds == Spec => []HeadInFlight
<1>1. IInv => HeadInFlight
  BY DEF IInv
<1> QED
  BY <1>1, InvariantHolds, PTL

\* An offered report is a new entry, a replacement of the newest, or neither.
LEMMA OfferMaps ==
  ASSUME IInv, OfferStep
  PROVE  Channel!Offer \/ Keeps
<1> USE DEF Queues
<1>0. kq \in Queues /\ (ep[1].done => kq # <<>>)
  BY DEF IInv, TypeOK, HeadInFlight
<1>1. /\ irq'.reset = irq.reset /\ ep'[1].done = ep[1].done
      /\ host'[1] = host[1]
  BY DEF OfferStep
<1>2. CASE irq.reset \/ kq' = kq
  BY <1>1, <1>2 DEF Keeps, Owed
<1>3. CASE ~irq.reset /\ kq' # kq
  <2>1. PICK k \in States : kq' = Push(kq, k)
    BY <1>3 DEF OfferStep
  <2>2. CASE Len(kq) < Slots
    <3>1. kq' = Append(kq, k)
      BY <1>3, <2>1, <2>2 DEF Push
    <3>2. Len(Owed) < Slots /\ Owed' = Append(Owed, k)
      <4>1. CASE ep[1].done
        <5>1. kq \in Queues /\ kq # <<>> /\ Tail(Append(kq, k)) = Append(Tail(kq), k)
          BY <1>0, <4>1, TailAppend
        <5>2. Len(Tail(kq)) < Slots
          BY <5>1, <2>2, SlotsAssumption
        <5> QED
          BY <1>1, <1>3, <3>1, <4>1, <5>1, <5>2 DEF Owed
      <4>2. CASE ~ep[1].done
        BY <1>1, <1>3, <2>2, <3>1, <4>2 DEF Owed
      <4> QED
        BY <4>1, <4>2
    <3> QED
      BY <1>1, <3>2 DEF Owed, Channel!Offer, Channel!Accept, Channel!States, States
  <2>3. CASE ~(Len(kq) < Slots)
    <3>1. kq' = [kq EXCEPT ![Len(kq)] = k] /\ Len(kq) = Slots /\ Slots >= 2
          /\ Slots \in Nat
      BY <1>0, <1>3, <2>1, <2>3, SlotsAssumption DEF Push
    <3>2. Len(Owed) >= Slots - 1 /\ Owed' = [Owed EXCEPT ![Len(Owed)] = k]
      <4>1. CASE ep[1].done
        <5>1. /\ Len(kq) >= 2 /\ Len(Tail(kq)) >= Slots - 1
              /\ Tail([kq EXCEPT ![Len(kq)] = k])
                   = [Tail(kq) EXCEPT ![Len(Tail(kq))] = k]
          <6>1. kq # <<>> /\ Len(kq) >= 2 /\ Len(Tail(kq)) = Len(kq) - 1
            BY <1>0, <3>1
          <6> QED
            BY <1>0, <3>1, <6>1, TailExcept
        <5>2. Owed = Tail(kq) /\ Owed' = Tail(kq')
          BY <1>1, <1>3, <4>1 DEF Owed
        <5>3. Owed' = Tail([kq EXCEPT ![Len(kq)] = k])
          BY <3>1, <5>2, Zenon
        <5> HIDE DEF Owed
        <5>4. [Owed EXCEPT ![Len(Owed)] = k]
                = [Tail(kq) EXCEPT ![Len(Tail(kq))] = k]
          BY <5>2, Zenon
        <5>5. Owed' = [Owed EXCEPT ![Len(Owed)] = k]
          BY <5>1, <5>3, <5>4, Zenon
        <5> QED
          BY <5>1, <5>2, <5>5, Zenon
      <4>2. CASE ~ep[1].done
        <5>1. Owed = kq /\ Owed' = kq'
          BY <1>1, <1>3, <4>2 DEF Owed
        <5>2. Len(kq) >= Slots - 1
          BY <3>1
        <5> QED
          BY <3>1, <5>1, <5>2, Zenon
      <4> QED
        BY <4>1, <4>2
    <3> QED
      BY <1>1, <3>2 DEF Owed, Channel!Offer, Channel!Coalesce, Channel!States, States
  <2> QED
    BY <2>2, <2>3
<1> QED
  BY <1>2, <1>3

\* The EP1 queue implements KeyChannel: unless the host selects configuration
\* 0, the keyboard states it sees are those offered to the queue, in their
\* order, each once, and only the newest is ever replaced.
THEOREM QueueImplementsChannel ==
  ASSUME ~Detaches
  PROVE  Spec => DeliversInOrder
<1> DEFINE owed == IF irq.reset THEN <<>>
                   ELSE IF ep[1].done THEN Tail(kq) ELSE kq
<1>1. Init => Channel!Init
  BY DEF Init, Channel!Init, Eps
<1>2. IInv /\ [Next]_vars => [Channel!Next]_<<owed, host[1]>>
  <2> SUFFICES ASSUME IInv, [Next]_vars
               PROVE  Channel!Next \/ Keeps
    BY DEF Keeps, Owed
  <2>1. CASE UNCHANGED vars
    BY <2>1 DEF vars, Keeps, Owed
  <2>2. CASE Radio \/ MainLoop
    BY <2>2, RadioStep, MainLoopStep, OfferMaps DEF Channel!Next
  <2>3. CASE Interrupts
    BY <2>3, InterruptStep, OfferMaps DEF Channel!Next
  <2>4. CASE Host
    <3>1. OfferStep \/ Collects \/ Forgets
      BY <2>4, HostStep
    <3>2. Collects => Channel!Collect
      BY DEF Collects, Owed, Channel!Collect
    <3>3. Forgets => Channel!Forget
      BY DEF Forgets, Owed, Channel!Forget
    <3> QED
      BY <3>1, <3>2, <3>3, OfferMaps DEF Channel!Next
  <2> QED
    BY <2>1, <2>2, <2>3, <2>4 DEF Next
<1> QED
  BY <1>1, <1>2, InvariantHolds, PTL DEF Spec, DeliversInOrder, Channel!Spec

-----------------------------------------------------------------------------
(* The wire, the flag, and the one pulse of a suspend episode *)

\* The wire and the flag differ only while the interrupt for an edge is pending.
BusKnown ==
  /\ susp /\ bus = "active" => irq.edge \/ irq.reset
  /\ bus = "suspended" => (susp \/ irq.edge) /\ ~irq.reset

\* One claim, one pulse.
WakeClaims ==
  /\ wake.request => Suspended /\ episode.asked
  /\ bus = "suspended" /\ episode.pulses > 0 => wake.inflight
  /\ pc.at = "wake" /\ (irq.edge \/ irq.reset) => pc.edged
  /\ pc.at = "drive" =>
       IF bus = "suspended" THEN wake.inflight /\ wake.armed /\ episode.asked /\ episode.pulses = 0
       ELSE pc.edged
  /\ episode.pulses <= 1

LEMMA GotoFields ==
  ASSUME pc \in Pcs, NEW p \in Points
  PROVE  /\ Goto(p).at = p /\ Goto(p).left = {}
         /\ Goto(p).edged = (pc.edged /\ p # "idle")
BY DEF Goto, Pcs

\* An edge of the bus finds every interrupt served.
LEMMA EdgeFields ==
  ASSUME TypeOK, Edge
  PROVE  /\ pc'.at = pc.at /\ pc'.left = pc.left /\ pc'.edged = (pc.at # "idle")
         /\ ~pc.edged /\ ~irq.reset /\ ~irq.edge /\ Collected = {}
BY DEF Edge, Served, TypeOK

\* What every step but those of the interrupts and the host leaves alone
LEMMA CallsLeaveBus ==
  ASSUME Radio \/ MainLoop
  PROVE  UNCHANGED <<conf, bus, susp, irq, host>>
<1>1. CASE Radio
  BY <1>1 DEF Radio, ReportDirect, ReportLatch, LinkLost, LinkLostCheck, LinkLostForward
<1>2. CASE MainLoop
  BY <1>2 DEF MainLoop, ForwardPump, PollResume, PollClear, ReconcileKeyboard,
              ReconcileOther, WakeCheck, WakeClaim, WakeDrive, PulseEnds
<1> QED BY <1>1, <1>2

LEMMA BusStep ==
  ASSUME TypeOK, BusKnown, [Next]_vars
  PROVE  BusKnown'
<1>i. irq \in [reset : BOOLEAN, edge : BOOLEAN] /\ bus \in {"active", "suspended"}
  BY DEF TypeOK
<1>1. CASE UNCHANGED <<bus, susp, irq>>
  BY <1>1 DEF BusKnown
<1>2. CASE Radio \/ MainLoop
  BY <1>1, <1>2, CallsLeaveBus
<1>3. CASE BusResetIsr
  BY <1>3, <1>i DEF BusResetIsr, BusKnown
<1>4. CASE SuspendIsr
  BY <1>4, <1>i DEF SuspendIsr, BusKnown
<1>5. CASE ResumeIsr
  BY <1>5, <1>i DEF ResumeIsr, BusKnown
<1>6. CASE TransferKeyboard \/ \E e \in Others : TransferOther(e)
  BY <1>1, <1>6 DEF TransferKeyboard, TransferOther
<1>7. CASE Suspend
  BY <1>7, <1>i, EdgeFields DEF Suspend, BusKnown
<1>8. CASE Resume
  BY <1>8, <1>i, EdgeFields DEF Resume, BusKnown
<1>9. CASE BusReset
  BY <1>9, <1>i, EdgeFields DEF BusReset, BusKnown
<1>10. CASE \/ \E e \in Eps : HostPoll(e)
            \/ \E c \in BOOLEAN : SetConfiguration(c) \/ SetFeature(c)
            \/ \E e \in Halts : ClearHalt(e)
  BY <1>1, <1>10 DEF HostPoll, SetConfiguration, SetFeature, ClearHalt
<1> QED BY <1>1, <1>2, <1>3, <1>4, <1>5, <1>6, <1>7, <1>8, <1>9, <1>10
        DEF Next, vars, Interrupts, Host

\* A report asks for a wake and remembers that it did, or changes neither.
LEMMA AskFields ==
  ASSUME TypeOK, AskWake
  PROVE  /\ wake'.armed = wake.armed /\ wake'.inflight = wake.inflight
         /\ episode'.pulses = episode.pulses
         /\ wake'.request => Suspended \/ wake.request
         /\ wake'.request => episode'.asked \/ (wake.request /\ ~episode.asked)
         /\ episode.asked => episode'.asked
BY DEF AskWake, AsksWake, Suspended, TypeOK

LEMMA SendAsks ==
  ASSUME NEW e \in Eps, NEW v \in States, Send(e, v)
  PROVE  AskWake
BY DEF Send, SendKeyboard, SendOther

LEMMA WakeStep ==
  ASSUME TypeOK, BusKnown, WakeClaims, [Next]_vars
  PROVE  /\ WakeClaims'
         /\ episode'.pulses > episode.pulses => episode.asked /\ wake.armed
<1> DEFINE Goal == /\ WakeClaims'
                   /\ episode'.pulses > episode.pulses => episode.asked /\ wake.armed
<1>t. /\ irq \in [reset : BOOLEAN, edge : BOOLEAN] /\ bus \in {"active", "suspended"}
      /\ wake \in [armed : BOOLEAN, request : BOOLEAN, inflight : BOOLEAN]
      /\ episode \in [asked : BOOLEAN, pulses : 0 .. 2] /\ pc \in Pcs
  BY DEF TypeOK, Pcs
<1>p. {"idle", "poll", "keyboard", "others", "wake", "drive", "pulse", "lost", "forward"}
        = Points
  BY DEF Points
\* Steps that touch neither the wake nor the episode, and end in another call
<1>f. ASSUME UNCHANGED <<bus, susp, irq, wake, episode>>,
             pc'.at \notin {"wake", "drive"} \/ (pc'.at = pc.at /\ pc'.edged = pc.edged)
      PROVE  Goal
  BY <1>f, <1>t DEF WakeClaims, Suspended
<1>a. ASSUME UNCHANGED <<bus, susp, irq>>, AskWake,
             pc' = pc \/ pc'.at = "idle"
      PROVE  Goal
  <2>1. /\ wake'.armed = wake.armed /\ wake'.inflight = wake.inflight
        /\ episode'.pulses = episode.pulses
        /\ wake'.request => Suspended \/ wake.request
        /\ wake'.request => episode'.asked \/ (wake.request /\ ~episode.asked)
        /\ episode.asked => episode'.asked
    BY <1>a, AskFields
  <2> QED BY <1>a, <2>1, <1>t DEF WakeClaims, Suspended
<1>1. CASE UNCHANGED vars
  BY <1>1, <1>f DEF vars
<1>2. CASE Radio
  <2>1. ASSUME NEW e \in Eps, NEW v \in States, ReportDirect(e, v) PROVE Goal
    BY <2>1, <1>a, SendAsks DEF ReportDirect
  <2>2. ASSUME NEW e \in Eps, NEW v \in States, ReportLatch(e, v) PROVE Goal
    BY <2>2, <1>f DEF ReportLatch
  <2>3. CASE LinkLost
    BY <2>3, <1>f, <1>t, <1>p, GotoFields DEF LinkLost
  <2>4. CASE LinkLostCheck
    BY <2>4, <1>f, <1>t, <1>p, GotoFields DEF LinkLostCheck
  <2>5. CASE LinkLostForward
    <3>1. pc'.at = "idle" /\ UNCHANGED <<bus, susp, irq>>
      BY <2>5, <1>t, <1>p, GotoFields DEF LinkLostForward
    <3>2. AskWake \/ UNCHANGED <<wake, episode>>
      BY <2>5 DEF LinkLostForward, SendKeyboard
    <3> QED BY <3>1, <3>2, <1>a, <1>f
  <2> QED BY <1>2, <2>1, <2>2, <2>3, <2>4, <2>5 DEF Radio
<1>3. CASE MainLoop
  <2>1. CASE ForwardPump
    <3>1. conf => latch.at \in Eps /\ latch.val \in States /\ Send(latch.at, latch.val)
      BY <2>1 DEF ForwardPump, TypeOK, Reports
    <3>2. conf => AskWake
      BY <3>1, SendAsks
    <3> QED BY <2>1, <3>2, <1>a, <1>f DEF ForwardPump
  <2>2. CASE PollResume
    BY <2>2, <1>f, <1>t, <1>p, GotoFields DEF PollResume
  <2>3. CASE PollClear
    BY <2>3, <1>f, <1>t, <1>p, GotoFields DEF PollClear
  <2>4. CASE ReconcileKeyboard
    <3>1. pc'.at \in {"idle", "others"}
      <4>1. Goto("idle").at = "idle" /\ [Goto("others") EXCEPT !.left = Others].at = "others"
        BY <1>t DEF Goto, Pcs
      <4> QED BY <2>4, <4>1 DEF ReconcileKeyboard
    <3> QED BY <2>4, <3>1, <1>f DEF ReconcileKeyboard
  <2>5. CASE ReconcileOther
    <3>1. pc'.at \in {"idle", "others"}
      <4>1. \A L : Goto("idle").at = "idle" /\ [Goto("others") EXCEPT !.left = L].at = "others"
        BY <1>t DEF Goto, Pcs
      <4> QED BY <2>5, <4>1 DEF ReconcileOther
    <3> QED BY <2>5, <3>1, <1>f DEF ReconcileOther
  <2>6. CASE WakeCheck
    <3>1. pc'.at = "wake" /\ ~irq.edge /\ ~irq.reset
      BY <2>6, <1>t, <1>p, GotoFields DEF WakeCheck, Unmasked, Served
    <3>2. UNCHANGED <<bus, susp, irq, wake, episode>>
      BY <2>6 DEF WakeCheck
    <3>3. irq'.edge = FALSE /\ irq'.reset = FALSE
      BY <3>1, <3>2, <1>t
    <3> QED BY <3>1, <3>2, <3>3, <1>t DEF WakeClaims, Suspended
  <2>7. CASE WakeClaim
    <3>1. pc.at = "wake" /\ UNCHANGED <<bus, susp, irq, episode>>
      BY <2>7 DEF WakeClaim
    <3>2. CASE ~Suspended \/ ~MayDrive
      <4>1. pc'.at = "idle" /\ wake' \in {wake, [wake EXCEPT !.request = FALSE]}
        BY <2>7, <3>2, <1>t, <1>p, GotoFields DEF WakeClaim
      <4>2. wake'.inflight = wake.inflight /\ wake'.armed = wake.armed
            /\ (wake'.request => wake.request)
        BY <4>1, <1>t
      <4> QED BY <3>1, <4>1, <4>2, <1>t DEF WakeClaims, Suspended
    <3>3. CASE Suspended /\ MayDrive
      <4>1. pc'.at = "drive" /\ pc'.edged = pc.edged
        BY <2>7, <3>3, <1>t, <1>p, GotoFields DEF WakeClaim, Pcs
      <4>2. wake'.inflight /\ wake'.armed = wake.armed /\ ~wake'.request
        BY <2>7, <3>3, <1>t DEF WakeClaim
      <4>3. wake.request /\ wake.armed /\ ~wake.inflight
        BY <3>3 DEF MayDrive
      <4>4. bus = "suspended" => episode.pulses = 0
        BY <4>3, <1>t DEF WakeClaims
      <4>5. bus = "active" => pc.edged
        BY <3>1, <3>3 DEF Suspended, BusKnown, WakeClaims
      <4> QED BY <3>1, <4>1, <4>2, <4>3, <4>4, <4>5, <1>t DEF WakeClaims, Suspended
    <3> QED BY <3>2, <3>3
  <2>8. CASE WakeDrive
    <3>1. pc.at = "drive" /\ ~irq.edge /\ ~irq.reset /\ UNCHANGED <<bus, susp, irq, wake>>
      BY <2>8 DEF WakeDrive, Unmasked, Served
    <3>2. CASE Suspended
      <4>1. bus = "suspended"
        BY <3>1, <3>2, <1>t DEF Suspended, BusKnown
      <4>2. wake.inflight /\ wake.armed /\ episode.asked /\ episode.pulses = 0
        BY <3>1, <4>1 DEF WakeClaims
      <4>3. pc'.at = "pulse" /\ episode'.pulses = 1 /\ episode'.asked
        BY <2>8, <3>2, <4>2, <1>t, <1>p, GotoFields DEF WakeDrive
      <4> QED BY <3>1, <3>2, <4>2, <4>3 DEF WakeClaims, Suspended
    <3>3. CASE ~Suspended
      BY <2>8, <3>1, <3>3, <1>f, <1>t, <1>p, GotoFields DEF WakeDrive
    <3> QED BY <3>2, <3>3
  <2>9. CASE PulseEnds
    BY <2>9, <1>f, <1>t, <1>p, GotoFields DEF PulseEnds
  <2> QED BY <1>3, <2>1, <2>2, <2>3, <2>4, <2>5, <2>6, <2>7, <2>8, <2>9 DEF MainLoop
<1>4. CASE Interrupts
  <2>1. CASE TransferKeyboard \/ \E e \in Others : TransferOther(e)
    BY <2>1, <1>f DEF TransferKeyboard, TransferOther
  <2>2. CASE BusResetIsr
    <3>1. /\ bus = "active" /\ bus' = bus /\ UNCHANGED <<pc, episode>>
          /\ ~wake'.request /\ irq'.reset = FALSE /\ irq'.edge = irq.edge
      BY <2>2, <1>t DEF BusResetIsr, BusKnown
    <3> QED BY <3>1, <1>t DEF WakeClaims
  <2>3. CASE SuspendIsr
    <3>1. /\ bus = "suspended" /\ bus' = bus /\ UNCHANGED <<pc, episode, wake>>
          /\ irq'.reset = irq.reset /\ irq'.edge = FALSE
      BY <2>3, <1>t DEF SuspendIsr
    <3> QED BY <3>1, <1>t DEF WakeClaims, Suspended
  <2>4. CASE ResumeIsr
    <3>1. /\ bus = "active" /\ bus' = bus /\ UNCHANGED <<pc, episode>>
          /\ ~wake'.request /\ irq'.reset = irq.reset /\ irq'.edge = FALSE
      BY <2>4, <1>t DEF ResumeIsr, WakeOver
    <3> QED BY <3>1, <1>t DEF WakeClaims
  <2> QED BY <1>4, <2>1, <2>2, <2>3, <2>4 DEF Interrupts
<1>5. CASE Host
  <2>1. CASE \/ \E e \in Eps : HostPoll(e)
             \/ \E c \in BOOLEAN : SetConfiguration(c)
             \/ \E e \in Halts : ClearHalt(e)
    BY <2>1, <1>f DEF HostPoll, SetConfiguration, ClearHalt
  <2>2. ASSUME NEW c \in BOOLEAN, SetFeature(c) PROVE Goal
    <3>1. /\ bus = "active" /\ UNCHANGED <<bus, susp, irq, pc, episode>>
          /\ wake'.request = wake.request
      BY <2>2, <1>t DEF SetFeature, Listens
    <3> QED BY <3>1, <1>t DEF WakeClaims, Suspended
  <2>3. CASE Suspend
    <3>1. /\ bus = "active" /\ bus' = "suspended" /\ UNCHANGED <<susp, wake>>
          /\ episode'.pulses = 0 /\ Edge
      BY <2>3 DEF Suspend, Awake
    <3>2. ~Suspended
      BY <3>1, EdgeFields DEF Suspended, BusKnown
    <3>3. pc.at # "drive" /\ ~wake.request
      BY <3>1, <3>2, EdgeFields DEF WakeClaims
    <3>4. pc'.at = pc.at /\ (pc.at # "idle" => pc'.edged)
      BY <3>1, EdgeFields
    <3> QED BY <3>1, <3>3, <3>4, <1>t DEF WakeClaims
  <2>4. CASE Resume \/ BusReset
    <3>1. bus' = "active" /\ UNCHANGED <<susp, wake, episode>> /\ Edge
      BY <2>4 DEF Resume, BusReset
    <3>2. Suspended => susp
      BY <3>1, EdgeFields DEF Suspended, BusKnown
    <3>3. pc'.at = pc.at /\ (pc.at # "idle" => pc'.edged)
      BY <3>1, EdgeFields
    <3> QED BY <3>1, <3>2, <3>3, <1>t DEF WakeClaims, Suspended
  <2> QED BY <1>5, <2>1, <2>2, <2>3, <2>4 DEF Host
<1> QED BY <1>1, <1>2, <1>3, <1>4, <1>5 DEF Next

-----------------------------------------------------------------------------
(* What the host will hold of the keyboard, and when the queue is armed *)

\* Nothing is owed to, or held by, a host that has not configured the device.
Unconfigured ==
  /\ irq.reset => \A e \in Eps : host[e] = Up
  /\ ~conf => kq = <<>> /\ \A e \in Eps : host[e] = Up /\ ~ep[e].ack

\* What was collected is what the interrupt will find in the buffer.
Collecting(e) == ep[e].done => ep[e].ack /\ host[e] = ep[e].buf

\* The flush that follows a resume is still to come.
FlushDue(e) ==
  e \in rec /\ \/ resume
               \/ pc.at \in {"poll", "keyboard"}
               \/ pc.at = "others" /\ e \in pc.left

\* A queue with no transfer in flight waits for a resume, or for its flush.
Stalled == kq # <<>> /\ ~owned => irq.reset \/ Suspended \/ FlushDue(1)

\* What the host will hold once it has collected what is queued or armed
WillHold(e) == IF e = 1 THEN IF kq # <<>> THEN Newest(kq) ELSE host[1]
               ELSE IF ep[e].ack THEN ep[e].buf ELSE host[e]

\* The latch holds the last report of its endpoint, and is free while a link
\* loss is handled.
LatchFresh ==
  /\ latch.full => Deferred /\ latch.val = src[latch.at]
  /\ pc.at \in {"lost", "forward"} => src[1] = Up /\ ~latch.full

\* With one endpoint behind the latch, no keyboard state is overwritten in it.
KeysFollow ==
  (Deferred => Others = {}) =>
    WillHold(1) \in {src[1], Up} \/ (latch.full /\ latch.at = 1)

KeyInvariant ==
  Unconfigured /\ Collecting(1) /\ Stalled /\ LatchFresh /\ KeysFollow

\* The effect of a call on the keyboard: none, or a state offered and served
KeyKept      == kq' = kq /\ owned' = owned /\ ep'[1] = ep[1]
KeyServed(k) ==
  /\ conf /\ kq' # <<>> /\ Newest(kq') = k
  /\ owned' \/ Suspended
  /\ ep'[1].done = ep[1].done
  /\ ep[1].done => ep'[1] = ep[1]

LEMMA NewestPush ==
  ASSUME NEW s \in Queues, NEW k \in States
  PROVE  Push(s, k) # <<>> /\ Newest(Push(s, k)) = k
<1> USE SlotsAssumption DEF Queues
<1>1. CASE s # <<>> /\ Newest(s) = k
  BY <1>1 DEF Push
<1>2. CASE ~(s # <<>> /\ Newest(s) = k) /\ Len(s) < Slots
  <2>1. Push(s, k) = Append(s, k)
    BY <1>2 DEF Push
  <2> QED BY <2>1 DEF Newest
<1>3. CASE ~(s # <<>> /\ Newest(s) = k) /\ ~(Len(s) < Slots)
  <2>1. Push(s, k) = [s EXCEPT ![Len(s)] = k] /\ Len(s) = Slots
    BY <1>3 DEF Push
  <2> QED BY <2>1 DEF Newest
<1> QED BY <1>1, <1>2, <1>3

LEMMA NewestTail ==
  ASSUME NEW s \in Queues, s # <<>>
  PROVE  /\ Tail(s) # <<>> => Newest(Tail(s)) = Newest(s)
         /\ Tail(s) = <<>> => Newest(s) = Head(s)
<1> DEFINE t == Tail(s)
<1>1. s \in Seq(States) /\ Len(s) \in Nat /\ Len(s) >= 1
  BY DEF Queues
<1>2. /\ t \in Seq(States) /\ Len(t) = Len(s) - 1
      /\ \A i \in 1 .. Len(s) - 1 : t[i] = s[i + 1]
  BY <1>1
<1>3. Head(s) = s[1]
  BY <1>1
<1> HIDE DEF t
<1>4. ASSUME t = <<>> PROVE Newest(s) = Head(s)
  <2>1. Len(t) = 0
    BY <1>4
  <2>2. Len(s) = 1
    BY <1>1, <1>2, <2>1
  <2> QED BY <1>3, <2>2 DEF Newest
<1>5. ASSUME t # <<>> PROVE Newest(t) = Newest(s)
  <2>1. Len(t) # 0
    BY <1>2, <1>5
  <2>2. Len(t) \in 1 .. Len(s) - 1 /\ Len(t) + 1 = Len(s)
    BY <1>1, <1>2, <2>1
  <2>3. t[Len(t)] = s[Len(s)]
    BY <1>2, <2>2
  <2> QED BY <2>3 DEF Newest
<1> QED BY <1>4, <1>5 DEF t

LEMMA Serviced ==
  ASSUME NEW s \in Queues, NEW own \in BOOLEAN, NEW eps \in Endpoints, Service(s, own, eps)
  PROVE  /\ kq' = s
         /\ own => owned' /\ ep' = eps
         /\ s # <<>> => owned' \/ Suspended \/ ~conf
         /\ ~conf => ep' = eps /\ owned' = own
         /\ \A f \in Others : ep'[f] = eps[f]
         /\ ep'[1].done = eps[1].done
<1>1. CASE Serves(s, own)
  <2>1. owned' = TRUE /\ ep' = [eps EXCEPT ![1].ack = TRUE, ![1].buf = Head(s)]
        /\ conf /\ ~own /\ kq' = s
    BY <1>1 DEF Service, Serves
  <2>2. \A f \in Others : f # 1 /\ f \in Eps
    BY EndpointAssumption DEF Eps
  <2>3. ep'[1].done = eps[1].done /\ \A f \in Others : ep'[f] = eps[f]
    BY <2>1, <2>2 DEF Endpoints, Eps
  <2> QED BY <2>1, <2>3
<1>2. CASE ~Serves(s, own)
  <2>1. owned' = own /\ ep' = eps /\ kq' = s
    BY <1>2 DEF Service
  <2> QED BY <1>2, <2>1 DEF Serves
<1> QED BY <1>1, <1>2

LEMMA Offered ==
  ASSUME IInv, NEW k \in States,
         Service(IF conf THEN Push(kq, k) ELSE kq, owned, ep)
  PROVE  /\ IF conf THEN KeyServed(k) ELSE KeyKept /\ ep' = ep
         /\ \A f \in Others : ep'[f] = ep[f]
<1> DEFINE s == IF conf THEN Push(kq, k) ELSE kq
<1>1. kq \in Queues /\ owned \in BOOLEAN /\ ep \in Endpoints /\ conf \in BOOLEAN
      /\ (ep[1].done => owned)
  BY DEF IInv, TypeOK, HeadInFlight, Queues
<1>2. s \in Queues /\ (conf => s # <<>> /\ Newest(s) = k)
  BY <1>1, PushKeepsHead, NewestPush
<1>3. /\ kq' = s
      /\ owned => owned' /\ ep' = ep
      /\ s # <<>> => owned' \/ Suspended \/ ~conf
      /\ ~conf => ep' = ep /\ owned' = owned
      /\ \A f \in Others : ep'[f] = ep[f]
      /\ ep'[1].done = ep[1].done
  BY <1>1, <1>2, Serviced
<1> QED BY <1>1, <1>2, <1>3 DEF KeyServed, KeyKept

LEMMA OtherSent ==
  ASSUME IInv, NEW e \in Others, NEW v \in States, SendOther(e, v)
  PROVE  /\ KeyKept
         /\ \A f \in Others \ {e} : ep'[f] = ep[f]
         /\ IF conf /\ ~Suspended
              THEN /\ ep'[e].ack /\ ep'[e].buf = v /\ ep'[e].done = ep[e].done
                   /\ ep'[e].lost = ep[e].done
                   /\ rec' = rec \ {e}
              ELSE ep' = ep /\ rec' = rec
<1>1. KeyKept
  BY SendOtherKeeps DEF KeyKept
<1>2. e \in Eps /\ ep \in Endpoints
  BY DEF IInv, TypeOK, Eps
<1>3. CASE conf /\ ~Suspended
  <2>1. ep' = Armed(e, v) /\ rec' = rec \ {e}
    BY <1>3 DEF SendOther
  <2> QED BY <1>1, <1>2, <1>3, <2>1, ArmKeeps DEF Eps
<1>4. CASE ~(conf /\ ~Suspended)
  <2>1. ep' = ep /\ rec' = rec
    BY <1>4 DEF SendOther
  <2> QED BY <1>1, <1>4, <2>1
<1> QED BY <1>3, <1>4

\* A call that leaves the keyboard alone, or serves it, keeps what concerns the
\* host's configuration, the transfer, and the queue; FlushDue goes only where
\* it is served.
Bystander == UNCHANGED <<conf, bus, susp, irq, host>>

LEMMA CallKeeps ==
  ASSUME IInv, KeyInvariant, Bystander,
         \/ KeyKept /\ (FlushDue(1) => FlushDue(1)' \/ irq.reset \/ Suspended \/ ~conf)
         \/ \E k \in States : KeyServed(k),
         ~conf => ep' = ep
  PROVE  Unconfigured' /\ Collecting(1)' /\ Stalled'
<1>1. kq' # kq \/ ep' # ep => conf \/ KeyKept
  BY DEF KeyServed
<1>2. Unconfigured'
  BY <1>1 DEF KeyInvariant, Unconfigured, Bystander, KeyKept, KeyServed
<1>3. Collecting(1)'
  BY DEF KeyInvariant, Collecting, Bystander, KeyKept, KeyServed
<1>4. Stalled'
  BY DEF KeyInvariant, Stalled, Unconfigured, Bystander, KeyKept, KeyServed, Suspended
<1> QED BY <1>2, <1>3, <1>4

\* Where a keyboard state served is the last report or a release, the host will
\* hold it; where nothing is configured it holds nothing.
LEMMA ServedFollows ==
  ASSUME IInv, KeyInvariant, Bystander, NEW k \in States, k \in {src'[1], Up},
         IF conf THEN KeyServed(k) ELSE KeyKept
  PROVE  KeysFollow'
<1>1. 1 \in Eps
  BY DEF Eps
<1>2. CASE conf
  BY <1>2 DEF KeysFollow, WillHold, KeyServed
<1>3. CASE ~conf
  BY <1>1, <1>3 DEF KeyInvariant, Unconfigured, KeysFollow, WillHold, KeyKept, Bystander
<1> QED BY <1>2, <1>3

LEMMA KeyRadioStep ==
  ASSUME IInv, BusKnown, KeyInvariant, Radio
  PROVE  KeyInvariant'
<1>t. /\ pc \in Pcs /\ 1 \in Eps /\ Up \in States /\ src \in [Eps -> States]
      /\ latch \in Reports /\ conf \in BOOLEAN
  BY DEF IInv, TypeOK, Pcs, Eps, States
<1>b. Bystander
  BY CallsLeaveBus DEF Bystander
<1>p. {"idle", "lost", "forward"} \subseteq Points
  BY DEF Points
<1>1. ASSUME NEW e \in Eps, NEW v \in States, ReportDirect(e, v)
      PROVE  KeyInvariant'
  <2>1. ~Deferred /\ Send(e, v) /\ src' = [src EXCEPT ![e] = v]
        /\ pc.at \notin {"lost", "forward"} /\ UNCHANGED <<pc, latch, resume>>
    BY <1>1 DEF ReportDirect, LosingLink
  <2>2. LatchFresh'
    BY <2>1 DEF KeyInvariant, LatchFresh
  <2>3. CASE e = 1
    <3>1. IF conf THEN KeyServed(v) ELSE KeyKept /\ ep' = ep
      BY <2>1, <2>3, Offered DEF Send, SendKeyboard
    <3>2. rec' = (IF conf THEN rec \ {1} ELSE rec) /\ src'[1] = v
      BY <2>1, <2>3, <1>t DEF Send, SendKeyboard
    <3>3. Unconfigured' /\ Collecting(1)' /\ Stalled'
      BY <1>b, <2>1, <3>1, <3>2, CallKeeps DEF FlushDue
    <3>4. KeysFollow'
      BY <1>b, <3>1, <3>2, ServedFollows
    <3> QED BY <2>2, <3>3, <3>4 DEF KeyInvariant
  <2>4. CASE e # 1
    <3>1. e \in Others /\ SendOther(e, v)
      BY <2>1, <2>4 DEF Send, Eps
    <3>2. KeyKept /\ (~conf => ep' = ep) /\ (1 \in rec => 1 \in rec')
      BY <2>4, <3>1, OtherSent
    <3>3. src'[1] = src[1]
      BY <2>1, <2>4, <1>t
    <3>4. Unconfigured' /\ Collecting(1)' /\ Stalled'
      BY <1>b, <2>1, <3>2, CallKeeps DEF FlushDue
    <3>5. KeysFollow'
      BY <1>b, <2>1, <3>2, <3>3
         DEF KeyInvariant, KeysFollow, WillHold, KeyKept, Bystander
    <3> QED BY <2>2, <3>4, <3>5 DEF KeyInvariant
  <2> QED BY <2>3, <2>4
<1>2. ASSUME NEW e \in Eps, NEW v \in States, ReportLatch(e, v)
      PROVE  KeyInvariant'
  <2>1. /\ Deferred /\ src' = [src EXCEPT ![e] = v]
        /\ latch' = [full |-> TRUE, at |-> e, val |-> v]
        /\ pc.at \notin {"lost", "forward"}
        /\ UNCHANGED <<pc, kq, owned, ep, resume, rec>>
    BY <1>2 DEF ReportLatch, LosingLink
  <2>2. LatchFresh'
    BY <2>1, <1>t DEF LatchFresh
  <2>3. KeysFollow'
    BY <2>1 DEF KeysFollow, Eps
  <2>4. Unconfigured' /\ Collecting(1)' /\ Stalled'
    BY <1>b, <2>1, CallKeeps DEF FlushDue, KeyKept
  <2> QED BY <2>2, <2>3, <2>4 DEF KeyInvariant
<1>3. CASE LinkLost
  <2>1. /\ pc.at = "idle" /\ ~latch.full /\ pc'.at = "lost"
        /\ src' = [src EXCEPT ![1] = Up] /\ UNCHANGED <<resume, rec, latch>>
        /\ Service(IF conf THEN Push(kq, Up) ELSE kq, owned, ep)
    BY <1>3, <1>t, <1>p, GotoFields DEF LinkLost
  <2>2. IF conf THEN KeyServed(Up) ELSE KeyKept /\ ep' = ep
    BY <1>t, <2>1, Offered
  <2>3. src'[1] = Up
    BY <2>1, <1>t
  <2>4. Unconfigured' /\ Collecting(1)' /\ Stalled'
    BY <1>b, <1>t, <2>2, CallKeeps
  <2>5. KeysFollow'
    BY <1>b, <1>t, <2>2, ServedFollows
  <2> QED BY <2>1, <2>3, <2>4, <2>5 DEF KeyInvariant, LatchFresh
<1>4. CASE LinkLostCheck
  <2>1. /\ pc.at = "lost" /\ pc'.at \in {"idle", "forward"}
        /\ UNCHANGED <<kq, owned, ep, resume, rec, latch, src>>
    BY <1>4, <1>t, <1>p, GotoFields DEF LinkLostCheck
  <2>2. Unconfigured' /\ Collecting(1)' /\ Stalled'
    BY <1>b, <2>1, CallKeeps DEF FlushDue, KeyKept
  <2> QED BY <1>b, <2>1, <2>2 DEF KeyInvariant, LatchFresh, KeysFollow, WillHold, Bystander
<1>5. CASE LinkLostForward
  <2>1. /\ pc.at = "forward" /\ pc'.at = "idle" /\ UNCHANGED <<resume, src>>
        /\ src[1] = Up /\ ~latch.full
    BY <1>5, <1>t, <1>p, GotoFields DEF LinkLostForward, KeyInvariant, LatchFresh
  <2>2. CASE Deferred
    <3>1. latch' = [full |-> TRUE, at |-> 1, val |-> Up] /\ UNCHANGED <<kq, owned, ep, rec>>
      BY <1>5, <2>2 DEF LinkLostForward
    <3>2. LatchFresh' /\ KeysFollow'
      BY <2>1, <2>2, <3>1 DEF LatchFresh, KeysFollow
    <3>3. Unconfigured' /\ Collecting(1)' /\ Stalled'
      BY <1>b, <2>1, <3>1, CallKeeps DEF FlushDue, KeyKept
    <3> QED BY <3>2, <3>3 DEF KeyInvariant
  <2>3. CASE ~Deferred
    <3>1. SendKeyboard(Up) /\ latch' = latch
      BY <1>5, <2>3 DEF LinkLostForward
    <3>2. IF conf THEN KeyServed(Up) ELSE KeyKept /\ ep' = ep
      BY <3>1, <1>t, Offered DEF SendKeyboard
    <3>3. Unconfigured' /\ Collecting(1)' /\ Stalled'
      BY <1>b, <1>t, <3>2, CallKeeps
    <3>4. KeysFollow'
      BY <1>b, <1>t, <3>2, ServedFollows
    <3> QED BY <2>1, <3>1, <3>3, <3>4 DEF KeyInvariant, LatchFresh
  <2> QED BY <2>2, <2>3
<1> QED BY <1>1, <1>2, <1>3, <1>4, <1>5 DEF Radio

LEMMA KeyMainLoopStep ==
  ASSUME IInv, BusKnown, KeyInvariant, MainLoop
  PROVE  KeyInvariant'
<1>t. /\ pc \in Pcs /\ 1 \in Eps /\ Up \in States /\ src \in [Eps -> States]
      /\ latch \in Reports /\ conf \in BOOLEAN
  BY DEF IInv, TypeOK, Pcs, Eps, States
<1>b. Bystander
  BY CallsLeaveBus DEF Bystander
<1>p. {"idle", "poll", "keyboard", "others", "wake", "drive", "pulse"} \subseteq Points
  BY DEF Points
\* A step that leaves the keyboard, the latch and the sources alone
<1>k. ASSUME KeyKept, UNCHANGED <<latch, src>>, pc'.at \notin {"lost", "forward"},
             FlushDue(1) => FlushDue(1)' \/ irq.reset \/ Suspended \/ ~conf,
             ~conf => ep' = ep
      PROVE  KeyInvariant'
  <2>1. Unconfigured' /\ Collecting(1)' /\ Stalled'
    BY <1>b, <1>k, CallKeeps
  <2>2. LatchFresh' /\ KeysFollow'
    BY <1>b, <1>k DEF KeyInvariant, LatchFresh, KeysFollow, WillHold, KeyKept, Bystander
  <2> QED BY <2>1, <2>2 DEF KeyInvariant
<1>1. CASE ForwardPump
  <2>1. /\ pc.at = "idle" /\ latch.full /\ latch' = NoLatch
        /\ UNCHANGED <<resume, pc, src>>
        /\ latch.at \in Eps /\ latch.val \in States
    BY <1>1, <1>t DEF ForwardPump, Reports
  <2>2. LatchFresh' /\ Deferred /\ latch.val = src[latch.at]
    BY <2>1 DEF KeyInvariant, LatchFresh, NoLatch
  <2>3. CASE ~conf
    <3>1. KeyKept /\ ep' = ep /\ rec' = rec
      BY <1>1, <2>3 DEF ForwardPump, KeyKept
    <3>2. Unconfigured' /\ Collecting(1)' /\ Stalled'
      BY <1>b, <2>1, <3>1, CallKeeps DEF FlushDue
    <3>3. KeysFollow'
      BY <1>b, <1>t, <2>3, <3>1, ServedFollows
    <3> QED BY <2>2, <3>2, <3>3 DEF KeyInvariant
  <2>4. CASE conf /\ latch.at = 1
    <3>1. SendKeyboard(latch.val)
      BY <1>1, <2>4 DEF ForwardPump, Send
    <3>2. KeyServed(latch.val)
      BY <2>1, <2>4, <3>1, Offered DEF SendKeyboard
    <3>3. Unconfigured' /\ Collecting(1)' /\ Stalled'
      BY <1>b, <2>1, <2>4, <3>2, CallKeeps
    <3>4. KeysFollow'
      BY <1>b, <2>1, <2>2, <2>4, <3>2, ServedFollows
    <3> QED BY <2>2, <3>3, <3>4 DEF KeyInvariant
  <2>5. CASE conf /\ latch.at # 1
    <3>1. latch.at \in Others /\ SendOther(latch.at, latch.val)
      BY <1>1, <2>1, <2>5 DEF ForwardPump, Send, Eps
    <3>2. KeyKept /\ (1 \in rec => 1 \in rec')
      BY <2>1, <2>5, <3>1, OtherSent
    <3>3. Unconfigured' /\ Collecting(1)' /\ Stalled'
      BY <1>b, <2>1, <2>5, <3>2, CallKeeps DEF FlushDue
    <3>4. KeysFollow'
      BY <2>2, <3>1 DEF KeysFollow
    <3> QED BY <2>2, <3>3, <3>4 DEF KeyInvariant
  <2> QED BY <2>3, <2>4, <2>5
<1>2. CASE PollResume
  <2>1. pc.at = "idle" /\ pc'.at = "poll" /\ resume
        /\ UNCHANGED <<kq, owned, ep, rec, resume, latch, src>>
    BY <1>2, <1>t, <1>p, GotoFields DEF PollResume
  <2> QED BY <2>1, <1>k DEF FlushDue, KeyKept
<1>3. CASE PollClear
  <2>1. pc.at = "poll" /\ pc'.at = "keyboard"
        /\ UNCHANGED <<kq, owned, ep, rec, latch, src>>
    BY <1>3, <1>t, <1>p, GotoFields DEF PollClear
  <2> QED BY <2>1, <1>k DEF FlushDue, KeyKept
<1>4. CASE ReconcileKeyboard
  <2>1. pc.at = "keyboard" /\ pc'.at \in {"idle", "others"}
        /\ UNCHANGED <<latch, src, resume>>
    <3>1. Goto("idle").at = "idle" /\ [Goto("others") EXCEPT !.left = Others].at = "others"
      BY <1>t DEF Goto, Pcs
    <3> QED BY <1>4, <3>1 DEF ReconcileKeyboard
  <2>2. CASE ~FlushesKeys
    <3>1. KeyKept /\ ep' = ep /\ rec' = rec
      BY <1>4, <2>2 DEF ReconcileKeyboard, KeyKept
    <3> QED BY <2>1, <2>2, <3>1, <1>k DEF FlushesKeys, FlushDue
  <2>3. CASE FlushesKeys
    <3> DEFINE s == IF kq = <<>> THEN Push(kq, Up) ELSE kq
    <3>1. conf /\ Service(s, owned, ep)
      BY <1>4, <2>3 DEF ReconcileKeyboard, FlushesKeys
    <3>2. kq \in Queues /\ owned \in BOOLEAN /\ ep \in Endpoints /\ (ep[1].done => owned)
      BY DEF IInv, TypeOK, HeadInFlight, Queues
    <3>3. s \in Queues /\ s # <<>> /\ Newest(s) = IF kq = <<>> THEN Up ELSE Newest(kq)
      BY <1>t, <3>2, PushKeepsHead, NewestPush
    <3>4. KeyServed(Newest(s))
      BY <3>1, <3>2, <3>3, Serviced DEF KeyServed
    <3>5. Newest(s) \in States
      <4>1. \A q \in Queues : q # <<>> => Newest(q) \in States
        BY DEF Queues, Newest
      <4> QED BY <3>3, <4>1
    <3>6. Unconfigured' /\ Collecting(1)' /\ Stalled'
      BY <1>b, <3>1, <3>4, <3>5, CallKeeps
    <3>7. LatchFresh' /\ KeysFollow'
      BY <2>1, <3>3, <3>4 DEF KeyInvariant, LatchFresh, KeysFollow, WillHold, KeyServed
    <3> QED BY <3>6, <3>7 DEF KeyInvariant
  <2> QED BY <2>2, <2>3
<1>5. CASE ReconcileOther
  <2>1. PICK e \in pc.left :
          /\ IF Flushes(e)
               THEN /\ rec' = rec \ {e}
                    /\ ep' = Armed(e, Up)
               ELSE UNCHANGED <<rec, ep>>
    BY <1>5 DEF ReconcileOther
  <2>2. e \in Others /\ e # 1
    BY <1>t, EndpointAssumption DEF Pcs
  <2>3. pc.at = "others" /\ pc'.at \in {"idle", "others"}
        /\ UNCHANGED <<kq, owned, resume, latch, src>>
    <3>1. \A L : Goto("idle").at = "idle" /\ [Goto("others") EXCEPT !.left = L].at = "others"
      BY <1>t DEF Goto, Pcs
    <3> QED BY <1>5, <3>1 DEF ReconcileOther
  <2>4. ep'[1] = ep[1] /\ (~conf => ep' = ep) /\ (1 \in rec => 1 \in rec')
    BY <2>1, <2>2, <1>t, ArmKeeps DEF Flushes, IInv, TypeOK
  <2>5. 1 \notin pc.left
    BY <1>t, EndpointAssumption DEF Pcs
  <2> QED BY <2>3, <2>4, <2>5, <1>k DEF FlushDue, KeyKept
<1>6. CASE WakeCheck
  <2>1. pc.at = "idle" /\ pc'.at = "wake" /\ UNCHANGED <<kq, owned, ep, rec, resume, latch, src>>
    BY <1>6, <1>t, <1>p, GotoFields DEF WakeCheck
  <2> QED BY <2>1, <1>k DEF FlushDue, KeyKept
<1>7. CASE WakeClaim
  <2>1. pc.at = "wake" /\ pc'.at \in {"idle", "drive"}
        /\ UNCHANGED <<kq, owned, ep, rec, resume, latch, src>>
    BY <1>7, <1>t, <1>p, GotoFields DEF WakeClaim
  <2> QED BY <2>1, <1>k DEF FlushDue, KeyKept
<1>8. CASE WakeDrive
  <2>1. pc.at = "drive" /\ pc'.at \in {"idle", "pulse"}
        /\ UNCHANGED <<kq, owned, ep, rec, resume, latch, src>>
    BY <1>8, <1>t, <1>p, GotoFields DEF WakeDrive
  <2> QED BY <2>1, <1>k DEF FlushDue, KeyKept
<1>9. CASE PulseEnds
  <2>1. pc.at = "pulse" /\ pc'.at = "idle"
        /\ UNCHANGED <<kq, owned, ep, rec, resume, latch, src>>
    BY <1>9, <1>t, <1>p, GotoFields DEF PulseEnds
  <2> QED BY <2>1, <1>k DEF FlushDue, KeyKept
<1> QED BY <1>1, <1>2, <1>3, <1>4, <1>5, <1>6, <1>7, <1>8, <1>9 DEF MainLoop

LEMMA KeyInterruptStep ==
  ASSUME IInv, BusKnown, KeyInvariant, Interrupts
  PROVE  KeyInvariant'
<1>t. /\ kq \in Queues /\ owned \in BOOLEAN /\ ep \in Endpoints /\ 1 \in Eps
      /\ irq \in [reset : BOOLEAN, edge : BOOLEAN] /\ conf \in BOOLEAN
  BY DEF IInv, TypeOK, Queues, Eps
<1>1. CASE TransferKeyboard
  <2> DEFINE eps == [ep EXCEPT ![1].ack = FALSE, ![1].done = FALSE]
  <2>1. /\ ep[1].done /\ owned /\ kq # <<>> /\ host[1] = Head(kq) /\ conf
    BY <1>1, <1>t DEF TransferKeyboard, IInv, HeadInFlight, KeyInvariant, Collecting,
                      Unconfigured
  <2>2. /\ Service(Tail(kq), FALSE, eps)
        /\ UNCHANGED <<conf, bus, susp, irq, resume, rec, latch, pc, host, src>>
    BY <1>1, <2>1 DEF TransferKeyboard, Retire
  <2>3. eps \in Endpoints /\ eps[1].done = FALSE /\ Tail(kq) \in Queues
    <3>1. Tail(kq) \in Queues
      BY <1>t, <2>1, SlotsAssumption DEF Queues
    <3>2. eps = [ep EXCEPT ![1] = [ep[1] EXCEPT !.ack = FALSE, !.done = FALSE]]
      BY <1>t DEF Endpoints
    <3>3. [ep[1] EXCEPT !.ack = FALSE, !.done = FALSE] \in [ack: BOOLEAN, done: BOOLEAN, buf: States, lost: BOOLEAN]
          /\ [ep[1] EXCEPT !.ack = FALSE, !.done = FALSE].done = FALSE
      BY <1>t DEF Endpoints
    <3> HIDE DEF eps
    <3> QED BY <1>t, <3>1, <3>2, <3>3 DEF Endpoints
  <2> HIDE DEF eps
  <2>4. kq' = Tail(kq) /\ (kq' # <<>> => owned' \/ Suspended) /\ ep'[1].done = FALSE
    BY <2>1, <2>2, <2>3, Serviced
  <2>5. WillHold(1)' = WillHold(1)
    BY <1>t, <2>1, <2>2, <2>4, NewestTail DEF WillHold
  <2>6. Unconfigured' /\ Collecting(1)' /\ Stalled'
    BY <2>1, <2>2, <2>4 DEF KeyInvariant, Unconfigured, Collecting, Stalled, Suspended
  <2> QED BY <2>2, <2>5, <2>6 DEF KeyInvariant, LatchFresh, KeysFollow
<1>2. ASSUME NEW e \in Others, TransferOther(e)
      PROVE  KeyInvariant'
  <2>1. e # 1 /\ e \in Eps
    BY EndpointAssumption DEF Eps
  <2>2. /\ ep'[1] = ep[1] /\ \A f \in Eps : ep'[f].ack => ep[f].ack
    BY <1>2, <1>t, <2>1 DEF TransferOther, Endpoints
  <2>3. UNCHANGED <<conf, bus, susp, irq, kq, owned, resume, rec, latch, pc, host, src>>
    BY <1>2 DEF TransferOther
  <2> QED BY <2>2, <2>3 DEF KeyInvariant, Unconfigured, Collecting, Stalled, LatchFresh,
                            KeysFollow, WillHold, FlushDue, Suspended
<1>3. CASE BusResetIsr
  <2>1. /\ irq.reset /\ ~conf' /\ kq' = <<>> /\ ~owned' /\ ep' = Nak(ep, Eps)
        /\ UNCHANGED <<latch, pc, host, src>>
    BY <1>3 DEF BusResetIsr
  <2>2. \A e \in Eps : ~ep'[e].ack /\ ep'[e].done = ep[e].done
    BY <2>1, <1>t DEF Nak, Endpoints
  <2>3. Collected = {} /\ ~ep[1].done
    BY <1>3, <1>t DEF BusResetIsr, Collected
  <2>4. \A e \in Eps : host'[e] = Up
    BY <2>1 DEF KeyInvariant, Unconfigured
  <2> QED BY <1>t, <2>1, <2>2, <2>3, <2>4
          DEF KeyInvariant, Unconfigured, Collecting, Stalled, LatchFresh, KeysFollow, WillHold
<1>4. CASE SuspendIsr
  <2>1. /\ susp' /\ ep' = Nak(ep, Eps) /\ irq'.reset = irq.reset
        /\ UNCHANGED <<conf, kq, latch, pc, host, src>> /\ ~irq.reset
    BY <1>4, <1>t DEF SuspendIsr
  <2>2. \A e \in Eps : ~ep'[e].ack /\ ep'[e].done = ep[e].done
    BY <2>1, <1>t DEF Nak, Endpoints
  <2>3. ~ep[1].done
    BY <1>4, <1>t DEF SuspendIsr, Collected
  <2> QED BY <1>t, <2>1, <2>2, <2>3
          DEF KeyInvariant, Unconfigured, Collecting, Stalled, LatchFresh, KeysFollow,
              WillHold, Suspended
<1>5. CASE ResumeIsr
  <2>1. /\ bus = "active" /\ UNCHANGED <<conf, kq, owned, ep, latch, pc, host, src>>
        /\ irq'.reset = irq.reset /\ resume' = (resume \/ susp)
        /\ rec' = (IF susp THEN Eps ELSE rec)
    BY <1>5, <1>t DEF ResumeIsr, Reconciled
  <2>2. Stalled'
    BY <1>t, <2>1 DEF KeyInvariant, Stalled, FlushDue, Suspended
  <2> QED BY <1>t, <2>1, <2>2
          DEF KeyInvariant, Unconfigured, Collecting, LatchFresh, KeysFollow, WillHold
<1> QED BY <1>1, <1>2, <1>3, <1>4, <1>5 DEF Interrupts

LEMMA KeyHostStep ==
  ASSUME ~Detaches, IInv, BusKnown, KeyInvariant, Host
  PROVE  KeyInvariant'
<1>t. /\ kq \in Queues /\ owned \in BOOLEAN /\ ep \in Endpoints /\ 1 \in Eps
      /\ irq \in [reset : BOOLEAN, edge : BOOLEAN] /\ conf \in BOOLEAN
      /\ host \in [Eps -> States]
  BY DEF IInv, TypeOK, Queues, Eps
<1>1. ASSUME NEW e \in Eps, HostPoll(e)
      PROVE  KeyInvariant'
  <2>1. /\ conf /\ ~irq.reset /\ ep[e].ack
        /\ host' = [host EXCEPT ![e] = ep[e].buf] /\ ep' = [ep EXCEPT ![e].done = TRUE]
        /\ UNCHANGED <<conf, bus, susp, irq, kq, owned, resume, rec, latch, pc, src>>
    BY <1>1 DEF HostPoll, Listens, Served
  <2>2. Unconfigured' /\ Stalled'
    BY <2>1 DEF KeyInvariant, Unconfigured, Stalled, FlushDue, Suspended
  <2>3. CASE e = 1
    <3>1. owned /\ kq # <<>>
      BY <1>t, <2>1, <2>3 DEF IInv, HeadInFlight
    <3>2. ep'[1].ack /\ host'[1] = ep'[1].buf
      BY <1>t, <2>1, <2>3 DEF Endpoints
    <3> QED BY <2>1, <2>2, <3>1, <3>2
            DEF KeyInvariant, Collecting, LatchFresh, KeysFollow, WillHold
  <2>4. CASE e # 1
    <3>1. ep'[1] = ep[1] /\ host'[1] = host[1]
      BY <1>t, <2>1, <2>4 DEF Endpoints
    <3> QED BY <2>1, <2>2, <3>1 DEF KeyInvariant, Collecting, LatchFresh, KeysFollow, WillHold
  <2> QED BY <2>3, <2>4
<1>2. ASSUME NEW c \in BOOLEAN, SetConfiguration(c)
      PROVE  KeyInvariant'
  <2>1. /\ c = TRUE /\ conf = FALSE /\ conf' = TRUE /\ host' = host
        /\ UNCHANGED <<bus, susp, irq, kq, owned, ep, resume, rec, latch, pc, src>>
    BY <1>2, <1>t DEF SetConfiguration
  <2> QED BY <2>1 DEF KeyInvariant, Unconfigured, Collecting, Stalled, LatchFresh, KeysFollow,
                      WillHold
<1>3. ASSUME NEW c \in BOOLEAN, SetFeature(c)
      PROVE  KeyInvariant'
  <2>1. UNCHANGED <<conf, bus, susp, irq, kq, owned, ep, resume, rec, latch, pc, host, src>>
    BY <1>3 DEF SetFeature
  <2> QED BY <2>1 DEF KeyInvariant, Unconfigured, Collecting, Stalled, LatchFresh, KeysFollow,
                      WillHold, FlushDue, Suspended
<1>4. ASSUME NEW e \in Halts, ClearHalt(e)
      PROVE  KeyInvariant'
  <2>1. /\ conf /\ ~irq.reset /\ ~ep[1].done /\ e \in Eps
        /\ UNCHANGED <<conf, bus, susp, irq, resume, rec, latch, pc, host, src>>
    BY <1>4, <1>t, EndpointAssumption DEF ClearHalt, Listens, Served, Collected, Eps
  <2>2. CASE e = 1
    <3>1. Nak(ep, {1}) \in Endpoints /\ Nak(ep, {1})[1].done = ep[1].done
      BY <1>t, NakKeeps
    <3>2. Service(kq, FALSE, Nak(ep, {1}))
      BY <1>4, <2>2 DEF ClearHalt
    <3>3. kq' = kq /\ (kq # <<>> => owned' \/ Suspended) /\ ~ep'[1].done
      BY <1>t, <2>1, <3>1, <3>2, Serviced
    <3> QED BY <2>1, <3>3 DEF KeyInvariant, Unconfigured, Collecting, Stalled, LatchFresh,
                              KeysFollow, WillHold, Suspended
  <2>3. CASE e # 1
    <3>1. /\ ep' = [Nak(ep, {e}) EXCEPT ![e].lost = @ \/ ep[e].ack]
          /\ kq' = kq /\ owned' = owned
      BY <1>4, <2>3 DEF ClearHalt
    <3>2. ep'[1] = ep[1]
      BY <1>t, <2>3, <3>1, HaltKeeps, EndpointAssumption
    <3> QED BY <2>1, <3>1, <3>2
            DEF KeyInvariant, Unconfigured, Collecting, Stalled, LatchFresh, KeysFollow,
                WillHold, FlushDue, Suspended
  <2> QED BY <2>2, <2>3
<1>5. CASE Suspend
  <2>1. /\ bus' = "suspended" /\ irq'.reset = irq.reset
        /\ UNCHANGED <<conf, kq, owned, ep, latch, host, src>>
    BY <1>5, <1>t DEF Suspend
  <2>2. pc'.at = pc.at
    BY <1>5, EdgeFields DEF Suspend, IInv
  <2> QED BY <2>1, <2>2 DEF KeyInvariant, Unconfigured, Collecting, Stalled, LatchFresh,
                            KeysFollow, WillHold, Suspended
<1>6. CASE Resume
  <2>1. /\ susp' = susp /\ irq'.reset = irq.reset /\ bus = "suspended"
        /\ UNCHANGED <<conf, kq, owned, ep, latch, host, src>>
    BY <1>6, <1>t DEF Resume
  <2>2. pc'.at = pc.at /\ ~irq.edge
    BY <1>6, EdgeFields DEF Resume, IInv
  <2>3. susp
    BY <2>1, <2>2 DEF BusKnown
  <2> QED BY <2>1, <2>2, <2>3 DEF KeyInvariant, Unconfigured, Collecting, Stalled, LatchFresh,
                                  KeysFollow, WillHold, Suspended
<1>7. CASE BusReset
  <2>1. /\ irq'.reset /\ host' = [e \in Eps |-> Up]
        /\ UNCHANGED <<conf, kq, owned, ep, latch, src>>
    BY <1>7 DEF BusReset
  <2>2. pc'.at = pc.at /\ Collected = {}
    BY <1>7, EdgeFields DEF BusReset, IInv
  <2>3. ~ep[1].done
    BY <2>2, <1>t DEF Collected
  <2> QED BY <1>t, <2>1, <2>2, <2>3
          DEF KeyInvariant, Unconfigured, Collecting, Stalled, LatchFresh, KeysFollow, WillHold
<1> QED BY <1>1, <1>2, <1>3, <1>4, <1>5, <1>6, <1>7 DEF Host

\* The whole of what is assumed of a state when a keyboard property is argued
KeyState == IInv /\ BusKnown /\ KeyInvariant

LEMMA KeyStep ==
  ASSUME ~Detaches, KeyState, [Next]_vars
  PROVE  KeyState'
<1>1. IInv'
  <2>1. IInv /\ [Next]_vars
    BY DEF KeyState
  <2> QED BY <2>1, RadioStep, MainLoopStep, InterruptStep, HostStep, StutterKeeps DEF Next
<1>2. BusKnown'
  BY BusStep DEF KeyState, IInv
<1>3. KeyInvariant'
  <2>1. IInv /\ BusKnown /\ KeyInvariant
    BY DEF KeyState
  <2>2. CASE UNCHANGED vars
    BY <2>1, <2>2 DEF KeyInvariant, Unconfigured, Collecting, Stalled, LatchFresh, KeysFollow,
                      WillHold, FlushDue, Suspended, vars
  <2> QED BY <2>1, <2>2, KeyRadioStep, KeyMainLoopStep, KeyInterruptStep, KeyHostStep DEF Next
<1> QED BY <1>1, <1>2, <1>3 DEF KeyState

LEMMA BusInit == Init => BusKnown /\ WakeClaims
BY DEF Init, BusKnown, WakeClaims, Awake, Suspended

LEMMA KeyInit == Init => KeyState
<1> SUFFICES ASSUME Init PROVE KeyState
  OBVIOUS
<1>1. IInv /\ BusKnown
  BY InitHolds, BusInit
<1>2. 1 \in Eps /\ \A e \in Eps : ep[e].ack = FALSE /\ ep[e].done = FALSE /\ host[e] = Up
  BY DEF Init, Eps
<1>3. kq = <<>> /\ irq.reset = FALSE /\ latch.full = FALSE /\ pc.at = "idle"
  BY DEF Init, NoLatch
<1>4. KeyInvariant
  BY <1>2, <1>3 DEF KeyInvariant, Unconfigured, Collecting, Stalled, LatchFresh, KeysFollow, WillHold
<1> QED BY <1>1, <1>4 DEF KeyState

THEOREM KeyStateHolds ==
  ASSUME ~Detaches
  PROVE  Spec => []KeyState
<1>1. KeyState /\ [Next]_vars => KeyState'
  BY KeyStep
<1> QED BY <1>1, KeyInit, PTL DEF Spec

\* When nothing is in progress the wire is up, the flag agrees, and no flush of
\* a resume is left to do.
LEMMA CalmFields ==
  ASSUME BusKnown, Calm
  PROVE  /\ ~Suspended /\ ~irq.reset /\ ~latch.full /\ conf
         /\ \A e \in Eps : ~FlushDue(e) /\ ~ep[e].done
BY DEF Calm, Served, BusKnown, Suspended, FlushDue, Collected

\* Whatever suspend, resume, reset, halt or wake came in between, a queue that
\* holds a state has it armed while the host collects (usb_ep1_service is
\* called wherever the head may have lost its transfer).
THEOREM QueueArmedHolds ==
  ASSUME ~Detaches
  PROVE  Spec => []QueueArmed
<1>1. KeyState => QueueArmed
  BY CalmFields DEF KeyState, KeyInvariant, Stalled, IInv, HeadInFlight, QueueArmed, Eps
<1> QED BY <1>1, KeyStateHolds, PTL

\* No key is stuck.  Behind the one-slot latch of the CH570 this is proved with
\* the keyboard alone: a mouse report may overwrite a keyboard report there.
THEOREM KeysSettleHolds ==
  ASSUME ~Detaches, Deferred => Others = {}
  PROVE  Spec => []KeysSettle
<1>1. KeyState => KeysSettle
  BY CalmFields DEF KeyState, KeyInvariant, KeysFollow, WillHold, KeysSettle
<1> QED BY <1>1, KeyStateHolds, PTL

WakeState == TypeOK /\ BusKnown /\ WakeClaims

THEOREM WakeStateHolds == Spec => []WakeState
<1>1. Init => WakeState
  BY InitHolds, BusInit DEF WakeState, IInv
<1>2. WakeState /\ TypeOK' /\ [Next]_vars => WakeState'
  BY BusStep, WakeStep DEF WakeState
<1> QED BY <1>1, <1>2, TypeCorrect, PTL DEF Spec

\* USB_ServiceRemoteWake drives at most one pulse in a suspend episode ...
THEOREM WakeOnceHolds == Spec => []WakeOnce
<1>1. WakeState => WakeOnce
  BY DEF WakeState, WakeClaims, WakeOnce
<1> QED BY <1>1, WakeStateHolds, PTL

\* ... and only when a report of the episode asked for it, with the host's
\* permission still standing, though both were tested before the pulse.
THEOREM WakeAskedHolds == Spec => WakeAsked
<1>1. WakeState /\ [Next]_vars =>
        [episode'.pulses > episode.pulses => episode.asked /\ wake.armed]_vars
  BY WakeStep DEF WakeState
<1> QED BY <1>1, WakeStateHolds, PTL DEF Spec, WakeAsked

-----------------------------------------------------------------------------
(* The endpoints that hold one report: a report is lost only where another  *)
(* one, a release, or the flush of a resume makes up for it - or where its  *)
(* history says so (lost), because an interrupt or a cleared halt NAKed it. *)

\* What e's host will hold is the last report or a release, or that report is
\* in the latch, or the bus is suspended, or the flush of a resume is to come.
Follows(e) ==
  \/ WillHold(e) \in {src[e], Up}
  \/ latch.full /\ latch.at = e
  \/ Suspended \/ FlushDue(e)

\* In the pulse of a remote wake a report may overwrite the latch; the host
\* holds nothing that the pulse's own resume will not flush.
PulseFollows(e) ==
  Deferred /\ pc.at = "pulse" => WillHold(e) = Up \/ Suspended \/ (e \in rec /\ resume)

Heard(e)        == Collecting(e) /\ Follows(e) /\ PulseFollows(e)
OtherFollows(e) == ep[e].lost \/ Heard(e)

LEMMA OtherFields ==
  ASSUME NEW e \in Others, IInv
  PROVE  /\ e # 1 /\ e \in Eps /\ WillHold(e) = IF ep[e].ack THEN ep[e].buf ELSE host[e]
         /\ WillHold(e)' = IF ep'[e].ack THEN ep'[e].buf ELSE host'[e]
BY EndpointAssumption DEF WillHold, Eps

\* What a call leaves of an endpoint it does not touch
Untouched(e) ==
  /\ ep'[e] = ep[e] /\ src'[e] = src[e] /\ Bystander
  /\ FlushDue(e) => FlushDue(e)'
  /\ latch.full /\ latch.at = e => latch'.full /\ latch'.at = e
  /\ pc'.at = "pulse" =>
       Suspended \/ (pc.at = "pulse" /\ resume' = resume /\ (e \in rec => e \in rec'))

LEMMA OtherKept ==
  ASSUME NEW e \in Others, IInv, OtherFollows(e), Untouched(e)
  PROVE  OtherFollows(e)'
<1>0. CASE ep[e].lost
  BY <1>0 DEF OtherFollows, Untouched
<1>1. WillHold(e)' = WillHold(e)
  BY OtherFields DEF Untouched, Bystander
<1>2. CASE Heard(e)
  <2>1. Collecting(e)'
    BY <1>2 DEF Heard, Collecting, Untouched, Bystander
  <2>2. Follows(e)'
    BY <1>1, <1>2 DEF Heard, Follows, Untouched, Bystander, Suspended
  <2>3. PulseFollows(e)'
    BY <1>1, <1>2 DEF Heard, PulseFollows, Untouched, Bystander, Suspended
  <2> QED BY <2>1, <2>2, <2>3 DEF OtherFollows, Heard
<1> QED BY <1>0, <1>2 DEF OtherFollows

\* What a report sent on f does to e
LEMMA SentEffect ==
  ASSUME NEW e \in Others, NEW f \in Eps, NEW v \in States, IInv, Send(f, v)
  PROVE  /\ f # e => ep'[e] = ep[e] /\ (e \in rec => e \in rec')
         /\ f = e => /\ ep'[e].done = ep[e].done
                     /\ IF conf /\ ~Suspended
                          THEN ep'[e].ack /\ ep'[e].buf = v /\ ep'[e].lost = ep[e].done
                          ELSE ep' = ep /\ rec' = rec
<1>1. e # 1
  BY OtherFields
<1>2. CASE f = 1
  <2>1. SendKeyboard(v)
    BY <1>2 DEF Send
  <2>2. ep'[e] = ep[e]
    BY <2>1, Offered DEF SendKeyboard
  <2> QED BY <1>1, <1>2, <2>1, <2>2 DEF SendKeyboard
<1>3. CASE f # 1
  <2>1. f \in Others /\ SendOther(f, v)
    BY <1>3 DEF Send, Eps
  <2> QED BY <2>1, OtherSent
<1> QED BY <1>2, <1>3

\* A report sent on e: lost if the last one is just being collected
LEMMA OtherServed ==
  ASSUME NEW e \in Others, KeyState, OtherFollows(e), NEW v \in States, Send(e, v),
         Bystander, v = src'[e], pc' = pc, Deferred => pc.at # "pulse"
  PROVE  OtherFollows(e)'
<1>1. IInv /\ e \in Eps /\ conf \in BOOLEAN
  BY OtherFields DEF KeyState, Eps, IInv, TypeOK
<1>2. /\ ep'[e].done = ep[e].done
      /\ IF conf /\ ~Suspended THEN ep'[e].ack /\ ep'[e].buf = v /\ ep'[e].lost = ep[e].done
                              ELSE ep' = ep /\ rec' = rec
  BY <1>1, SentEffect
<1>3. PulseFollows(e)'
  BY DEF PulseFollows
<1>4. CASE conf /\ ~Suspended
  <2>1. CASE ep[e].done
    BY <1>2, <1>4, <2>1 DEF OtherFollows
  <2>2. CASE ~ep[e].done
    <3>1. WillHold(e)' = src'[e]
      BY <1>1, <1>2, <1>4, OtherFields
    <3> QED BY <1>2, <1>3, <2>2, <3>1 DEF OtherFollows, Heard, Follows, Collecting
  <2> QED BY <2>1, <2>2
<1>5. CASE ~(conf /\ ~Suspended)
  <2>1. CASE ep[e].lost
    BY <1>2, <1>5, <2>1 DEF OtherFollows
  <2>2. CASE Heard(e)
    <3>1. Collecting(e)'
      BY <1>2, <1>5, <2>2 DEF Heard, Collecting, Bystander
    <3>2. CASE Suspended
      BY <1>3, <3>1, <3>2 DEF OtherFollows, Heard, Follows, Bystander, Suspended
    <3>3. CASE ~conf
      <4>1. WillHold(e)' = Up
        BY <1>1, <1>2, <3>3, OtherFields DEF KeyState, KeyInvariant, Unconfigured, Bystander
      <4> QED BY <1>3, <3>1, <4>1 DEF OtherFollows, Heard, Follows
    <3> QED BY <1>1, <1>5, <3>2, <3>3
  <2> QED BY <2>1, <2>2 DEF OtherFollows
<1> QED BY <1>4, <1>5

LEMMA OtherRadioStep ==
  ASSUME NEW e \in Others, KeyState, OtherFollows(e), Radio
  PROVE  OtherFollows(e)'
<1>t. /\ pc \in Pcs /\ e # 1 /\ e \in Eps /\ Up \in States /\ src \in [Eps -> States] /\ IInv
      /\ 1 \in Eps
  BY OtherFields DEF KeyState, IInv, TypeOK, Pcs, Eps, States
<1>b. Bystander
  BY CallsLeaveBus DEF Bystander
<1>p. {"idle", "lost", "forward"} \subseteq Points
  BY DEF Points
<1>1. ASSUME NEW f \in Eps, NEW v \in States, ReportDirect(f, v)
      PROVE  OtherFollows(e)'
  <2>1. ~Deferred /\ Send(f, v) /\ src' = [src EXCEPT ![f] = v]
        /\ UNCHANGED <<pc, latch, resume>>
    BY <1>1 DEF ReportDirect
  <2>2. CASE f # e
    <3>1. ep'[e] = ep[e] /\ (e \in rec => e \in rec') /\ src'[e] = src[e]
      BY <1>t, <2>1, <2>2, SentEffect
    <3> QED BY <1>b, <1>t, <2>1, <3>1, OtherKept DEF Untouched, FlushDue
  <2>3. CASE f = e
    <3>1. src'[e] = v
      BY <1>t, <2>1, <2>3
    <3> QED BY <1>b, <2>1, <2>3, <3>1, OtherServed
  <2> QED BY <2>2, <2>3
<1>2. ASSUME NEW f \in Eps, NEW v \in States, ReportLatch(f, v)
      PROVE  OtherFollows(e)'
  <2>1. /\ Deferred /\ src' = [src EXCEPT ![f] = v] /\ (latch.full => pc.at = "pulse")
        /\ latch' = [full |-> TRUE, at |-> f, val |-> v]
        /\ UNCHANGED <<pc, ep, resume, rec>>
    BY <1>2 DEF ReportLatch
  <2>2. WillHold(e)' = WillHold(e)
    BY <1>b, <1>t, <2>1, OtherFields DEF Bystander
  <2>l. CASE ep[e].lost
    BY <2>1, <2>l DEF OtherFollows
  <2> SUFFICES ASSUME Heard(e) PROVE OtherFollows(e)'
    BY <2>l DEF OtherFollows
  <2>h. Heard(e)
    OBVIOUS
  <2>3. Collecting(e)' /\ PulseFollows(e)'
    BY <1>b, <2>1, <2>2, <2>h
       DEF Heard, Collecting, PulseFollows, Suspended, Bystander
  <2>4. CASE f = e
    BY <2>1, <2>3, <2>4 DEF OtherFollows, Heard, Follows
  <2>5. CASE f # e
    <3>1. src'[e] = src[e]
      BY <1>t, <2>1, <2>5
    <3>2. CASE latch.full
      <4>1. WillHold(e) = Up \/ Suspended \/ (e \in rec /\ resume)
        BY <2>1, <2>h, <3>2 DEF Heard, PulseFollows
      <4>2. Follows(e)'
        BY <1>b, <2>1, <2>2, <4>1 DEF Follows, FlushDue, Suspended, Bystander
      <4> QED BY <2>3, <4>2 DEF OtherFollows, Heard
    <3>3. CASE ~latch.full
      <4>1. Follows(e)'
        BY <1>b, <2>1, <2>2, <2>h, <3>1, <3>3
           DEF Heard, Follows, FlushDue, Suspended, Bystander
      <4> QED BY <2>3, <4>1 DEF OtherFollows, Heard
    <3> QED BY <3>2, <3>3
  <2> QED BY <2>4, <2>5
<1>3. CASE LinkLost
  <2>1. /\ pc.at = "idle" /\ pc'.at = "lost"
        /\ src' = [src EXCEPT ![1] = Up] /\ UNCHANGED <<resume, rec, latch>>
        /\ Service(IF conf THEN Push(kq, Up) ELSE kq, owned, ep)
    BY <1>3, <1>t, <1>p, GotoFields DEF LinkLost
  <2>2. ep'[e] = ep[e] /\ src'[e] = src[e]
    BY <1>t, <2>1, Offered
  <2> QED BY <1>b, <1>t, <2>1, <2>2, OtherKept DEF Untouched, FlushDue
<1>4. CASE LinkLostCheck
  <2>1. /\ pc.at = "lost" /\ pc'.at \in {"idle", "forward"}
        /\ UNCHANGED <<ep, resume, rec, latch, src>>
    BY <1>4, <1>t, <1>p, GotoFields DEF LinkLostCheck
  <2> QED BY <1>b, <1>t, <2>1, OtherKept DEF Untouched, FlushDue
<1>5. CASE LinkLostForward
  <2>1. /\ pc.at = "forward" /\ pc'.at = "idle" /\ UNCHANGED <<resume, src>> /\ ~latch.full
    BY <1>5, <1>t, <1>p, GotoFields
       DEF LinkLostForward, KeyState, KeyInvariant, LatchFresh
  <2>2. ep'[e] = ep[e] /\ (e \in rec => e \in rec')
    <3>1. CASE Deferred
      BY <1>5, <3>1 DEF LinkLostForward
    <3>2. CASE ~Deferred
      <4>1. Send(1, Up)
        BY <1>5, <3>2 DEF LinkLostForward, Send
      <4> QED BY <1>t, <4>1, SentEffect
    <3> QED BY <3>1, <3>2
  <2> QED BY <1>b, <1>t, <2>1, <2>2, OtherKept DEF Untouched, FlushDue
<1> QED BY <1>1, <1>2, <1>3, <1>4, <1>5 DEF Radio

LEMMA OtherMainLoopStep ==
  ASSUME NEW e \in Others, KeyState, OtherFollows(e), MainLoop
  PROVE  OtherFollows(e)'
<1>t. /\ pc \in Pcs /\ e # 1 /\ e \in Eps /\ Up \in States /\ IInv /\ conf \in BOOLEAN
      /\ latch \in Reports /\ kq \in Queues /\ owned \in BOOLEAN /\ ep \in Endpoints
  BY OtherFields DEF KeyState, IInv, TypeOK, Pcs, States, Queues
<1>b. Bystander
  BY CallsLeaveBus DEF Bystander
<1>p. {"idle", "poll", "keyboard", "others", "wake", "drive", "pulse"} \subseteq Points
  BY DEF Points
<1>1. CASE ForwardPump
  <2>1. /\ pc.at = "idle" /\ latch.full /\ UNCHANGED <<resume, pc, src>>
        /\ latch.at \in Eps /\ latch.val \in States
    BY <1>1, <1>t DEF ForwardPump, Reports
  <2>2. CASE ~conf
    <3>1. ep' = ep
      BY <1>1, <2>2 DEF ForwardPump
    <3>2. WillHold(e)' = Up
      BY <1>b, <1>t, <2>2, <3>1, OtherFields DEF KeyState, KeyInvariant, Unconfigured, Bystander
    <3> QED BY <1>b, <2>1, <3>1, <3>2
            DEF OtherFollows, Heard, Collecting, Follows, PulseFollows, Bystander
  <2>3. CASE conf /\ latch.at # e
    <3>1. Send(latch.at, latch.val)
      BY <1>1, <2>3 DEF ForwardPump
    <3>2. ep'[e] = ep[e] /\ (e \in rec => e \in rec')
      BY <1>t, <2>1, <2>3, <3>1, SentEffect
    <3> QED BY <1>b, <1>t, <2>1, <2>3, <3>2, OtherKept DEF Untouched, FlushDue
  <2>4. CASE conf /\ latch.at = e
    <3>1. Send(e, latch.val) /\ latch.val \in States
      BY <1>1, <2>1, <2>4 DEF ForwardPump
    <3>2. latch.val = src'[e]
      BY <1>t, <2>1, <2>4 DEF KeyState, KeyInvariant, LatchFresh
    <3> QED BY <1>b, <2>1, <3>1, <3>2, OtherServed
  <2> QED BY <2>2, <2>3, <2>4
<1>2. CASE PollResume
  <2>1. pc.at = "idle" /\ pc'.at = "poll" /\ UNCHANGED <<ep, rec, resume, latch, src>> /\ resume
    BY <1>2, <1>t, <1>p, GotoFields DEF PollResume
  <2> QED BY <1>b, <1>t, <2>1, OtherKept DEF Untouched, FlushDue
<1>3. CASE PollClear
  <2>1. pc.at = "poll" /\ pc'.at = "keyboard" /\ UNCHANGED <<ep, rec, latch, src>>
    BY <1>3, <1>t, <1>p, GotoFields DEF PollClear
  <2> QED BY <1>b, <1>t, <2>1, OtherKept DEF Untouched, FlushDue
<1>4. CASE ReconcileKeyboard
  <2>1. pc.at = "keyboard" /\ pc'.at = "others" /\ pc'.left = Others
        /\ UNCHANGED <<latch, src, resume>>
    <3>1. /\ [Goto("others") EXCEPT !.left = Others].at = "others"
          /\ [Goto("others") EXCEPT !.left = Others].left = Others
      BY <1>t DEF Goto, Pcs
    <3> QED BY <1>4, <3>1 DEF ReconcileKeyboard
  <2>2. ep'[e] = ep[e] /\ (e \in rec => e \in rec')
    <3>1. CASE ~FlushesKeys
      BY <1>4, <3>1 DEF ReconcileKeyboard
    <3>2. CASE FlushesKeys
      <4> DEFINE q == IF kq = <<>> THEN Push(kq, Up) ELSE kq
      <4>1. Service(q, owned, ep) /\ rec' = rec \ {1}
        BY <1>4, <3>2 DEF ReconcileKeyboard
      <4>2. q \in Queues
        BY <1>t, PushKeepsHead
      <4>3. ep'[e] = ep[e]
        BY <1>t, <4>1, <4>2, Serviced
      <4> QED BY <1>t, <4>1, <4>3
    <3> QED BY <3>1, <3>2
  <2> QED BY <1>b, <1>t, <2>1, <2>2, OtherKept DEF Untouched, FlushDue
<1>5. CASE ReconcileOther
  <2>1. PICK f \in pc.left :
          /\ IF Flushes(f)
               THEN /\ rec' = rec \ {f}
                    /\ ep' = Armed(f, Up)
               ELSE UNCHANGED <<rec, ep>>
          /\ pc' = IF pc.left = {f} THEN Goto("idle")
                   ELSE [Goto("others") EXCEPT !.left = pc.left \ {f}]
    BY <1>5 DEF ReconcileOther
  <2>2. f \in Others /\ f # 1 /\ f \in Eps
    BY <1>t, EndpointAssumption DEF Pcs, Eps
  <2>3. /\ pc.at = "others" /\ pc'.at \in {"idle", "others"}
        /\ pc.left # {f} => pc'.at = "others" /\ pc'.left = pc.left \ {f}
        /\ UNCHANGED <<resume, latch, src>>
    <3>1. \A L : /\ [Goto("others") EXCEPT !.left = L].at = "others"
                 /\ [Goto("others") EXCEPT !.left = L].left = L
      BY <1>t DEF Goto, Pcs
    <3>2. Goto("idle").at = "idle"
      BY <1>t, <1>p, GotoFields
    <3>3. UNCHANGED <<resume, latch, src>> /\ pc.at = "others"
      BY <1>5 DEF ReconcileOther
    <3>4. CASE pc.left = {f}
      BY <2>1, <3>2, <3>3, <3>4
    <3>5. CASE pc.left # {f}
      BY <2>1, <3>1, <3>3, <3>5
    <3> QED BY <3>4, <3>5
  <2>4. CASE f # e
    <3>1. ep'[e] = ep[e] /\ (e \in rec => e \in rec')
      BY <1>t, <2>1, <2>2, <2>4, ArmKeeps
    <3>2. e \in pc.left => pc'.at = "others" /\ e \in pc'.left
      BY <2>3, <2>4
    <3> QED BY <1>b, <1>t, <2>3, <3>1, <3>2, OtherKept DEF Untouched, FlushDue
  <2>5. CASE f = e
    <3>1. CASE Flushes(e)
      <4>1. /\ ep'[e].ack /\ ep'[e].buf = Up /\ ep'[e].done = ep[e].done
            /\ ep'[e].lost = ep[e].done
        BY <1>t, <2>1, <2>5, <3>1, ArmKeeps
      <4>2. CASE ep[e].done
        BY <4>1, <4>2 DEF OtherFollows
      <4>3. CASE ~ep[e].done
        <5>1. WillHold(e)' = Up
          BY <1>t, <4>1, OtherFields
        <5> QED BY <2>3, <4>1, <4>3, <5>1
                DEF OtherFollows, Heard, Collecting, Follows, PulseFollows
      <4> QED BY <4>2, <4>3
    <3>2. CASE ~Flushes(e)
      <4>1. ep' = ep /\ rec' = rec
        BY <2>1, <2>5, <3>2
      <4>2. WillHold(e)' = WillHold(e)
        BY <1>b, <1>t, <4>1, OtherFields DEF Bystander
      <4>3. e \notin rec \/ ~conf \/ Suspended
        BY <3>2 DEF Flushes
      <4>4. ~conf => WillHold(e) = Up
        BY <1>t, OtherFields DEF KeyState, KeyInvariant, Unconfigured
      <4>5. CASE ep[e].lost
        BY <4>1, <4>5 DEF OtherFollows
      <4>6. CASE Heard(e)
        <5>1. Follows(e)'
          BY <1>b, <2>3, <4>2, <4>3, <4>4, <4>6
             DEF Heard, Follows, FlushDue, Suspended, Bystander
        <5> QED BY <1>b, <2>3, <4>1, <4>6, <5>1
                DEF OtherFollows, Heard, Collecting, PulseFollows, Bystander
      <4> QED BY <4>5, <4>6 DEF OtherFollows
    <3> QED BY <3>1, <3>2
  <2> QED BY <2>4, <2>5
<1>6. CASE WakeCheck
  <2>1. pc.at = "idle" /\ pc'.at = "wake" /\ UNCHANGED <<ep, rec, resume, latch, src>>
    BY <1>6, <1>t, <1>p, GotoFields DEF WakeCheck
  <2> QED BY <1>b, <1>t, <2>1, OtherKept DEF Untouched, FlushDue
<1>7. CASE WakeClaim
  <2>1. pc.at = "wake" /\ pc'.at \in {"idle", "drive"} /\ UNCHANGED <<ep, rec, resume, latch, src>>
    BY <1>7, <1>t, <1>p, GotoFields DEF WakeClaim
  <2> QED BY <1>b, <1>t, <2>1, OtherKept DEF Untouched, FlushDue
<1>8. CASE WakeDrive
  <2>1. /\ pc.at = "drive" /\ pc'.at \in {"idle", "pulse"} /\ (pc'.at = "pulse" => Suspended)
        /\ UNCHANGED <<ep, rec, resume, latch, src>>
    BY <1>8, <1>t, <1>p, GotoFields DEF WakeDrive
  <2> QED BY <1>b, <1>t, <2>1, OtherKept DEF Untouched, FlushDue
<1>9. CASE PulseEnds
  <2>1. pc.at = "pulse" /\ pc'.at = "idle" /\ UNCHANGED <<ep, rec, resume, latch, src>>
    BY <1>9, <1>t, <1>p, GotoFields DEF PulseEnds
  <2> QED BY <1>b, <1>t, <2>1, OtherKept DEF Untouched, FlushDue
<1> QED BY <1>1, <1>2, <1>3, <1>4, <1>5, <1>6, <1>7, <1>8, <1>9 DEF MainLoop

LEMMA OtherInterruptStep ==
  ASSUME NEW e \in Others, KeyState, Heard(e), Interrupts
  PROVE  Heard(e)'
<1>t. /\ e # 1 /\ e \in Eps /\ 1 \in Eps /\ IInv /\ conf \in BOOLEAN /\ irq \in [reset : BOOLEAN, edge : BOOLEAN]
      /\ kq \in Queues /\ owned \in BOOLEAN /\ ep \in Endpoints
  BY OtherFields DEF KeyState, IInv, TypeOK, Queues, Eps
\* A step that keeps what e's host will hold, and what makes up for a loss
<1>k. ASSUME WillHold(e)' = WillHold(e), Collecting(e)', UNCHANGED <<latch, pc, src>>,
             Suspended => Suspended' \/ (e \in rec' /\ resume'),
             e \in rec => e \in rec', resume => resume'
      PROVE  Heard(e)'
  <2>1. Follows(e)'
    BY <1>k DEF Heard, Follows, FlushDue
  <2>2. PulseFollows(e)'
    BY <1>k DEF Heard, PulseFollows
  <2> QED BY <1>k, <2>1, <2>2 DEF Heard
<1>1. CASE TransferKeyboard
  <2> DEFINE eps == [ep EXCEPT ![1].ack = FALSE, ![1].done = FALSE]
             q == IF owned THEN Retire(kq) ELSE kq
  <2>1. Service(q, FALSE, eps) /\ UNCHANGED <<conf, bus, susp, irq, resume, rec, latch, pc, host, src>>
    BY <1>1 DEF TransferKeyboard
  <2>2. q \in Queues
    BY <1>t, SlotsAssumption DEF Queues, Retire
  <2>3. eps \in Endpoints /\ eps[e] = ep[e]
    <3>1. eps = [ep EXCEPT ![1] = [ep[1] EXCEPT !.ack = FALSE, !.done = FALSE]]
      BY <1>t DEF Endpoints
    <3>2. [ep[1] EXCEPT !.ack = FALSE, !.done = FALSE] \in [ack: BOOLEAN, done: BOOLEAN, buf: States, lost: BOOLEAN]
      BY <1>t DEF Endpoints
    <3> HIDE DEF eps
    <3> QED BY <1>t, <3>1, <3>2 DEF Endpoints
  <2> HIDE DEF eps, q
  <2>4. ep'[e] = ep[e]
    BY <2>1, <2>2, <2>3, Serviced
  <2>5. WillHold(e)' = WillHold(e) /\ Collecting(e)'
    BY <1>t, <2>1, <2>4, OtherFields DEF Heard, Collecting
  <2> QED BY <1>k, <2>1, <2>5 DEF Suspended
<1>2. ASSUME NEW f \in Others, TransferOther(f)
      PROVE  Heard(e)'
  <2>1. /\ ep' = [ep EXCEPT ![f].ack = FALSE, ![f].done = FALSE] /\ ep[f].done
        /\ UNCHANGED <<bus, susp, resume, rec, latch, pc, host, src>>
    BY <1>2 DEF TransferOther
  <2>2. f # e => ep'[e] = ep[e]
    BY <1>t, <2>1 DEF Endpoints
  <2>3. f = e => ~ep'[e].ack /\ ~ep'[e].done
    BY <1>t, <2>1 DEF Endpoints
  <2>4. f = e => ep[e].ack /\ host[e] = ep[e].buf
    BY <2>1 DEF Heard, Collecting
  <2>5. Collecting(e)'
    BY <2>1, <2>2, <2>3 DEF Heard, Collecting
  <2>6. /\ WillHold(e) = IF ep[e].ack THEN ep[e].buf ELSE host[e]
        /\ WillHold(e)' = IF ep'[e].ack THEN ep'[e].buf ELSE host'[e]
    BY <1>t, OtherFields
  <2>7. WillHold(e)' = WillHold(e)
    BY <2>1, <2>2, <2>3, <2>4, <2>6
  <2> QED BY <1>k, <2>1, <2>5, <2>7 DEF Suspended
<1>3. CASE BusResetIsr
  <2>1. irq.reset /\ ep' = Nak(ep, Eps) /\ host' = host /\ Collected = {}
    BY <1>3 DEF BusResetIsr
  <2>2. ~ep'[e].ack /\ ~ep'[e].done
    BY <1>t, <2>1 DEF Nak, Endpoints, Collected
  <2>3. WillHold(e)' = Up
    BY <1>t, <2>1, <2>2, OtherFields DEF KeyState, KeyInvariant, Unconfigured
  <2> QED BY <2>2, <2>3 DEF Heard, Collecting, Follows, PulseFollows
<1>4. CASE SuspendIsr
  <2>1. Suspended' /\ ep' = Nak(ep, Eps) /\ Collected = {}
    BY <1>4 DEF SuspendIsr, Suspended
  <2>2. ~ep'[e].done
    BY <1>t, <2>1 DEF Nak, Endpoints, Collected
  <2> QED BY <2>1, <2>2 DEF Heard, Collecting, Follows, PulseFollows
<1>5. CASE ResumeIsr
  <2>1. /\ bus = "active" /\ bus' = bus /\ UNCHANGED <<ep, latch, pc, host, src>>
        /\ resume' = (resume \/ susp) /\ rec' = IF susp THEN Eps ELSE rec
    BY <1>5 DEF ResumeIsr, Reconciled
  <2>2. WillHold(e)' = WillHold(e) /\ Collecting(e)'
    BY <1>t, <2>1, OtherFields DEF Heard, Collecting
  <2> QED BY <1>k, <1>t, <2>1, <2>2 DEF Suspended
<1> QED BY <1>1, <1>2, <1>3, <1>4, <1>5 DEF Interrupts

LEMMA OtherHostStep ==
  ASSUME ~Detaches, NEW e \in Others, KeyState, Heard(e), Host
  PROVE  OtherFollows(e)'
<1>t. /\ e # 1 /\ e \in Eps /\ 1 \in Eps /\ IInv /\ conf \in BOOLEAN /\ TypeOK
      /\ kq \in Queues /\ owned \in BOOLEAN /\ ep \in Endpoints /\ host \in [Eps -> States]
  BY OtherFields DEF KeyState, IInv, TypeOK, Queues, Eps
<1>k. ASSUME WillHold(e)' \in {WillHold(e), Up}, Collecting(e)', Suspended => Suspended',
             pc'.at = pc.at, pc'.left = pc.left, UNCHANGED <<latch, src, rec, resume>>
      PROVE  Heard(e)'
  <2>1. Follows(e)'
    BY <1>k DEF Heard, Follows, FlushDue
  <2>2. PulseFollows(e)'
    BY <1>k DEF Heard, PulseFollows
  <2> QED BY <1>k, <2>1, <2>2 DEF Heard
<1>1. ASSUME NEW f \in Eps, HostPoll(f)
      PROVE  Heard(e)'
  <2>1. /\ ep[f].ack /\ host' = [host EXCEPT ![f] = ep[f].buf] /\ ep' = [ep EXCEPT ![f].done = TRUE]
        /\ UNCHANGED <<bus, susp, resume, rec, latch, pc, src>>
    BY <1>1 DEF HostPoll
  <2>2. f # e => ep'[e] = ep[e] /\ host'[e] = host[e]
    BY <1>t, <2>1 DEF Endpoints
  <2>3. f = e => ep'[e].ack /\ ep'[e].buf = ep[e].buf /\ host'[e] = ep[e].buf
    BY <1>t, <2>1 DEF Endpoints
  <2>4. Collecting(e)'
    BY <2>2, <2>3 DEF Heard, Collecting
  <2>5. /\ WillHold(e) = IF ep[e].ack THEN ep[e].buf ELSE host[e]
        /\ WillHold(e)' = IF ep'[e].ack THEN ep'[e].buf ELSE host'[e]
    BY <1>t, OtherFields
  <2>6. WillHold(e)' = WillHold(e)
    BY <2>1, <2>2, <2>3, <2>5
  <2> QED BY <1>k, <2>1, <2>4, <2>6 DEF Suspended
<1>2. ASSUME NEW c \in BOOLEAN, SetConfiguration(c) \/ SetFeature(c)
      PROVE  Heard(e)'
  <2>1. host' = host /\ UNCHANGED <<bus, susp, ep, resume, rec, latch, pc, src>>
    BY <1>2, <1>t DEF SetConfiguration, SetFeature
  <2>2. WillHold(e)' = WillHold(e) /\ Collecting(e)'
    BY <1>t, <2>1, OtherFields DEF Heard, Collecting
  <2> QED BY <1>k, <2>1, <2>2 DEF Suspended
<1>3. ASSUME NEW f \in Halts, ClearHalt(f)
      PROVE  OtherFollows(e)'
  <2>1. UNCHANGED <<bus, susp, resume, rec, latch, pc, host, src>> /\ ~ep[e].done
    BY <1>3, <1>t DEF ClearHalt, Listens, Served, Collected
  <2>2. CASE f = 1
    <3>1. Service(kq, FALSE, Nak(ep, {1}))
      BY <1>3, <2>2 DEF ClearHalt
    <3>2. Nak(ep, {1}) \in Endpoints /\ Nak(ep, {1})[e] = ep[e]
      <4>1. Nak(ep, {1}) \in Endpoints
        BY <1>t, NakKeeps
      <4> QED BY <1>t, <4>1 DEF Nak, Endpoints
    <3>3. ep'[e] = ep[e]
      BY <1>t, <3>1, <3>2, Serviced
    <3>4. WillHold(e)' = WillHold(e) /\ Collecting(e)'
      BY <1>t, <2>1, <3>3, OtherFields DEF Heard, Collecting
    <3> QED BY <1>k, <2>1, <3>4 DEF Suspended, OtherFollows
  <2>3. CASE f # 1
    <3>1. /\ f \in Others
          /\ ep' = [Nak(ep, {f}) EXCEPT ![f].lost = @ \/ ep[f].ack]
      BY <1>3, <2>3, EndpointAssumption DEF ClearHalt
    <3>2. /\ f # e => ep'[e] = ep[e]
          /\ f = e => ~ep'[e].ack /\ ~ep'[e].done /\ (ep'[e].lost <=> ep[e].lost \/ ep[e].ack)
      <4>1. /\ \A g \in Eps \ {f} : ep'[g] = ep[g]
            /\ ~ep'[f].ack /\ ep'[f].done = ep[f].done
            /\ ep'[f].lost = (ep[f].lost \/ ep[f].ack)
        BY <1>t, <3>1, HaltKeeps
      <4> QED BY <1>t, <2>1, <4>1
    <3>3. CASE f = e /\ ep[e].ack
      BY <3>2, <3>3 DEF OtherFollows
    <3>4. CASE f # e \/ ~ep[e].ack
      <4>1. WillHold(e)' = WillHold(e) /\ Collecting(e)'
        BY <1>t, <2>1, <3>2, <3>4, OtherFields DEF Heard, Collecting
      <4> QED BY <1>k, <2>1, <4>1 DEF Suspended, OtherFollows
    <3> QED BY <3>3, <3>4
  <2> QED BY <2>2, <2>3
<1>4. ASSUME Suspend \/ Resume
      PROVE  Heard(e)'
  <2>1. Edge /\ UNCHANGED <<susp, ep, resume, rec, latch, host, src>>
    BY <1>4 DEF Suspend, Resume
  <2>2. pc'.at = pc.at /\ pc'.left = pc.left /\ ~irq.edge
    BY <1>t, <2>1, EdgeFields
  <2>3. Suspended'
    BY <1>4, <2>1, <2>2 DEF Suspend, Resume, KeyState, BusKnown, Suspended
  <2>4. WillHold(e)' = WillHold(e) /\ Collecting(e)'
    BY <1>t, <2>1, OtherFields DEF Heard, Collecting
  <2> QED BY <1>k, <2>1, <2>2, <2>3, <2>4
<1>5. ASSUME BusReset
      PROVE  Heard(e)'
  <2>1. /\ Edge /\ host' = [f \in Eps |-> Up] /\ bus' = "active"
        /\ UNCHANGED <<susp, ep, resume, rec, latch, src>>
    BY <1>5 DEF BusReset
  <2>2. pc'.at = pc.at /\ pc'.left = pc.left /\ ~irq.edge /\ Collected = {}
    BY <1>t, <2>1, EdgeFields
  <2>3. Suspended => Suspended'
    BY <2>1, <2>2 DEF KeyState, BusKnown, Suspended
  <2>4. ~ep'[e].done /\ host'[e] = Up
    BY <1>t, <2>1, <2>2 DEF Collected
  <2>5. WillHold(e)' \in {WillHold(e), Up} /\ Collecting(e)'
    BY <1>t, <2>1, <2>4, OtherFields DEF Collecting
  <2> QED BY <1>k, <2>1, <2>2, <2>3, <2>5
<1> QED BY <1>1, <1>2, <1>3, <1>4, <1>5 DEF Host, OtherFollows

\* No interrupt and no other request of the host takes the loss back.
LEMMA LostStays ==
  ASSUME NEW e \in Others, KeyState, ep[e].lost, Interrupts \/ Host
  PROVE  ep'[e].lost
<1>t. /\ e # 1 /\ e \in Eps /\ 1 \in Eps /\ ep \in Endpoints /\ TypeOK /\ IInv
      /\ kq \in Queues /\ owned \in BOOLEAN
  BY OtherFields DEF KeyState, IInv, TypeOK, Eps, Queues
<1>1. CASE TransferKeyboard
  <2> DEFINE eps == [ep EXCEPT ![1].ack = FALSE, ![1].done = FALSE]
             q == IF owned THEN Retire(kq) ELSE kq
  <2>1. Service(q, FALSE, eps)
    BY <1>1 DEF TransferKeyboard
  <2>2. q \in Queues
    BY <1>t, SlotsAssumption DEF Queues, Retire
  <2>3. eps \in Endpoints /\ eps[e] = ep[e]
    <3>1. eps = [ep EXCEPT ![1] = [ep[1] EXCEPT !.ack = FALSE, !.done = FALSE]]
      BY <1>t DEF Endpoints
    <3>2. [ep[1] EXCEPT !.ack = FALSE, !.done = FALSE] \in [ack: BOOLEAN, done: BOOLEAN, buf: States, lost: BOOLEAN]
      BY <1>t DEF Endpoints
    <3> HIDE DEF eps
    <3> QED BY <1>t, <3>1, <3>2 DEF Endpoints
  <2> HIDE DEF eps, q
  <2> QED BY <1>t, <2>1, <2>2, <2>3, Serviced
<1>2. ASSUME NEW f \in Others, TransferOther(f)
      PROVE  ep'[e].lost
  BY <1>2, <1>t DEF TransferOther, Endpoints
<1>3. CASE BusResetIsr \/ SuspendIsr
  BY <1>3, <1>t DEF BusResetIsr, SuspendIsr, Nak, Endpoints
<1>4. CASE ResumeIsr \/ Suspend \/ Resume \/ BusReset
  BY <1>4 DEF ResumeIsr, Suspend, Resume, BusReset
<1>5. ASSUME NEW c \in BOOLEAN, SetConfiguration(c) \/ SetFeature(c)
      PROVE  ep'[e].lost
  BY <1>5 DEF SetConfiguration, SetFeature
<1>6. ASSUME NEW f \in Eps, HostPoll(f)
      PROVE  ep'[e].lost
  BY <1>6, <1>t DEF HostPoll, Endpoints
<1>7. ASSUME NEW f \in Halts, ClearHalt(f)
      PROVE  ep'[e].lost
  <2>1. CASE f = 1
    <3>1. Service(kq, FALSE, Nak(ep, {1}))
      BY <1>7, <2>1 DEF ClearHalt
    <3>2. Nak(ep, {1}) \in Endpoints /\ Nak(ep, {1})[e] = ep[e]
      <4>1. Nak(ep, {1}) \in Endpoints
        BY <1>t, NakKeeps
      <4> QED BY <1>t, <4>1 DEF Nak, Endpoints
    <3> QED BY <1>t, <3>1, <3>2, Serviced
  <2>2. CASE f # 1
    <3>1. /\ f \in Others
          /\ ep' = [Nak(ep, {f}) EXCEPT ![f].lost = @ \/ ep[f].ack]
      BY <1>7, <2>2, EndpointAssumption DEF ClearHalt
    <3> QED BY <1>t, <3>1, HaltKeeps
  <2> QED BY <2>1, <2>2
<1> QED BY <1>1, <1>2, <1>3, <1>4, <1>5, <1>6, <1>7 DEF Interrupts, Host

OtherState == KeyState /\ \A e \in Others : OtherFollows(e)

LEMMA OtherStep ==
  ASSUME ~Detaches, OtherState, [Next]_vars
  PROVE  OtherState'
<1>1. KeyState /\ KeyState'
  BY KeyStep DEF OtherState
<1>2. ASSUME NEW e \in Others PROVE OtherFollows(e)'
  <2>1. OtherFollows(e)
    BY DEF OtherState
  <2>2. CASE UNCHANGED vars
    BY <2>1, <2>2 DEF OtherFollows, Heard, Collecting, Follows, PulseFollows, WillHold, FlushDue,
                      Suspended, vars
  <2>3. CASE Interrupts \/ Host
    <3>1. CASE ep[e].lost
      BY <1>1, <2>3, <3>1, LostStays DEF OtherFollows
    <3>2. CASE Heard(e)
      BY <1>1, <2>3, <3>2, OtherInterruptStep, OtherHostStep DEF OtherFollows
    <3> QED BY <2>1, <3>1, <3>2 DEF OtherFollows
  <2> QED BY <1>1, <2>1, <2>2, <2>3, OtherRadioStep, OtherMainLoopStep DEF Next
<1> QED BY <1>1, <1>2 DEF OtherState

\* No button or media key is stuck, though one report of an endpoint overwrites
\* the one before it and a suspend drops what is armed - unless the newest was
\* lost to the NAK of an interrupt or a cleared halt, and until the next one.
THEOREM OthersSettleHolds ==
  ASSUME ~Detaches
  PROVE  Spec => []OthersSettle
<1>1. Init => OtherState
  <2> SUFFICES ASSUME Init, NEW e \in Others PROVE OtherFollows(e)
    BY KeyInit DEF OtherState
  <2>1. IInv
    BY InitHolds
  <2>2. ~ep[e].ack /\ ~ep[e].done /\ host[e] = Up
    BY <2>1, OtherFields DEF Init
  <2>3. WillHold(e) = Up
    BY <2>1, <2>2, OtherFields
  <2> QED BY <2>2, <2>3 DEF OtherFollows, Heard, Collecting, Follows, PulseFollows
<1>2. OtherState /\ [Next]_vars => OtherState'
  BY OtherStep
<1>3. OtherState => OthersSettle
  <2> SUFFICES ASSUME OtherState, Calm, NEW e \in Others, ~ep[e].ack, ~ep[e].lost
               PROVE  host[e] \in {src[e], Up}
    BY DEF OthersSettle
  <2>1. e \in Eps /\ WillHold(e) = host[e]
    BY OtherFields DEF OtherState, KeyState
  <2>2. ~Suspended /\ ~latch.full /\ ~FlushDue(e)
    BY <2>1, CalmFields DEF OtherState, KeyState
  <2> QED BY <2>1, <2>2 DEF OtherState, OtherFollows, Heard, Follows
<1> QED BY <1>1, <1>2, <1>3, PTL DEF Spec

=============================================================================
