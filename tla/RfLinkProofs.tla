---------------------------- MODULE RfLinkProofs ----------------------------
(***************************************************************************)
(* Theorems about RfLink, for any set of keyboards, either executor, any   *)
(* boot window and any number of faults.                                   *)
(***************************************************************************)
EXTENDS RfLink, TLAPS

-----------------------------------------------------------------------------
(* What the helpers return *)

\* The events are the thirteen bits of the task's event word.
LEMMA EventNames ==
  Events = {"PERSIST", "QUIESCE", "START", "BOOT", "CONFIRM", "RESTART",
            "POST_RX", "PREP", "ACK", "POLL", "TX15", "TX15B", "TIMEOUT"}
BY DEF Events, Prio

\* A timer slot posts an event.
LEMMA ExpiryEvent == \A t \in OneShots : Expiry[t] \in Events
BY EventNames DEF OneShots, Expiry

\* Every operation of the executor and of the timing seam keeps the queue well typed.
LEMMA QueueOps ==
  ASSUME NEW s \in QueueType
  PROVE  /\ \A e \in Events : Post(s, e) \in QueueType
         /\ \A e \in Events : PostDelayed(s, e) \in QueueType
         /\ \A E : Cancel(s, E) \in QueueType
         /\ \A t \in OneShots : Arm(s, t) \in QueueType
         /\ \A T \in SUBSET OneShots : Disarm(s, T) \in QueueType
         /\ \A g \in Grids : GridStart(s, g) \in QueueType
         /\ \A g \in Grids : GridStop(s, g) \in QueueType
         /\ GridStopAll(s) \in QueueType
         /\ Return(s) \in QueueType
<1>1. \A e \in Events : Post(s, e) \in QueueType
  BY DEF QueueType, Post
<1>2. \A e \in Events : PostDelayed(s, e) \in QueueType
  BY <1>1 DEF QueueType, PostDelayed
<1>3. \A E : Cancel(s, E) \in QueueType
  BY DEF QueueType, Cancel
<1>4. \A t \in OneShots : Arm(s, t) \in QueueType
  BY DEF QueueType, Arm
<1>5. \A T \in SUBSET OneShots : Disarm(s, T) \in QueueType
  BY DEF QueueType, Disarm
<1>6. \A g \in Grids : GridStart(s, g) \in QueueType
  BY DEF QueueType, GridStart
<1>7. \A g \in Grids : GridStop(s, g) \in QueueType
  BY DEF QueueType, GridStop, Grids
<1>8. GridStopAll(s) \in QueueType
  BY DEF QueueType, GridStopAll, Grids
<1>9. Return(s) \in QueueType
  BY DEF QueueType, Return
<1> QED BY <1>1, <1>2, <1>3, <1>4, <1>5, <1>6, <1>7, <1>8, <1>9

\* The shared pieces of the handlers keep the link flags well typed.
LEMMA LinkOps ==
  ASSUME NEW l \in LinkType
  PROVE  /\ WatchdogOn(l) \in LinkType
         /\ CloseWindow(l) \in LinkType
         /\ AbortBurst(l) \in LinkType
         /\ FreshPair(l) \in LinkType
<1>0. 0 \in 0 .. BootSteps - 1 /\ 0 \in 0 .. 1
  BY BoundsAssumption
<1>1. WatchdogOn(l) \in LinkType
  BY DEF LinkType, WatchdogOn
<1>2. CloseWindow(l) \in LinkType
  BY <1>0 DEF LinkType, CloseWindow
<1>3. AbortBurst(l) \in LinkType
  BY <1>0 DEF LinkType, AbortBurst
<1>4. ForgetAttempt(l) \in LinkType
  BY <1>3 DEF LinkType, ForgetAttempt, Confirms
<1>5. FreshPair(l) \in LinkType
  BY <1>0, <1>4 DEF LinkType, FreshPair
<1> QED BY <1>1, <1>2, <1>3, <1>5

\* So do the compound operations on the queue, and what a handler takes.
LEMMA QueueMacros ==
  ASSUME NEW s \in QueueType
  PROVE  /\ WatchdogTimer(s) \in QueueType
         /\ AbortBurstQ(s) \in QueueType
         /\ FreshPairQ(s) \in QueueType
         /\ Supervise(s) \in QueueType
         /\ HandGrid(s) \in QueueType
         /\ \A ok : Retry(s, ok) \in QueueType
         /\ \A b : ArmPersistQ(b, s) \in QueueType
<1>1. {"EV10"} \in SUBSET OneShots /\ "EV10" \in OneShots /\ "BOOT" \in OneShots
  BY DEF OneShots
<1>2. "RESTART" \in Events /\ "PERSIST" \in Events /\ "POLL" \in Grids
  BY EventNames DEF Grids
<1>3. WatchdogTimer(s) \in QueueType
  BY <1>1, QueueOps DEF WatchdogTimer
<1>4. AbortBurstQ(s) \in QueueType
  BY QueueOps DEF AbortBurstQ
<1>5. FreshPairQ(s) \in QueueType
  BY <1>1, QueueOps DEF FreshPairQ, AbortBurstQ
<1>6. Supervise(s) \in QueueType
  BY <1>1, QueueOps DEF Supervise
<1>7. HandGrid(s) \in QueueType
  BY <1>2, QueueOps DEF HandGrid
<1>8. \A ok : Retry(s, ok) \in QueueType
  BY <1>2, QueueOps DEF Retry
<1>9. \A b : ArmPersistQ(b, s) \in QueueType
  BY <1>2, QueueOps DEF ArmPersistQ
<1> QED BY <1>3, <1>4, <1>5, <1>6, <1>7, <1>8, <1>9

\* What a handler takes from the queue leaves a well-typed queue.
LEMMA TookType ==
  ASSUME q \in QueueType, NEW e
  PROVE  Took(e) \in QueueType
BY DEF QueueType, Took, Current

\* The bond operations, the radio arms and the program counter stay well typed.
LEMMA BondOps ==
  ASSUME NEW b \in BondType
  PROVE  /\ CommitRam(b) \in BondType
         /\ ArmPersist(b) \in BondType
         /\ ClearBond(b) \in BondType
BY DEF BondType, CommitRam, ArmPersist, MustPersist, ClearBond

\* Every arm of the radio, and its shutting, is a radio state.
LEMMA RadioOps ==
  ASSUME radio \in RadioType
  PROVE  /\ \A aa \in Addresses, ok \in BOOLEAN : Listen(aa, ok) \in RadioType
         /\ \A aa \in Addresses, ok \in BOOLEAN : Transmit(aa, ok) \in RadioType
         /\ \A ok \in BOOLEAN : Listening(ok) \in RadioType
         /\ Shut \in RadioType
         /\ radio.aa \in Addresses
         /\ "session" \in Addresses /\ "pair" \in Addresses
BY DEF RadioType, Listen, Transmit, Listening, Shut, Addresses

\* Starting a handler, going on with it and leaving it are points of it.
LEMMA PcOps ==
  ASSUME pc \in PcType
  PROVE  /\ Idle \in PcType
         /\ \A p \in Points : Goto(p) \in PcType /\ GoOn(p) \in PcType
BY DEF PcType, Idle, Goto, GoOn, Points, Confirms, Peers

\* A fault is spent only while the budget lasts.
LEMMA FaultOps ==
  ASSUME faults \in 0 .. MaxFaults
  PROVE  /\ \A ok \in Outcomes : ok \in BOOLEAN
         /\ \A ok \in Outcomes : \A ok2 \in Then(ok) : ok2 \in BOOLEAN
         /\ \A ok \in Outcomes : Spend(ok) => faults' \in 0 .. MaxFaults
         /\ \A ok \in Outcomes : \A ok2 \in Then(ok) :
              SpendBoth(ok, ok2) => faults' \in 0 .. MaxFaults
<1>1. \A n : OutcomesAt(n) \in SUBSET BOOLEAN
  BY DEF OutcomesAt
<1>2. \A n \in 0 .. MaxFaults : \A ok \in OutcomesAt(n) :
        n + Cost(ok) \in 0 .. MaxFaults
  <2> SUFFICES ASSUME NEW n \in 0 .. MaxFaults, NEW ok \in OutcomesAt(n)
               PROVE  n + Cost(ok) \in 0 .. MaxFaults
    OBVIOUS
  <2>1. n = MaxFaults => ok = TRUE
    <3>1. n = MaxFaults => ~(n < MaxFaults)
      BY BoundsAssumption
    <3> QED BY <3>1, Zenon DEF OutcomesAt
  <2>2. Cost(ok) \in 0 .. 1 /\ (ok = TRUE => Cost(ok) = 0)
    BY DEF Cost
  <2> QED BY <2>1, <2>2, BoundsAssumption
<1>3. \A ok \in Outcomes : faults + Cost(ok) \in 0 .. MaxFaults
  BY <1>2 DEF Outcomes
<1>4. \A ok \in Outcomes : \A ok2 \in Then(ok) :
        faults + Cost(ok) + Cost(ok2) \in 0 .. MaxFaults
  BY <1>2, <1>3 DEF Then
<1> QED BY <1>1, <1>3, <1>4 DEF Outcomes, Then, Spend, SpendBoth

-----------------------------------------------------------------------------
(* Type correctness *)

\* The boot states are well typed, for whatever record the DataFlash holds.
LEMMA BootTyped ==
  ASSUME NEW r \in Peers
  PROVE  /\ BootLink \in LinkType
         /\ BootBond(r) \in BondType
         /\ BootQueue \in QueueType
         /\ BootRadio(r) \in RadioType
         /\ Idle \in PcType
         /\ {r} \ {NoPeer} \in SUBSET Keyboards
<1>1. BootLink \in LinkType
  <2>1. 0 \in 0 .. BootSteps - 1 /\ 0 \in 0 .. 1
    BY BoundsAssumption
  <2> QED BY <2>1 DEF BootLink, LinkType, Confirms
<1>2. BootBond(r) \in BondType
  BY DEF BootBond, BondType, Peers
<1>3. BootQueue \in QueueType
  BY EventNames DEF BootQueue, QueueType, Grids
<1>4. BootRadio(r) \in RadioType
  BY DEF BootRadio, RadioType, Addresses
<1>5. Idle \in PcType
  BY DEF Idle, PcType, Points, Confirms, Peers
<1>6. {r} \ {NoPeer} \in SUBSET Keyboards
  BY DEF Peers
<1> QED BY <1>1, <1>2, <1>3, <1>4, <1>5, <1>6

\* A boot is well typed (RF_TaskInit).
LEMMA InitTyped == Init => TypeOK
<1> SUFFICES ASSUME Init PROVE TypeOK
  OBVIOUS
<1>1. nv \in Peers /\ 0 \in 0 .. MaxFaults
  BY BoundsAssumption DEF Init
<1> QED BY <1>1, BootTyped DEF Init, TypeOK

\* The foreground half of the persist task, and the QUIESCE handler
LEMMA PersistTyped ==
  ASSUME TypeOK,
         \/ PersistSnapshot \/ PersistAlready \/ PersistErase
         \/ PersistWrite \/ PersistReadback \/ Quiesce
  PROVE  TypeOK'
<1> USE DEF TypeOK
<1>a. \A s \in QueueType, r \in RadioType :
        PersistReturn(s, r) => q' \in QueueType /\ radio' \in RadioType /\ pc' \in PcType
  <2>1. QuiesceTail => q' \in QueueType /\ radio' \in RadioType
    BY RadioOps DEF QuiesceTail, QueueType, Grids
  <2> QED BY <2>1, QueueOps, PcOps DEF PersistReturn
<1>1. CASE PersistSnapshot
  <2>1. q' \in QueueType
    BY <1>1, TookType, QueueOps DEF PersistSnapshot
  <2>2. bond' \in BondType /\ bond.rec \in Peers
    BY <1>1 DEF PersistSnapshot, BondType
  <2>3. pc' \in PcType
    BY <1>1, <2>2 DEF PersistSnapshot, PcType, Goto, Points
  <2> QED BY <1>1, <2>1, <2>2, <2>3 DEF PersistSnapshot
<1>2. CASE PersistAlready
  <2>1. bond' \in BondType
    BY <1>2 DEF PersistAlready, BondType
  <2> QED BY <1>2, <1>a, <2>1 DEF PersistAlready
<1>3. CASE PersistErase
  <2>1. link' \in LinkType
    BY <1>3 DEF PersistErase, LinkType
  <2>2. q' \in QueueType
    BY <1>3, QueueOps DEF PersistErase
  <2>3. radio' \in RadioType
    BY <1>3, RadioOps DEF PersistErase
  <2>4. pc' \in PcType
    BY <1>3 DEF PersistErase, PcType, Goto, Points
  <2>5. nv' \in Peers
    BY <1>3 DEF PersistErase, Peers
  <2> QED BY <1>3, <2>1, <2>2, <2>3, <2>4, <2>5 DEF PersistErase
<1>4. CASE PersistWrite
  <2>1. pc' \in PcType
    BY <1>4, PcOps DEF PersistWrite, Points
  <2>2. nv' \in Peers
    BY <1>4 DEF PersistWrite, Peers, PcType
  <2>3. link' \in LinkType
    <3>1. [link EXCEPT !.recent = @ \/ ~Tmos] \in LinkType
      BY DEF LinkType
    <3>2. [link EXCEPT !.ev10 = FALSE, !.state = "pairing"] \in LinkType
      BY DEF LinkType
    <3> QED BY <1>4, <3>1, <3>2, LinkOps DEF PersistWrite
  <2>4. q' \in QueueType
    BY <1>4, QueueMacros DEF PersistWrite
  <2>5. radio' \in RadioType
    BY <1>4, RadioOps, FaultOps DEF PersistWrite
  <2>6. faults' \in 0 .. MaxFaults
    BY <1>4, FaultOps DEF PersistWrite
  <2> QED BY <1>4, <2>1, <2>2, <2>3, <2>4, <2>5, <2>6 DEF PersistWrite
<1>5. CASE PersistReadback
  <2>1. bond' \in BondType
    BY <1>5 DEF PersistReadback, BondType
  <2> QED BY <1>5, <1>a, <2>1 DEF PersistReadback
<1>6. CASE Quiesce
  <2>1. bond' \in BondType /\ bond.rec \in Peers
    BY <1>6 DEF Quiesce, BondType
  <2>2. quiesced' \in BOOLEAN
    BY <1>6 DEF Quiesce
  <2>3. q' \in QueueType
    BY <1>6, TookType DEF Quiesce, QuiesceTail, QueueType, Grids
  <2>4. radio' \in RadioType
    BY <1>6, RadioOps DEF Quiesce, QuiesceTail
  <2>5. pc' \in PcType
    BY <1>6, <2>1 DEF Quiesce, PcType, Goto, Points
  <2> QED BY <1>6, <2>1, <2>2, <2>3, <2>4, <2>5 DEF Quiesce
<1> QED BY <1>1, <1>2, <1>3, <1>4, <1>5, <1>6

\* START, the camp watchdog, the boot window, the confirm deadline
LEMMA WindowTyped ==
  ASSUME TypeOK,
         \/ Start \/ CampTick \/ BootWindowStep
         \/ BootWindowListen \/ ConfirmClaim \/ ConfirmAct
  PROVE  TypeOK'
<1> USE DEF TypeOK
<1>a. "RESTART" \in Events /\ "BOOT" \in OneShots /\ "EV10" \in OneShots
  BY EventNames DEF OneShots
<1>1. CASE Start
  <2>1. link' \in LinkType
    <3>1. [link EXCEPT !.confirm = "none", !.txfail = FALSE,
                       !.state = "pairing"] \in LinkType
      BY DEF LinkType, Confirms
    <3>2. 0 \in 0 .. BootSteps - 1
      BY BoundsAssumption
    <3>3. \A l \in LinkType :
            [l EXCEPT !.boot = TRUE, !.pairWin = TRUE, !.step = 0,
                      !.wd = FALSE, !.moved = FALSE] \in LinkType
      BY <3>2 DEF LinkType
    <3> QED BY <1>1, <3>1, <3>3, LinkOps DEF Start
  <2>2. q' \in QueueType
    <3>1. \A ok : Retry(Cancel(Took("START"), {"CONFIRM"}), ok) \in QueueType
      BY TookType, QueueOps, QueueMacros
    <3> QED BY <1>1, <1>a, <3>1, QueueOps DEF Start
  <2>3. radio' \in RadioType /\ faults' \in 0 .. MaxFaults
    BY <1>1, RadioOps, FaultOps DEF Start
  <2> QED BY <1>1, <2>1, <2>2, <2>3 DEF Start
<1>2. CASE CampTick
  <2>1. link' \in LinkType
    BY <1>2 DEF CampTick, LinkType
  <2>2. q' \in QueueType
    <3>1. Took("BOOT") \in QueueType
      BY TookType
    <3>2. Return(WatchdogTimer(Took("BOOT"))) \in QueueType
      BY <3>1, QueueOps, QueueMacros
    <3>3. \A ok : Return(WatchdogTimer(
                    Retry(Cancel(Took("BOOT"), {"RESTART"}), ok))) \in QueueType
      BY <3>1, QueueOps, QueueMacros
    <3> QED BY <1>2, <3>1, <3>2, <3>3, QueueOps DEF CampTick
  <2>3. radio' \in RadioType /\ faults' \in 0 .. MaxFaults
    BY <1>2, RadioOps, FaultOps DEF CampTick
  <2> QED BY <1>2, <2>1, <2>2, <2>3 DEF CampTick
<1>3. CASE BootWindowStep
  <2>1. link' \in LinkType
    <3>1. ~LastStep(link.step + 1) => link.step + 1 \in 0 .. BootSteps - 1
      BY BoundsAssumption DEF LinkType, LastStep
    <3>2. link.step + 1 \in 0 .. BootSteps - 1
            => [link EXCEPT !.step = link.step + 1] \in LinkType
      BY DEF LinkType
    <3> QED BY <1>3, <3>1, <3>2, LinkOps DEF BootWindowStep
  <2>2. q' \in QueueType
    BY <1>3, TookType, QueueOps DEF BootWindowStep
  <2>3. pc' \in PcType
    BY <1>3, PcOps DEF BootWindowStep, Points
  <2> QED BY <1>3, <2>1, <2>2, <2>3 DEF BootWindowStep
<1>4. CASE BootWindowListen
  <2>1. link' \in LinkType
    BY <1>4, LinkOps DEF BootWindowListen
  <2>2. q' \in QueueType
    BY <1>4, <1>a, QueueOps, QueueMacros DEF BootWindowListen
  <2>3. radio' \in RadioType /\ faults' \in 0 .. MaxFaults
    BY <1>4, RadioOps, FaultOps DEF BootWindowListen
  <2> QED BY <1>4, <2>1, <2>2, <2>3, PcOps DEF BootWindowListen
<1>5. CASE ConfirmClaim
  <2>1. link' \in LinkType /\ link.confirm \in Confirms
    BY <1>5 DEF ConfirmClaim, LinkType, Confirms
  <2>2. pc' \in PcType
    BY <1>5, <2>1 DEF ConfirmClaim, PcType, Goto, Points
  <2> QED BY <1>5, <2>1, <2>2, TookType DEF ConfirmClaim
<1>6. CASE ConfirmAct
  <2>1. link' \in LinkType
    BY <1>6, LinkOps DEF ConfirmAct
  <2>2. bond' \in BondType
    <3>1. [bond EXCEPT !.persisted = FALSE] \in BondType
      BY DEF BondType
    <3> QED BY <1>6, <3>1, BondOps DEF ConfirmAct
  <2>3. q' \in QueueType
    BY <1>6, QueueOps, QueueMacros DEF ConfirmAct
  <2>4. radio' \in RadioType /\ faults' \in 0 .. MaxFaults
    BY <1>6, RadioOps, FaultOps DEF ConfirmAct
  <2> QED BY <1>6, <2>1, <2>2, <2>3, <2>4, PcOps DEF ConfirmAct
<1> QED BY <1>1, <1>2, <1>3, <1>4, <1>5, <1>6

\* RX_RESTART and the transmissions
LEMMA RadioTyped ==
  ASSUME TypeOK,
         \/ RestartFallback \/ RestartDrop \/ RestartRearm \/ RestartFinish
         \/ PostPollRx \/ PairPrep \/ SendPairAck \/ SendPoll
         \/ TxPair15 \/ TxPair15B
  PROVE  TypeOK'
<1> USE DEF TypeOK
<1>a. \A e : Took(e) \in QueueType /\ Return(Took(e)) \in QueueType
  BY TookType, QueueOps
<1>b. "PREP" \in Events /\ "ACK" \in Grids
  BY EventNames DEF Grids
<1>1. CASE RestartFallback
  <2>1. link' \in LinkType /\ q' \in QueueType
    BY <1>1, <1>a, LinkOps, QueueOps, QueueMacros DEF RestartFallback
  <2>2. radio' \in RadioType /\ faults' \in 0 .. MaxFaults
    BY <1>1, RadioOps, FaultOps DEF RestartFallback
  <2> QED BY <1>1, <2>1, <2>2 DEF RestartFallback
<1>2. CASE RestartDrop
  BY <1>2, <1>a DEF RestartDrop
<1>3. CASE RestartRearm
  <2>1. radio' \in RadioType /\ faults' \in 0 .. MaxFaults
    BY <1>3, RadioOps, FaultOps DEF RestartRearm
  <2>2. link.confirm \in Confirms
    BY DEF LinkType
  <2>3. pc' \in PcType
    BY <1>3, <2>2 DEF RestartRearm, PcType, Goto, Points
  <2> QED BY <1>3, <1>a, <2>1, <2>3 DEF RestartRearm
<1>4. CASE RestartFinish
  <2> DEFINE s0 == Retry(q, ~radio.failed)
             s1 == IF Unwatched(link) THEN WatchdogTimer(s0) ELSE s0
             l1 == IF Unwatched(link) THEN WatchdogOn(link) ELSE link
  <2>1. s0 \in QueueType /\ s1 \in QueueType
    BY QueueMacros
  <2>2. l1 \in LinkType
    BY LinkOps
  <2>3. \A l \in LinkType : [l EXCEPT !.confirm = "none"] \in LinkType
    BY DEF LinkType, Confirms
  <2>4. Return(Supervise(ArmPersistQ(bond, Cancel(s1, {"CONFIRM"})))) \in QueueType
    BY <2>1, QueueOps, QueueMacros
  <2>5. Return(s1) \in QueueType
    BY <2>1, QueueOps
  <2>6. link' = l1 \/ link' = [l1 EXCEPT !.confirm = "none"]
    BY <1>4 DEF RestartFinish, Decided
  <2>7. q' = Return(s1)
          \/ q' = Return(Supervise(ArmPersistQ(bond, Cancel(s1, {"CONFIRM"}))))
    BY <1>4 DEF RestartFinish, Decided
  <2>8. bond' \in BondType
    BY <1>4, BondOps DEF RestartFinish, Decided
  <2> HIDE DEF s0, s1, l1
  <2>9. link' \in LinkType /\ q' \in QueueType
    BY <2>2, <2>3, <2>4, <2>5, <2>6, <2>7
  <2> QED BY <1>4, <2>8, <2>9, PcOps DEF RestartFinish, Decided
<1>5. CASE PostPollRx
  <2>1. radio' \in RadioType /\ faults' \in 0 .. MaxFaults
    BY <1>5, RadioOps, FaultOps DEF PostPollRx
  <2> QED BY <1>5, <1>a, <2>1 DEF PostPollRx
<1>6. CASE PairPrep
  <2>1. radio' \in RadioType /\ faults' \in 0 .. MaxFaults
    BY <1>6, RadioOps, FaultOps DEF PairPrep
  <2>2. q' \in QueueType
    BY <1>6, <1>a, <1>b, QueueOps DEF PairPrep
  <2> QED BY <1>6, <2>1, <2>2 DEF PairPrep
<1>7. CASE SendPairAck
  <2>1. radio' \in RadioType /\ faults' \in 0 .. MaxFaults
    BY <1>7, RadioOps, FaultOps DEF SendPairAck
  <2>2. q' \in QueueType
    BY <1>7, <1>a, <1>b, QueueOps DEF SendPairAck
  <2> QED BY <1>7, <2>1, <2>2 DEF SendPairAck
<1>8. CASE SendPoll
  <2>1. radio' \in RadioType /\ faults' \in 0 .. MaxFaults
    BY <1>8, RadioOps, FaultOps DEF SendPoll
  <2> QED BY <1>8, <1>a, <2>1 DEF SendPoll
<1>9. ASSUME NEW e, NEW aa \in Addresses, TxPair(e, aa)
      PROVE  /\ link' \in LinkType /\ q' \in QueueType
             /\ radio' \in RadioType /\ faults' \in 0 .. MaxFaults
  <2>1. PICK ok \in Outcomes : TxPair(e, aa)!(ok)
    BY <1>9 DEF TxPair
  <2>2. CASE ok
    BY <2>1, <2>2, <1>a, RadioOps
  <2>3. CASE ~ok
    <3>1. link' = FreshPair(link) /\ q' = Return(FreshPairQ(Took(e)))
      BY <2>1, <2>3
    <3>2. PICK ok2 \in Then(ok) : radio' = Listen("session", ok2) /\ SpendBoth(ok, ok2)
      BY <2>1, <2>3
    <3> QED BY <3>1, <3>2, <1>a, LinkOps, QueueOps, QueueMacros, RadioOps, FaultOps
  <2> QED BY <2>2, <2>3
<1>10. CASE TxPair15
  BY <1>10, <1>9, RadioOps DEF TxPair15
<1>11. CASE TxPair15B
  BY <1>11, <1>9, <1>a, RadioOps DEF TxPair15B
<1> QED BY <1>1, <1>2, <1>3, <1>4, <1>5, <1>6, <1>7, <1>8, <1>10, <1>11

\* RF_EVT_TIMEOUT: supervision, re-acquire and give-up
LEMMA TimeoutTyped ==
  ASSUME TypeOK,
         \/ TimeoutAlive \/ ReacquireFresh \/ ReacquireKeysUp
         \/ ReacquireTeardown \/ ReacquireScan
         \/ GiveupStart \/ GiveupTeardown \/ GiveupClaim \/ GiveupCamp
  PROVE  TypeOK'
<1> USE DEF TypeOK
<1>a. \A e : Took(e) \in QueueType /\ Return(Took(e)) \in QueueType
  BY TookType, QueueOps
<1>b. /\ "PREP" \in Events /\ "POLL" \in Grids /\ "EV10" \in OneShots
      /\ OneShots \in SUBSET OneShots
  BY EventNames DEF Grids, OneShots
<1>1. CASE TimeoutAlive
  BY <1>1, <1>a, QueueOps, QueueMacros DEF TimeoutAlive
<1>2. CASE ReacquireFresh
  <2>1. link' \in LinkType /\ q' \in QueueType
    BY <1>2, <1>a, LinkOps, QueueOps, QueueMacros DEF ReacquireFresh
  <2>2. radio' \in RadioType /\ faults' \in 0 .. MaxFaults
    BY <1>2, RadioOps, FaultOps DEF ReacquireFresh
  <2> QED BY <1>2, <2>1, <2>2 DEF ReacquireFresh, Lapsed
<1>3. CASE ReacquireKeysUp
  <2>1. link' \in LinkType
    BY <1>3 DEF ReacquireKeysUp, LinkType
  <2> QED BY <1>3, <1>a, <2>1, PcOps DEF ReacquireKeysUp, Points
<1>4. CASE ReacquireTeardown
  <2>1. CloseWindow(AbortBurst(link)) \in LinkType
    BY LinkOps
  <2>2. \A l \in LinkType : [l EXCEPT !.state = "idle"] \in LinkType
    BY DEF LinkType
  <2>3. q' \in QueueType
    BY <1>4, <1>b, QueueOps, QueueMacros DEF ReacquireTeardown
  <2> QED BY <1>4, <2>1, <2>2, <2>3, PcOps DEF ReacquireTeardown, Points
<1>5. CASE ReacquireScan
  <2>1. link' \in LinkType
    BY <1>5 DEF ReacquireScan, LinkType
  <2>2. q' \in QueueType
    BY <1>5, <1>b, QueueOps DEF ReacquireScan
  <2>3. radio' \in RadioType
    BY <1>5 DEF ReacquireScan, RadioType, Shut, Addresses
  <2> QED BY <1>5, <2>1, <2>2, <2>3, PcOps DEF ReacquireScan
<1>6. CASE GiveupStart
  <2>1. \A l \in LinkType : [l EXCEPT !.ev10 = FALSE, !.recent = FALSE] \in LinkType
    BY DEF LinkType
  <2> QED BY <1>6, <1>a, <2>1, LinkOps, PcOps DEF GiveupStart, Points
<1>7. CASE GiveupTeardown
  <2>1. \A l \in LinkType : [l EXCEPT !.wd = FALSE, !.moved = FALSE] \in LinkType
    BY DEF LinkType
  <2>2. q' \in QueueType
    BY <1>7, <1>b, QueueOps, QueueMacros DEF GiveupTeardown
  <2> QED BY <1>7, <2>1, <2>2, LinkOps, PcOps DEF GiveupTeardown, Points
<1>8. CASE GiveupClaim
  <2>1. link' \in LinkType /\ link.confirm \in Confirms
    BY <1>8 DEF GiveupClaim, LinkType, Confirms
  <2>2. pc' \in PcType
    BY <1>8, <2>1 DEF GiveupClaim, PcType, GoOn, Points
  <2> QED BY <1>8, <2>1, <2>2 DEF GiveupClaim
<1>9. CASE GiveupCamp
  <2>1. link' \in LinkType
    <3>1. [link EXCEPT !.state = "pairing"] \in LinkType
      BY DEF LinkType
    <3> QED BY <1>9, <3>1, LinkOps DEF GiveupCamp
  <2>2. q' \in QueueType
    BY <1>9, QueueOps, QueueMacros DEF GiveupCamp
  <2>3. bond' \in BondType
    BY <1>9, BondOps DEF GiveupCamp
  <2>4. radio' \in RadioType /\ faults' \in 0 .. MaxFaults
    BY <1>9, RadioOps, FaultOps DEF GiveupCamp
  <2> QED BY <1>9, <2>1, <2>2, <2>3, <2>4, PcOps DEF GiveupCamp
<1> QED BY <1>1, <1>2, <1>3, <1>4, <1>5, <1>6, <1>7, <1>8, <1>9

\* The receive half of the radio sink
LEMMA ReceivesTyped ==
  ASSUME TypeOK, Receives
  PROVE  TypeOK'
<1> USE DEF TypeOK
<1>a. Preempts => pc' \in PcType
  BY DEF Preempts, PcType
<1>b. [link EXCEPT !.moved = link.wd] \in LinkType
  BY DEF LinkType
<1>c. /\ "RESTART" \in Events /\ "TX15" \in Events /\ "ACK" \in Grids
      /\ "EV10" \in OneShots /\ {"BOOT"} \in SUBSET OneShots
  BY EventNames DEF Grids, OneShots
<1>1. CASE RxNoise
  BY <1>1, <1>a, <1>b, <1>c, QueueOps, RadioOps DEF RxNoise, Received
<1>2. CASE RxScanNoise
  <2>1. radio' \in RadioType /\ faults' \in 0 .. MaxFaults
    BY <1>2, RadioOps, FaultOps DEF RxScanNoise
  <2> QED BY <1>2, <1>a, <1>b, <2>1 DEF RxScanNoise, Received
<1>3. CASE RxPairAccept
  <2>1. \A k \in Keyboards :
          [bond EXCEPT !.peer = k, !.persisted = KnownDurable(k)] \in BondType
    BY DEF BondType, KnownDurable, Peers
  <2>2. \A new \in BOOLEAN, l \in LinkType :
          [l EXCEPT !.fresh = new, !.wd = FALSE, !.moved = FALSE,
                    !.burst = TRUE, !.idx = 0] \in LinkType
    <3>1. 0 \in 0 .. 1
      OBVIOUS
    <3> QED BY <3>1 DEF LinkType
  <2>3. bond' \in BondType /\ link' \in LinkType
    <3>1. CloseWindow(link) \in LinkType
      BY LinkOps
    <3>2. PICK k \in Keyboards :
            /\ bond' = [bond EXCEPT !.peer = k, !.persisted = KnownDurable(k)]
            /\ link' = [CloseWindow(link) EXCEPT !.fresh = ~KnownDurable(k),
                 !.wd = FALSE, !.moved = FALSE, !.burst = TRUE, !.idx = 0]
      BY <1>3 DEF RxPairAccept
    <3>3. PICK new \in BOOLEAN : new <=> ~KnownDurable(k)
      <4>1. CASE KnownDurable(k)
        <5>1. FALSE <=> ~KnownDurable(k)
          BY <4>1
        <5> QED BY <5>1
      <4>2. CASE ~KnownDurable(k)
        <5>1. TRUE <=> ~KnownDurable(k)
          BY <4>2
        <5> QED BY <5>1
      <4> QED BY <4>1, <4>2
    <3>4. link' \in LinkType
      BY <2>2, <3>1, <3>2, <3>3
    <3> QED BY <2>1, <3>2, <3>4
  <2>4. q' \in QueueType
    BY <1>3, <1>c, QueueOps DEF RxPairAccept
  <2> QED BY <1>3, <1>a, <2>3, <2>4, RadioOps DEF RxPairAccept, Received
<1>4. CASE RxPairRekey
  <2>1. q' \in QueueType
    BY <1>4, <1>c, QueueOps DEF RxPairRekey
  <2> QED BY <1>4, <1>a, <1>b, <2>1, RadioOps DEF RxPairRekey, Received
<1>5. CASE RxConnected
  <2>1. PICK kind \in {"poll", "down", "up", "alien"} :
          /\ link' = [link EXCEPT !.recent = TRUE, !.heard = ~Tmos,
                        !.moved = link.wd,
                        !.confirm = IF @ = "waitRx" /\ ConfirmsPair(kind)
                                      THEN "waitRearm" ELSE @]
          /\ hostKey' = CASE kind = "down" -> TRUE
                          [] kind = "up"   -> FALSE
                          [] OTHER         -> hostKey
          /\ proven' = IF kind = "alien" THEN proven
                       ELSE proven \cup ({bond.peer} \ {NoPeer})
    BY <1>5 DEF RxConnected
  <2>2. link' \in LinkType
    BY <2>1 DEF LinkType, Confirms
  <2>3. hostKey' \in BOOLEAN
    BY <2>1
  <2>4. proven' \in SUBSET Keyboards
    BY <2>1 DEF BondType, Peers
  <2>5. q' \in QueueType
    BY <1>5, <1>c, QueueOps DEF RxConnected
  <2> QED BY <1>5, <1>a, <2>2, <2>3, <2>4, <2>5, RadioOps DEF RxConnected, Received
<1> QED BY <1>1, <1>2, <1>3, <1>4, <1>5 DEF Receives

\* The transmit half of the radio sink
LEMMA SendsTyped ==
  ASSUME TypeOK, Sends
  PROVE  TypeOK'
<1> USE DEF TypeOK
<1>a. Sent => pc' \in PcType
  BY DEF Sent, Preempts, PcType
<1>c. /\ "RESTART" \in Events /\ "TX15B" \in Events /\ "CONFIRM" \in Events
      /\ "POST_RX" \in Events /\ "PREP" \in Events
      /\ "ACK" \in Grids /\ "POLL" \in Grids
      /\ {"EV10"} \in SUBSET OneShots
  BY EventNames DEF Grids, OneShots
<1>1. CASE TxDoneBurst
  <2>1. link' \in LinkType
    <3>1. 1 \in 0 .. 1
      OBVIOUS
    <3> QED BY <1>1, <3>1 DEF TxDoneBurst, LinkType
  <2> QED BY <1>1, <1>a, <1>c, <2>1, QueueOps, RadioOps DEF TxDoneBurst
<1>2. CASE TxDoneTombstone
  <2>1. link' \in LinkType
    <3>1. \A l \in LinkType : [l EXCEPT !.confirm = "none"] \in LinkType
      BY DEF LinkType, Confirms
    <3>2. [link EXCEPT !.ev10 = FALSE, !.confirm = "none"] \in LinkType
      BY DEF LinkType, Confirms
    <3> QED BY <1>2, <3>1, <3>2, LinkOps DEF TxDoneTombstone
  <2>2. q' \in QueueType
    <3>1. Disarm(GridStop(q, "ACK"), {"EV10"}) \in QueueType
      BY <1>c, QueueOps
    <3>2. Cancel(Disarm(GridStop(q, "ACK"), {"EV10"}),
                 {"PREP", "ACK", "CONFIRM"}) \in QueueType
      BY <3>1, QueueOps
    <3>3. Cancel(q, {"CONFIRM"}) \in QueueType
      BY QueueOps
    <3> QED BY <1>2, <1>c, <3>2, <3>3, QueueOps DEF TxDoneTombstone
  <2> QED BY <1>2, <1>a, <2>1, <2>2, RadioOps DEF TxDoneTombstone
<1>3. CASE TxDonePromote
  <2>1. link' \in LinkType
    <3>1. \A l \in LinkType, c \in Confirms :
            [l EXCEPT !.ev10 = FALSE, !.recent = TRUE, !.state = "connected",
                      !.confirm = c] \in LinkType
      BY DEF LinkType
    <3>2. (IF link.fresh THEN "waitRx" ELSE "none") \in Confirms
      BY DEF Confirms
    <3> QED BY <1>3, <3>1, <3>2, LinkOps DEF TxDonePromote
  <2>2. bond' \in BondType
    BY <1>3, BondOps DEF TxDonePromote
  <2>3. q' \in QueueType
    BY <1>3, <1>c, QueueOps, QueueMacros DEF TxDonePromote
  <2>4. radio' \in RadioType /\ faults' \in 0 .. MaxFaults
    BY <1>3, RadioOps, FaultOps DEF TxDonePromote
  <2> QED BY <1>3, <1>a, <2>1, <2>2, <2>3, <2>4 DEF TxDonePromote
<1>4. CASE TxDoneRekey
  <2>1. link' \in LinkType
    BY <1>4 DEF TxDoneRekey, LinkType
  <2>2. q' \in QueueType
    BY <1>4, QueueOps, QueueMacros DEF TxDoneRekey
  <2>3. radio' \in RadioType /\ faults' \in 0 .. MaxFaults
    BY <1>4, RadioOps, FaultOps DEF TxDoneRekey
  <2> QED BY <1>4, <1>a, <2>1, <2>2, <2>3 DEF TxDoneRekey
<1>5. CASE TxDonePoll
  <2>1. radio' \in RadioType /\ faults' \in 0 .. MaxFaults
    BY <1>5, RadioOps, FaultOps DEF TxDonePoll
  <2> QED BY <1>5, <1>a, <1>c, <2>1, QueueOps DEF TxDonePoll
<1>6. CASE TxDoneStray
  BY <1>6, <1>a, <1>c, QueueOps, RadioOps DEF TxDoneStray
<1>7. CASE TxFail
  <2>1. link' \in LinkType
    <3>1. \A l \in LinkType, b \in BOOLEAN : [l EXCEPT !.txfail = b] \in LinkType
      BY DEF LinkType
    <3>2. \A b \in BOOLEAN : (AbortBurst(link).txfail \/ b) \in BOOLEAN
      OBVIOUS
    <3> QED BY <1>7, <3>1, <3>2, LinkOps DEF TxFail
  <2>2. q' \in QueueType
    BY <1>7, <1>c, QueueOps, QueueMacros DEF TxFail
  <2>3. faults' \in 0 .. MaxFaults
    BY <1>7, BoundsAssumption DEF TxFail
  <2> QED BY <1>7, <1>a, <2>1, <2>2, <2>3, RadioOps DEF TxFail
<1> QED BY <1>1, <1>2, <1>3, <1>4, <1>5, <1>6, <1>7 DEF Sends

\* Timers, the main loop's calls and the environment
LEMMA RestTyped ==
  ASSUME TypeOK,
         Timers \/ Calls \/ TombstoneBond \/ Ages \/ CompletionLost \/ Reset
  PROVE  TypeOK'
<1> USE DEF TypeOK
<1>c. /\ "ACK" \in Events /\ "POLL" \in Events /\ "QUIESCE" \in Events
      /\ "halted" \in Grids
  BY EventNames DEF Grids
<1>1. CASE GridPosts
  BY <1>1, <1>c, QueueOps DEF GridPosts
<1>2. CASE GridSends
  <2>1. radio' \in RadioType /\ faults' \in 0 .. MaxFaults
    BY <1>2, RadioOps, FaultOps DEF GridSends
  <2> QED BY <1>2, <2>1 DEF GridSends
<1>3. ASSUME NEW t \in OneShots, OneShotFires(t) PROVE TypeOK'
  <2>1. [q EXCEPT !.timers = @ \ {t}] \in QueueType
    BY DEF QueueType
  <2> QED BY <1>3, <2>1, ExpiryEvent, QueueOps DEF OneShotFires, Expires
<1>4. ASSUME NEW e \in Events, DelayFires(e) PROVE TypeOK'
  <2>1. [q EXCEPT !.delayed = @ \ {e}] \in QueueType
    BY DEF QueueType
  <2> QED BY <1>4, <2>1, QueueOps DEF DelayFires, Expires
<1>5. CASE BondErase
  BY <1>5, PcOps DEF BondErase, Points, Peers
<1>6. CASE TombstoneBond
  BY <1>6, BondOps, QueueOps, PcOps DEF TombstoneBond
<1>7. CASE QuiesceRequest
  BY <1>7, <1>c, QueueOps DEF QuiesceRequest
<1>8. CASE DiagIntervene
  <2>1. link' \in LinkType
    BY <1>8 DEF DiagIntervene, LinkType
  <2>2. q' \in QueueType
    <3>1. Cancel(q, {"RESTART"}) \in QueueType
      BY QueueOps
    <3>2. \/ q' = Cancel(q, {"RESTART"})
          \/ \E ok : q' = Retry(Cancel(q, {"RESTART"}), ok)
      BY <1>8 DEF DiagIntervene
    <3>3. \A ok : Retry(Cancel(q, {"RESTART"}), ok) \in QueueType
      BY <3>1, QueueMacros
    <3> QED BY <3>1, <3>2, <3>3
  <2>3. radio' \in RadioType
    BY <1>8, RadioOps, FaultOps DEF DiagIntervene
  <2>4. faults' \in 0 .. MaxFaults
    BY <1>8, FaultOps, BoundsAssumption DEF DiagIntervene
  <2> QED BY <1>8, <2>1, <2>2, <2>3, <2>4 DEF DiagIntervene
<1>9. CASE Ages
  <2>1. link' \in LinkType
    BY <1>9 DEF Ages, LinkType
  <2> QED BY <1>9, <2>1 DEF Ages
<1>10. CASE CompletionLost
  <2>1. faults' \in 0 .. MaxFaults
    BY <1>10, BoundsAssumption DEF CompletionLost
  <2> QED BY <1>10, <2>1, RadioOps DEF CompletionLost
<1>11. CASE Reset
  BY <1>11, BootTyped DEF Reset
<1> QED BY <1>1, <1>2, <1>3, <1>4, <1>5, <1>6, <1>7, <1>8, <1>9, <1>10, <1>11
        DEF Timers, Calls

\* No step of the task, of an interrupt, of the host or of the environment
\* takes a variable out of its type.
LEMMA NextTyped == TypeOK /\ [Next]_vars => TypeOK'
<1> SUFFICES ASSUME TypeOK, [Next]_vars PROVE TypeOK'
  OBVIOUS
<1>1. CASE Next
  BY <1>1, PersistTyped, WindowTyped, RadioTyped, TimeoutTyped, ReceivesTyped,
     SendsTyped, RestTyped DEF Next, Handlers, Continues
<1>2. CASE UNCHANGED vars
  BY <1>2 DEF vars, TypeOK
<1> QED BY <1>1, <1>2

\* Every variable of the link task keeps its type, in particular the boot
\* window's step stays below RF_BOOT_WINDOW_STEPS (rf_task.c RF_ProcessEvent).
THEOREM TypeCorrect == Spec => []TypeOK
<1> QED BY InitTyped, NextTyped, PTL DEF Spec
=============================================================================
