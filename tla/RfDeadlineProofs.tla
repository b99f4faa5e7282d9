-------------------------- MODULE RfDeadlineProofs --------------------------
(***************************************************************************)
(* Every wait of the link task ends: DeadlineInvariant (RfLink) is         *)
(* inductive on both executors, whatever the radio refuses or loses.  What *)
(* more holds on one of them: the polls of CH570, the keys and the         *)
(* pair-ACK burst of CH59x.                                                *)
(***************************************************************************)
EXTENDS RfBondProofs

-----------------------------------------------------------------------------
(* What is owed *)

\* The names the proofs meet
LEMMA Names ==
  /\ Events = {"PERSIST", "QUIESCE", "START", "BOOT", "CONFIRM", "RESTART",
               "POST_RX", "PREP", "ACK", "POLL", "TX15", "TX15B", "TIMEOUT"}
  /\ OneShots = {"EV10", "BOOT"}
  /\ Expiry["EV10"] = "TIMEOUT" /\ Expiry["BOOT"] = "BOOT"
  /\ {Expiry[t] : t \in {"EV10"}} = {"TIMEOUT"}
  /\ {Expiry[t] : t \in {"BOOT"}} = {"BOOT"}
  /\ {Expiry[t] : t \in OneShots} = {"TIMEOUT", "BOOT"}
BY EventNames DEF OneShots, Expiry

\* No operation on the queue forgets what it does not name.
LEMMA OwesKept ==
  ASSUME NEW s \in QueueType, NEW e \in Events, Owes(s, e)
  PROVE  /\ \A x \in Events : Owes(Post(s, x), e) /\ Owes(PostDelayed(s, x), e)
         /\ \A E : e \notin E => Owes(Cancel(s, E), e)
         /\ \A t \in OneShots : Owes(Arm(s, t), e)
         /\ e # "TIMEOUT" => Owes(Disarm(s, {"EV10"}), e)
         /\ e # "BOOT" => Owes(Disarm(s, {"BOOT"}), e)
         /\ e \notin {"TIMEOUT", "BOOT"} => Owes(Disarm(s, OneShots), e)
         /\ \A g \in Grids : Owes(GridStart(s, g), e) /\ Owes(GridStop(s, g), e)
         /\ Owes(GridStopAll(s), e)
         /\ Owes(Return(s), e)
<1> USE DEF Owes, QueueType
<1>1. \A x \in Events : Owes(Post(s, x), e)
  BY DEF Post
<1>2. \A x \in Events : Owes(PostDelayed(s, x), e)
  BY <1>1 DEF PostDelayed
<1>3. \A E : e \notin E => Owes(Cancel(s, E), e)
  BY DEF Cancel
<1>4. \A t \in OneShots : Owes(Arm(s, t), e)
  BY DEF Arm
<1>5. e # "TIMEOUT" => Owes(Disarm(s, {"EV10"}), e)
  BY Names DEF Disarm
<1>6. e # "BOOT" => Owes(Disarm(s, {"BOOT"}), e)
  BY Names DEF Disarm
<1>7. e \notin {"TIMEOUT", "BOOT"} => Owes(Disarm(s, OneShots), e)
  BY Names DEF Disarm
<1>8. \A g \in Grids : Owes(GridStart(s, g), e) /\ Owes(GridStop(s, g), e)
  BY DEF GridStart, GridStop
<1>9. Owes(GridStopAll(s), e) /\ Owes(Return(s), e)
  BY DEF GridStopAll, Return
<1> QED BY <1>1, <1>2, <1>3, <1>4, <1>5, <1>6, <1>7, <1>8, <1>9

\* What is posted or armed is owed.
LEMMA OwesNew ==
  ASSUME NEW s \in QueueType
  PROVE  /\ \A x \in Events : Owes(Post(s, x), x) /\ Owes(PostDelayed(s, x), x)
         /\ Owes(Arm(s, "EV10"), "TIMEOUT") /\ Owes(Arm(s, "BOOT"), "BOOT")
<1> USE DEF Owes, QueueType
<1>1. \A x \in Events : Owes(Post(s, x), x)
  BY DEF Post
<1>2. \A x \in Events : Owes(PostDelayed(s, x), x)
  BY <1>1 DEF PostDelayed
<1>3. Owes(Arm(s, "EV10"), "TIMEOUT") /\ Owes(Arm(s, "BOOT"), "BOOT")
  BY DEF Arm
<1> QED BY <1>1, <1>2, <1>3

\* The compound operations
LEMMA MacrosKept ==
  ASSUME NEW s \in QueueType, NEW e \in Events, Owes(s, e)
  PROVE  /\ Owes(WatchdogTimer(s), e) /\ Owes(Supervise(s), e) /\ Owes(HandGrid(s), e)
         /\ \A ok : Owes(Retry(s, ok), e)
         /\ \A b : Owes(ArmPersistQ(b, s), e)
         /\ e # "TX15B" => Owes(AbortBurstQ(s), e)
         /\ e \in {"PERSIST", "RESTART", "BOOT"} => Owes(FreshPairQ(s), e)
<1>1. /\ "EV10" \in OneShots /\ "BOOT" \in OneShots
      /\ {"EV10"} \in SUBSET OneShots /\ OneShots \in SUBSET OneShots
      /\ "RESTART" \in Events /\ "PERSIST" \in Events /\ "POLL" \in Grids
  BY Names DEF Grids
<1>2. Owes(WatchdogTimer(s), e)
  BY <1>1, OwesKept DEF WatchdogTimer
<1>3. Owes(Supervise(s), e)
  <2>1. Disarm(s, {"EV10"}) \in QueueType
    BY <1>1, QueueOps
  <2> QED BY <1>1, <2>1, OwesKept, OwesNew DEF Supervise
<1>4. Owes(HandGrid(s), e)
  BY <1>1, OwesKept DEF HandGrid
<1>5. \A ok : Owes(Retry(s, ok), e)
  BY <1>1, OwesKept DEF Retry
<1>6. \A b : Owes(ArmPersistQ(b, s), e)
  BY <1>1, OwesKept DEF ArmPersistQ
<1>7. e # "TX15B" => Owes(AbortBurstQ(s), e)
  BY OwesKept DEF AbortBurstQ
<1>8. e \in {"PERSIST", "RESTART", "BOOT"} => Owes(FreshPairQ(s), e)
  <2> SUFFICES ASSUME e \in {"PERSIST", "RESTART", "BOOT"}
               PROVE  Owes(FreshPairQ(s), e)
    OBVIOUS
  <2> DEFINE s1 == GridStopAll(s)
             s2 == Disarm(s1, {"EV10"})
             s3 == Cancel(s2, {"PREP", "ACK", "POLL", "POST_RX", "CONFIRM"})
             s4 == AbortBurstQ(s3)
  <2>1. s1 \in QueueType /\ Owes(s1, e)
    BY OwesKept, QueueOps
  <2>2. s2 \in QueueType /\ Owes(s2, e)
    BY <1>1, <2>1, OwesKept, QueueOps
  <2>3. s3 \in QueueType /\ Owes(s3, e)
    BY <2>2, OwesKept, QueueOps
  <2>4. s4 \in QueueType /\ Owes(s4, e)
    BY <2>3, OwesKept, QueueOps DEF AbortBurstQ
  <2>5. Owes(Arm(s4, "BOOT"), e)
    BY <1>1, <2>4, OwesKept
  <2> QED BY <2>5 DEF FreshPairQ
<1> QED BY <1>2, <1>3, <1>4, <1>5, <1>6, <1>7, <1>8

LEMMA MacrosNew ==
  ASSUME NEW s \in QueueType
  PROVE  /\ Owes(WatchdogTimer(s), "BOOT") /\ Owes(FreshPairQ(s), "BOOT")
         /\ Owes(Supervise(s), "TIMEOUT")
         /\ Owes(Retry(s, FALSE), "RESTART")
         /\ \A b : MustPersist(b) => Owes(ArmPersistQ(b, s), "PERSIST")
<1>1. /\ {"EV10"} \in SUBSET OneShots /\ "RESTART" \in Events /\ "PERSIST" \in Events
  BY Names
<1>2. Owes(WatchdogTimer(s), "BOOT")
  BY OwesNew DEF WatchdogTimer
<1>3. Owes(FreshPairQ(s), "BOOT")
  <2>1. AbortBurstQ(Cancel(Disarm(GridStopAll(s), {"EV10"}),
          {"PREP", "ACK", "POLL", "POST_RX", "CONFIRM"})) \in QueueType
    BY <1>1, QueueOps DEF AbortBurstQ
  <2> QED BY <2>1, OwesNew DEF FreshPairQ
<1>4. Owes(Supervise(s), "TIMEOUT")
  BY <1>1, QueueOps, OwesNew DEF Supervise
<1>5. Owes(Retry(s, FALSE), "RESTART")
  BY <1>1, OwesNew DEF Retry
<1>6. \A b : MustPersist(b) => Owes(ArmPersistQ(b, s), "PERSIST")
  BY <1>1, OwesNew DEF ArmPersistQ
<1> QED BY <1>2, <1>3, <1>4, <1>5, <1>6

\* A handler takes its own event and no other.
LEMMA TookKept ==
  ASSUME q \in QueueType, NEW x \in Events, NEW e \in Events, e # x, Owes(q, e)
  PROVE  Owes(Took(x), e)
BY DEF Took, Current, Owes, QueueType

-----------------------------------------------------------------------------
(* The step of each action *)

DInv == TypeOK /\ BondInvariant /\ DeadlineInvariant

\* What a step forgets of what is owed
Kept(E) == \A e \in Events \ E : Owes(q, e) => Owes(q', e)

\* Handlers take only their own event, and what returns is still owed.
LEMMA Taken ==
  ASSUME q \in QueueType, NEW x \in Events
  PROVE  /\ Took(x) \in QueueType
         /\ \A e \in Events \ {x} : Owes(q, e) => Owes(Took(x), e)
         /\ \A s \in QueueType, e \in Events : Owes(s, e) => Owes(Return(s), e)
BY TookType, TookKept, OwesKept

\* The fall-back to a fresh pair leaves a window with its tick, and no scan,
\* burst or confirmation that would wait for anything.
LEMMA FreshPairStep ==
  ASSUME DInv, ~quiesced', pc'.at = "idle", link' = FreshPair(link),
         NEW s \in QueueType, q' = Return(FreshPairQ(s)),
         bond'.pending => Owes(s, "PERSIST")
  PROVE  DeadlineInvariant'
<1>1. FreshPairQ(s) \in QueueType /\ "PERSIST" \in Events /\ "BOOT" \in Events
  BY QueueMacros, Names
<1>2. Owes(q', "BOOT") /\ (bond'.pending => Owes(q', "PERSIST"))
  BY <1>1, MacrosNew, MacrosKept, OwesKept
<1>3. /\ link'.boot /\ link'.state = "pairing" /\ ~link'.ev10 /\ ~link'.burst
      /\ link'.confirm = "none"
  BY DEF DInv, TypeOK, LinkType, FreshPair, ForgetAttempt, AbortBurst
<1> QED BY <1>2, <1>3 DEF DeadlineInvariant, Hushed, PendingOwed, ConfirmOwed,
          WindowShape, ScanOwed, TickOwed, CampOwed, TornDown, Terminal

\* A step that leaves the link's flags, and whatever keeps something they
\* wait for, keeps them all.
SameFlags ==
  /\ link'.state = link.state /\ link'.ev10 = link.ev10 /\ link'.boot = link.boot
  /\ link'.burst = link.burst /\ link'.confirm = link.confirm
  /\ link'.wd = link.wd
SamePoint ==
  \/ pc'.at \in {"idle", "clear"} /\ pc.at \in {"idle", "clear"}
  \/ /\ pc'.at = pc.at /\ pc'.saw = pc.saw /\ pc'.conn = pc.conn
     /\ pc.busy => pc'.busy
LEMMA FlagsStep ==
  ASSUME DInv, ~quiesced, ~quiesced', SameFlags, SamePoint,
         bond'.pending => bond.pending /\ (Owes(q, "PERSIST") => Owes(q', "PERSIST")),
         Owes(q, "CONFIRM") => Owes(q', "CONFIRM"),
         Owes(q, "BOOT") => Owes(q', "BOOT"),
         link.state = "connected" \/ link.ev10
           => (Owes(q, "TIMEOUT") => Owes(q', "TIMEOUT")),
         "diag" \notin Commands /\ Terminal(link)
           => (Owes(q, "RESTART") => Owes(q', "RESTART"))
  PROVE  DeadlineInvariant'
BY DEF DInv, DeadlineInvariant, Hushed, PendingOwed, ConfirmOwed, WindowShape,
       ScanOwed, TickOwed, CampOwed, TornDown, Terminal, SameFlags, SamePoint

\* RF_EVT_BOOT_WINDOW: the window's steps and the camp watchdog
LEMMA WindowStep ==
  ASSUME DInv, CampTick \/ BootWindowStep \/ BootWindowListen
  PROVE  DeadlineInvariant'
<1>a. q \in QueueType /\ link \in LinkType /\ pc \in PcType
  BY DEF DInv, TypeOK
<1>b. "BOOT" \in Events /\ "BOOT" \in OneShots /\ "RESTART" \in Events
  BY Names
<1>c. /\ Took("BOOT") \in QueueType
      /\ \A e \in Events \ {"BOOT"} : Owes(q, e) => Owes(Took("BOOT"), e)
  BY <1>a, <1>b, Taken
<1> USE DEF DInv, DeadlineInvariant, Hushed, PendingOwed, ConfirmOwed,
            WindowShape, ScanOwed, TickOwed, CampOwed, TornDown, Terminal
<1>1. CASE CampTick
  <2>1. CASE ~link.wd \/ ~Terminal(link)
    <3>1. Kept({"BOOT"})
      BY <1>1, <1>c, <2>1, OwesKept DEF CampTick, Kept
    <3>2. /\ link'.state = link.state /\ link'.ev10 = link.ev10 /\ link'.boot = link.boot
          /\ link'.burst = link.burst /\ link'.confirm = link.confirm /\ ~link'.wd
          /\ UNCHANGED <<bond, pc, quiesced>>
      BY <1>1, <1>a, <2>1 DEF CampTick, LinkType
    <3>3. pc.at = "idle" /\ ~quiesced /\ ~link.boot
      BY <1>1 DEF CampTick, Turn
    <3> QED BY <2>1, <3>1, <3>2, <3>3, Names DEF Kept
  <2>2. CASE link.wd /\ Terminal(link) /\ ~SilentTick(link)
    <3>1. WatchdogTimer(Took("BOOT")) \in QueueType
      BY <1>c, QueueMacros
    <3>2. q' = Return(WatchdogTimer(Took("BOOT"))) /\ UNCHANGED <<bond, pc, quiesced>>
      BY <1>1, <2>2 DEF CampTick
    <3>3. \A e \in Events \ {"BOOT"} : Owes(q, e) => Owes(WatchdogTimer(Took("BOOT")), e)
      BY <1>c, MacrosKept
    <3>4. Owes(WatchdogTimer(Took("BOOT")), "BOOT")
      BY <1>c, MacrosNew
    <3>5. Kept({"BOOT"}) /\ Owes(q', "BOOT")
      BY <1>b, <3>1, <3>2, <3>3, <3>4, OwesKept DEF Kept
    <3>6. /\ link'.state = link.state /\ link'.ev10 = link.ev10 /\ link'.boot = link.boot
          /\ link'.burst = link.burst /\ link'.confirm = link.confirm /\ link'.wd = link.wd
      BY <1>1, <1>a, <2>2 DEF CampTick, LinkType
    <3>7. pc.at = "idle" /\ ~quiesced
      BY <1>1 DEF CampTick, Turn
    <3> QED BY <2>2, <3>2, <3>5, <3>6, <3>7, Names DEF Kept
  <2>3. CASE link.wd /\ Terminal(link) /\ SilentTick(link)
    <3>1. PICK ok \in Outcomes :
            q' = Return(WatchdogTimer(Retry(Cancel(Took("BOOT"), {"RESTART"}), ok)))
      BY <1>1, <2>3 DEF CampTick
    <3> DEFINE s1 == Cancel(Took("BOOT"), {"RESTART"})
               s2 == Retry(s1, ok)
               s3 == WatchdogTimer(s2)
    <3>2. s1 \in QueueType /\ s2 \in QueueType /\ s3 \in QueueType
      BY <1>c, QueueOps, QueueMacros
    <3>3. \A e \in Events \ {"BOOT", "RESTART"} : Owes(q, e) => Owes(s1, e)
      BY <1>c, OwesKept
    <3>4. \A e \in Events : Owes(s1, e) => Owes(Return(s3), e)
      BY <3>2, MacrosKept, OwesKept
    <3>5. Owes(Return(s3), "BOOT")
      BY <1>b, <3>2, MacrosNew, OwesKept
    <3>6. Kept({"BOOT", "RESTART"}) /\ Owes(q', "BOOT")
      BY <3>1, <3>3, <3>4, <3>5 DEF Kept
    <3>7. UNCHANGED <<link, pc, bond, quiesced>>
      BY <1>1, <2>3 DEF CampTick
    <3> HIDE DEF s1, s2, s3
    <3> QED BY <1>1, <1>a, <2>3, <3>6, <3>7, Names DEF CampTick, Turn, Kept
  <2> QED BY <2>1, <2>2, <2>3
<1>2. CASE BootWindowStep
  <2>1. Kept({"BOOT"})
    BY <1>2, <1>c, OwesKept DEF BootWindowStep, Kept
  <2>2. CASE link.state # "pairing" \/ link.ev10
    BY <1>2, <2>2 DEF BootWindowStep
  <2>3. CASE ~(link.state # "pairing" \/ link.ev10)
    <3>a. \A p : Goto(p).at = p
      BY <1>a DEF PcType, Goto
    <3>b. LET next == link.step + 1 IN
            IF LastStep(next)
              THEN link' = CloseWindow(link) /\ pc' = Goto("bootclose")
              ELSE /\ link' = [link EXCEPT !.step = next]
                   /\ pc' = Goto(IF next % 2 = 1 THEN "bootpair" ELSE "bootsession")
      BY <1>2, <2>3 DEF BootWindowStep
    <3>1. /\ link'.state = link.state /\ link'.ev10 = link.ev10
          /\ link'.burst = link.burst /\ link'.confirm = link.confirm
          /\ link'.wd = link.wd
          /\ \/ link'.boot /\ pc'.at \in {"bootpair", "bootsession"}
             \/ ~link'.boot /\ pc'.at = "bootclose"
      <4>1. CASE LastStep(link.step + 1)
        <5>1. link' = CloseWindow(link) /\ pc'.at = "bootclose"
          BY <3>a, <3>b, <4>1
        <5> QED BY <1>a, <5>1 DEF CloseWindow, LinkType
      <4>2. CASE ~LastStep(link.step + 1)
        <5>1. link.boot
          BY <1>2 DEF BootWindowStep
        <5>2. /\ link' = [link EXCEPT !.step = link.step + 1]
              /\ pc' = Goto("bootpair") \/ pc' = Goto("bootsession")
          BY <3>b, <4>2
        <5>3. pc'.at \in {"bootpair", "bootsession"}
          BY <3>a, <5>2
        <5> QED BY <1>a, <5>1, <5>2, <5>3 DEF LinkType
      <4> QED BY <4>1, <4>2
    <3>4. UNCHANGED <<bond, quiesced>>
      BY <1>2 DEF BootWindowStep
    <3>2. pc.at = "idle" /\ ~quiesced /\ link.boot
      BY <1>2 DEF BootWindowStep, Turn
    <3> QED BY <2>1, <2>3, <3>1, <3>2, <3>4, Names DEF Kept
  <2> QED BY <2>2, <2>3
<1>3. CASE BootWindowListen
  <2>1. PICK ok \in Outcomes :
          IF pc.at = "bootclose"
            THEN /\ link' = WatchdogOn(link)
                 /\ q' = Return(WatchdogTimer(Retry(q, ok)))
            ELSE q' = Return(Arm(q, "BOOT")) /\ link' = link
    BY <1>3 DEF BootWindowListen
  <2>2. Kept({}) /\ Owes(q', "BOOT")
    <3>1. Retry(q, ok) \in QueueType /\ WatchdogTimer(Retry(q, ok)) \in QueueType
          /\ Arm(q, "BOOT") \in QueueType
      BY <1>a, <1>b, QueueOps, QueueMacros
    <3>2. CASE pc.at = "bootclose"
      BY <1>a, <1>b, <2>1, <3>1, <3>2, OwesKept, MacrosKept, MacrosNew DEF Kept
    <3>3. CASE pc.at # "bootclose"
      BY <1>a, <1>b, <2>1, <3>1, <3>3, OwesKept, OwesNew DEF Kept
    <3> QED BY <3>2, <3>3
  <2>3. /\ link'.state = link.state /\ link'.ev10 = link.ev10
        /\ link'.burst = link.burst /\ link'.confirm = link.confirm
        /\ link'.boot = link.boot
        /\ pc.at = "bootclose" => link'.wd
        /\ pc.at # "bootclose" => link'.wd = link.wd
        /\ UNCHANGED <<bond, quiesced>>
        /\ pc'.at = "idle"
    BY <1>3, <2>1, <1>a DEF BootWindowListen, WatchdogOn, LinkType, Idle
  <2>4. pc.at \in {"bootpair", "bootsession", "bootclose"}
    BY <1>3 DEF BootWindowListen
  <2> QED BY <2>2, <2>3, <2>4, Names DEF Kept
<1> QED BY <1>1, <1>2, <1>3

\* Handlers that leave the link as it is
LEMMA CalmStep ==
  ASSUME DInv, \/ PostPollRx \/ PairPrep \/ SendPairAck \/ SendPoll
               \/ RestartDrop \/ TimeoutAlive
  PROVE  DeadlineInvariant'
<1>a. q \in QueueType /\ link \in LinkType /\ pc \in PcType
  BY DEF DInv, TypeOK
<1>b. /\ \A e \in {"POST_RX", "PREP", "ACK", "POLL", "RESTART", "TIMEOUT"} : e \in Events
      /\ "PERSIST" \in Events /\ "CONFIRM" \in Events /\ "BOOT" \in Events
      /\ "ACK" \in Grids
  BY Names DEF Grids
<1>c. \A x \in Events : Took(x) \in QueueType
  BY <1>a, Taken
<1>d. \A x \in Events : \A e \in Events \ {x} : Owes(q, e) => Owes(Took(x), e)
  BY <1>a, Taken
<1>e. \A x \in Events : PostDelayed(Took(x), "PREP") \in QueueType
                         /\ GridStart(Took(x), "ACK") \in QueueType
                         /\ Supervise(Took(x)) \in QueueType
  BY <1>b, <1>c, QueueOps, QueueMacros
<1>f. UNCHANGED <<link, bond, pc>> => SameFlags /\ SamePoint
  BY DEF SameFlags, SamePoint
<1>1. CASE PostPollRx \/ SendPoll
  <2>1. PICK x \in {"POST_RX", "POLL"} : q' = Return(Took(x))
    BY <1>1 DEF PostPollRx, SendPoll
  <2>2. \A e \in Events \ {x} : Owes(q, e) => Owes(q', e)
    BY <1>b, <1>c, <1>d, <2>1, OwesKept
  <2>3. ~quiesced /\ ~quiesced' /\ UNCHANGED <<link, bond, pc>>
    BY <1>1 DEF PostPollRx, SendPoll, Turn
  <2> QED BY <1>b, <1>f, <2>2, <2>3, FlagsStep
<1>2. CASE PairPrep
  <2>1. \/ q' = Return(PostDelayed(Took("PREP"), "PREP"))
        \/ q' = Return(Took("PREP"))
    BY <1>2 DEF PairPrep
  <2>2. \A e \in Events \ {"PREP"} : Owes(q, e) => Owes(q', e)
    BY <1>b, <1>c, <1>d, <1>e, <2>1, OwesKept
  <2>3. ~quiesced /\ ~quiesced' /\ UNCHANGED <<link, bond, pc>>
    BY <1>2 DEF PairPrep, Turn
  <2> QED BY <1>b, <1>f, <2>2, <2>3, FlagsStep
<1>3. CASE SendPairAck
  <2>1. \/ q' = Return(GridStart(Took("ACK"), "ACK"))
        \/ q' = Return(Took("ACK"))
    BY <1>3 DEF SendPairAck
  <2>2. \A e \in Events \ {"ACK"} : Owes(q, e) => Owes(q', e)
    BY <1>b, <1>c, <1>d, <1>e, <2>1, OwesKept
  <2>3. ~quiesced /\ ~quiesced' /\ UNCHANGED <<link, bond, pc>>
    BY <1>3 DEF SendPairAck, Turn
  <2> QED BY <1>b, <1>f, <2>2, <2>3, FlagsStep
<1>4. CASE RestartDrop
  <2>1. q' = Return(Took("RESTART")) /\ ~Terminal(link)
    BY <1>4 DEF RestartDrop, Terminal
  <2>2. \A e \in Events \ {"RESTART"} : Owes(q, e) => Owes(q', e)
    BY <1>b, <1>c, <1>d, <2>1, OwesKept
  <2>3. ~quiesced /\ ~quiesced' /\ UNCHANGED <<link, bond, pc>>
    BY <1>4 DEF RestartDrop, Turn
  <2> QED BY <1>b, <1>f, <2>1, <2>2, <2>3, FlagsStep
<1>5. CASE TimeoutAlive
  <2>1. \A e \in Events \ {"TIMEOUT"} : Owes(q, e) => Owes(q', e)
    <3>1. \/ q' = Return(Supervise(Took("TIMEOUT")))
          \/ q' = Return(Took("TIMEOUT"))
      BY <1>5 DEF TimeoutAlive
    <3> QED BY <1>b, <1>c, <1>d, <1>e, <3>1, OwesKept, MacrosKept
  <2>2. link.state = "connected" \/ link.ev10 => Owes(q', "TIMEOUT")
    <3>1. link.state = "connected" \/ link.ev10 => q' = Return(Supervise(Took("TIMEOUT")))
      BY <1>5 DEF TimeoutAlive
    <3> QED BY <1>b, <1>c, <1>e, <3>1, OwesKept, MacrosNew
  <2>3. ~quiesced /\ ~quiesced' /\ UNCHANGED <<link, bond, pc>>
    BY <1>5 DEF TimeoutAlive, Turn
  <2> QED BY <1>b, <1>f, <2>1, <2>2, <2>3, FlagsStep
<1> QED BY <1>1, <1>2, <1>3, <1>4, <1>5

\* RF_EVT_CONFIRM_TIMEOUT: the claim ends the wait before it acts on it.
LEMMA ConfirmStep ==
  ASSUME DInv, ConfirmClaim \/ ConfirmAct
  PROVE  DeadlineInvariant'
<1>a. q \in QueueType /\ link \in LinkType /\ pc \in PcType /\ bond \in BondType
  BY DEF DInv, TypeOK
<1>b. "CONFIRM" \in Events
  BY Names
<1>1. CASE ConfirmClaim
  <2>1. \A e \in Events \ {"CONFIRM"} : Owes(q, e) => Owes(q', e)
    BY <1>1, <1>a, <1>b, Taken DEF ConfirmClaim
  <2>2. /\ pc.at = "idle" /\ ~quiesced /\ UNCHANGED <<bond, quiesced>>
        /\ pc' = [Goto("confirm") EXCEPT !.saw = link.confirm]
    BY <1>1 DEF ConfirmClaim, Turn
  <2>3. pc'.at = "confirm" /\ pc'.saw = link.confirm
    BY <1>a, <2>2 DEF Goto, PcType
  <2>4. /\ link'.confirm = "none" /\ link'.boot = link.boot
        /\ link'.burst = link.burst /\ link'.wd = link.wd
        /\ IF link.confirm = "waitRx"
             THEN link'.state = "pairing" /\ ~link'.ev10
             ELSE link'.state = link.state /\ link'.ev10 = link.ev10
    BY <1>1, <1>a DEF ConfirmClaim, LinkType
  <2> QED BY <2>1, <2>2, <2>3, <2>4, Names
          DEF DInv, DeadlineInvariant, Hushed, PendingOwed, ConfirmOwed, WindowShape,
              ScanOwed, TickOwed, CampOwed, TornDown, Terminal
<1>2. CASE ConfirmAct
  <2>1. pc.at = "confirm" /\ pc'.at = "idle" /\ UNCHANGED quiesced /\ ~quiesced
    BY <1>2 DEF ConfirmAct, Idle, DInv, DeadlineInvariant, Hushed
  <2>2. CASE pc.saw = "waitRx"
    <3>1. link' = FreshPair(link) /\ q' = Return(FreshPairQ(q))
          /\ bond'.pending = bond.pending
      BY <1>2, <1>a, <2>2 DEF ConfirmAct, BondType
    <3>2. bond'.pending => Owes(q, "PERSIST")
      BY <3>1 DEF DInv, DeadlineInvariant, PendingOwed
    <3> QED BY <1>a, <2>1, <3>1, <3>2, FreshPairStep
  <2>3. CASE pc.saw # "waitRx"
    <3> DEFINE s == ArmPersistQ(bond, q)
    <3>1. s \in QueueType /\ Supervise(s) \in QueueType
      BY <1>a, QueueMacros
    <3>2. UNCHANGED link
      BY <1>2, <2>3 DEF ConfirmAct
    <3>3. \/ bond' = ArmPersist(bond) /\ q' \in {Return(s), Return(Supervise(s))}
          \/ bond' = bond /\ q' = Return(q)
      BY <1>2, <2>3 DEF ConfirmAct
    <3>4. \A e \in Events : Owes(q, e) => Owes(q', e)
      <4>1. \A e \in Events : Owes(q, e) => Owes(s, e)
        BY <1>a, MacrosKept
      <4>2. \A e \in Events : Owes(s, e) => Owes(Return(s), e) /\ Owes(Return(Supervise(s)), e)
        BY <3>1, MacrosKept, OwesKept
      <4> HIDE DEF s
      <4> QED BY <1>a, <3>3, <4>1, <4>2, OwesKept
    <3>5. bond'.pending => Owes(q', "PERSIST")
      <4>0. "PERSIST" \in Events
        BY Names
      <4>1. CASE bond' = ArmPersist(bond) /\ MustPersist(bond)
        <5>1. Owes(s, "PERSIST")
          BY <1>a, <4>1, MacrosNew
        <5>2. q' \in {Return(s), Return(Supervise(s))}
          BY <1>a, <3>3, <4>1 DEF ArmPersist, MustPersist, BondType
        <5> HIDE DEF s
        <5> QED BY <4>0, <3>1, <5>1, <5>2, MacrosKept, OwesKept
      <4>2. CASE bond'.pending = bond.pending
        BY <3>4, <4>0, <4>2 DEF DInv, DeadlineInvariant, PendingOwed
      <4> QED BY <3>3, <4>1, <4>2 DEF ArmPersist
    <3> HIDE DEF s
    <3> QED BY <2>1, <2>3, <3>2, <3>4, <3>5, Names
            DEF DInv, DeadlineInvariant, Hushed, PendingOwed, ConfirmOwed, WindowShape,
                ScanOwed, TickOwed, CampOwed, TornDown, Terminal
  <2> QED BY <2>2, <2>3
<1> QED BY <1>1, <1>2

\* RF_EVT_RX_RESTART: what the sink left to do, and the camp's watchdog
LEMMA RestartStep ==
  ASSUME DInv, RestartFallback \/ RestartRearm \/ RestartFinish
  PROVE  DeadlineInvariant'
<1>a. q \in QueueType /\ link \in LinkType /\ pc \in PcType /\ bond \in BondType
  BY DEF DInv, TypeOK
<1>b. "RESTART" \in Events /\ "PERSIST" \in Events /\ "CONFIRM" \in Events
      /\ "BOOT" \in Events /\ "TIMEOUT" \in Events
  BY Names
<1>c. /\ Took("RESTART") \in QueueType
      /\ \A e \in Events \ {"RESTART"} : Owes(q, e) => Owes(Took("RESTART"), e)
  BY <1>a, <1>b, Taken
<1>1. CASE RestartFallback
  <2>1. /\ link' = FreshPair(link) /\ q' = Return(FreshPairQ(Took("RESTART")))
        /\ bond' = bond /\ pc'.at = "idle" /\ ~quiesced'
    BY <1>1 DEF RestartFallback, Turn
  <2>2. bond'.pending => Owes(Took("RESTART"), "PERSIST")
    BY <1>b, <1>c, <2>1 DEF DInv, DeadlineInvariant, PendingOwed
  <2> QED BY <1>c, <2>1, <2>2, FreshPairStep
<1>2. CASE RestartRearm
  <2>1. /\ q' = Took("RESTART") /\ UNCHANGED <<link, bond, quiesced>> /\ ~quiesced
        /\ pc.at = "idle"
        /\ pc' = [Goto("restart") EXCEPT !.saw = link.confirm]
    BY <1>2 DEF RestartRearm, Turn
  <2>2. pc'.at = "restart"
    BY <1>a, <2>1 DEF Goto, PcType
  <2> QED BY <1>c, <2>1, <2>2, Names
          DEF DInv, DeadlineInvariant, Hushed, PendingOwed, ConfirmOwed, WindowShape,
              ScanOwed, TickOwed, CampOwed, TornDown, Terminal
<1>3. CASE RestartFinish
  <2> DEFINE s0 == Retry(q, ~radio.failed)
             camp == Unwatched(link)
             s1 == IF camp THEN WatchdogTimer(s0) ELSE s0
             l1 == IF camp THEN WatchdogOn(link) ELSE link
             sure == /\ pc.saw = "waitRearm" /\ link.confirm = "waitRearm"
                     /\ ~radio.failed
             s2 == Cancel(s1, {"CONFIRM"})
             s3 == ArmPersistQ(bond, s2)
             s4 == Supervise(s3)
  <2>1. /\ link' = IF sure THEN Decided(l1) ELSE l1
        /\ bond' = IF sure THEN ArmPersist(bond) ELSE bond
        /\ q' = Return(IF sure THEN s4 ELSE s1)
    BY <1>3 DEF RestartFinish
  <2>2. pc.at = "restart" /\ pc'.at = "idle" /\ UNCHANGED quiesced /\ ~quiesced
    BY <1>3 DEF RestartFinish, Idle, DInv, DeadlineInvariant, Hushed
  <2>3. s0 \in QueueType /\ s1 \in QueueType /\ s2 \in QueueType
        /\ s3 \in QueueType /\ s4 \in QueueType
    BY <1>a, QueueOps, QueueMacros
  <2>4. \A e \in Events : Owes(q, e) => Owes(s1, e)
    <3>1. \A e \in Events : Owes(q, e) => Owes(s0, e)
      BY <1>a, MacrosKept
    <3> QED BY <2>3, <3>1, MacrosKept
  <2>5. \A e \in Events : Owes(s1, e) => Owes(Return(s1), e)
    BY <2>3, OwesKept
  <2>6. \A e \in Events \ {"CONFIRM"} : Owes(s1, e) => Owes(Return(s4), e)
    <3>1. \A e \in Events \ {"CONFIRM"} : Owes(s1, e) => Owes(s2, e)
      BY <2>3, OwesKept
    <3>2. \A e \in Events : Owes(s2, e) => Owes(s3, e)
      BY <2>3, MacrosKept
    <3>3. \A e \in Events : Owes(s3, e) => Owes(Return(s4), e)
      BY <2>3, MacrosKept, OwesKept
    <3> HIDE DEF s1, s2, s3, s4
    <3> QED BY <3>1, <3>2, <3>3
  <2>7. camp => Owes(s1, "BOOT")
    BY <2>3, MacrosNew
  <2>8. MustPersist(bond) => Owes(Return(s4), "PERSIST")
    <3>1. MustPersist(bond) => Owes(s3, "PERSIST")
      BY <2>3, MacrosNew
    <3> HIDE DEF s3
    <3> QED BY <1>b, <2>3, <3>1, MacrosKept, OwesKept
  <2>9. /\ link'.state = link.state /\ link'.ev10 = link.ev10
        /\ link'.boot = link.boot /\ link'.burst = link.burst
        /\ link'.wd = (camp \/ link.wd)
        /\ link'.confirm = IF sure THEN "none" ELSE link.confirm
    BY <1>a, <2>1 DEF LinkType, Decided, WatchdogOn
  <2> HIDE DEF s0, s1, s2, s3, s4, l1
  <2>10. \A e \in Events \ {"CONFIRM"} : Owes(q, e) => Owes(q', e)
    BY <2>1, <2>4, <2>5, <2>6
  <2>11. ~sure /\ Owes(q, "CONFIRM") => Owes(q', "CONFIRM")
    BY <1>b, <2>1, <2>4, <2>5
  <2>12. bond'.pending => Owes(q', "PERSIST")
    <3>1. CASE sure /\ MustPersist(bond)
      BY <2>1, <2>8, <3>1
    <3>2. CASE ~(sure /\ MustPersist(bond))
      <4>1. bond' = bond
        BY <2>1, <3>2 DEF ArmPersist
      <4> QED BY <1>b, <2>10, <4>1 DEF DInv, DeadlineInvariant, PendingOwed
    <3> QED BY <3>1, <3>2
  <2>13. link'.wd /\ ~link.wd => Owes(q', "BOOT")
    BY <1>b, <2>1, <2>5, <2>6, <2>7, <2>9
  <2>14. Terminal(link') /\ ~quiesced => link'.wd
    BY <2>9 DEF Unwatched, Terminal
  <2> HIDE DEF sure, camp
  <2> QED BY <2>2, <2>9, <2>10, <2>11, <2>12, <2>13, <2>14, <1>b
          DEF DInv, DeadlineInvariant, Hushed, PendingOwed, ConfirmOwed, WindowShape,
              ScanOwed, TickOwed, CampOwed, TornDown, Terminal
<1> QED BY <1>1, <1>2, <1>3

\* The pair-ACK transmissions and their recovery
LEMMA BurstStep ==
  ASSUME DInv, TxPair15 \/ TxPair15B
  PROVE  DeadlineInvariant'
<1>a. q \in QueueType /\ link \in LinkType /\ pc \in PcType /\ bond \in BondType
  BY DEF DInv, TypeOK
<1>b. "TX15" \in Events /\ "TX15B" \in Events /\ "PERSIST" \in Events
      /\ "CONFIRM" \in Events /\ "BOOT" \in Events /\ "TIMEOUT" \in Events
      /\ "RESTART" \in Events
  BY Names
<1>1. PICK x \in {"TX15", "TX15B"} :
        \/ q' = Return(Took(x)) /\ UNCHANGED link
        \/ link' = FreshPair(link) /\ q' = Return(FreshPairQ(Took(x)))
  BY DEF TxPair15, TxPair15B, TxPair
<1>2. UNCHANGED <<bond, pc, quiesced>> /\ ~quiesced /\ pc.at = "idle"
  BY DEF TxPair15, TxPair15B, Turn
<1>3. /\ Took(x) \in QueueType
      /\ \A e \in Events \ {x} : Owes(q, e) => Owes(Took(x), e)
  BY <1>a, <1>b, Taken
<1>4. CASE q' = Return(Took(x)) /\ UNCHANGED link
  <2>1. \A e \in Events \ {x} : Owes(q, e) => Owes(q', e)
    BY <1>3, <1>4, OwesKept
  <2>2. SameFlags /\ SamePoint
    BY <1>2, <1>4 DEF SameFlags, SamePoint
  <2> QED BY <1>b, <1>2, <2>1, <2>2, FlagsStep
<1>5. CASE link' = FreshPair(link) /\ q' = Return(FreshPairQ(Took(x)))
  <2>1. bond'.pending => Owes(Took(x), "PERSIST")
    BY <1>b, <1>2, <1>3 DEF DInv, DeadlineInvariant, PendingOwed
  <2> QED BY <1>2, <1>3, <1>5, <2>1, FreshPairStep
<1> QED BY <1>1, <1>4, <1>5

\* RF_EVT_TIMEOUT: a lapsed link is torn down and scanned for
LEMMA ReacquireStep ==
  ASSUME DInv, \/ ReacquireFresh \/ ReacquireKeysUp \/ ReacquireTeardown
               \/ ReacquireScan
  PROVE  DeadlineInvariant'
<1>a. q \in QueueType /\ link \in LinkType /\ pc \in PcType
  BY DEF DInv, TypeOK
<1>b. /\ "TIMEOUT" \in Events /\ "PERSIST" \in Events /\ "CONFIRM" \in Events
      /\ "BOOT" \in Events /\ "RESTART" \in Events /\ "PREP" \in Events
      /\ "EV10" \in OneShots /\ "POLL" \in Grids
  BY Names DEF Grids
<1>c. /\ Took("TIMEOUT") \in QueueType
      /\ \A e \in Events \ {"TIMEOUT"} : Owes(q, e) => Owes(Took("TIMEOUT"), e)
  BY <1>a, <1>b, Taken
<1>1. CASE ReacquireFresh
  <2>1. /\ link' = FreshPair(link) /\ q' = Return(FreshPairQ(Took("TIMEOUT")))
        /\ bond' = bond /\ pc'.at = "idle" /\ ~quiesced'
    BY <1>1 DEF ReacquireFresh, Lapsed, Turn
  <2>2. bond'.pending => Owes(Took("TIMEOUT"), "PERSIST")
    BY <1>b, <1>c, <2>1 DEF DInv, DeadlineInvariant, PendingOwed
  <2> QED BY <1>c, <2>1, <2>2, FreshPairStep
<1>2. CASE ReacquireKeysUp
  <2>1. /\ pc.at = "idle" /\ ~quiesced /\ link.state = "connected" /\ ~link.ev10
        /\ UNCHANGED <<bond, quiesced>> /\ q' = Took("TIMEOUT")
    BY <1>2 DEF ReacquireKeysUp, Lapsed, Turn
  <2>2. pc'.at = "reacquire1"
    BY <1>2, <1>a DEF ReacquireKeysUp, Goto, PcType
  <2>3. /\ link'.state \in {"connected", "idle"} /\ link'.ev10 = link.ev10
        /\ link'.boot = link.boot /\ link'.burst = link.burst
        /\ link'.confirm = link.confirm /\ link'.wd = link.wd
    BY <1>2, <1>a, <2>1 DEF ReacquireKeysUp, LinkType
  <2> QED BY <1>b, <1>c, <2>1, <2>2, <2>3
          DEF DInv, DeadlineInvariant, Hushed, PendingOwed, ConfirmOwed, WindowShape,
              ScanOwed, TickOwed, CampOwed, TornDown, Terminal
<1>3. CASE ReacquireTeardown
  <2>1. /\ pc.at = "reacquire1" /\ UNCHANGED <<bond, quiesced>> /\ ~quiesced
    BY <1>3 DEF ReacquireTeardown, DInv, DeadlineInvariant, Hushed
  <2>2. pc'.at = "reacquire2"
    BY <1>3, <1>a DEF ReacquireTeardown, GoOn, PcType
  <2>3. /\ link'.state = "idle" /\ link'.ev10 = link.ev10 /\ ~link'.boot
        /\ ~link'.burst /\ link'.confirm = link.confirm /\ link'.wd = link.wd
    BY <1>3, <1>a DEF ReacquireTeardown, LinkType, AbortBurst, CloseWindow
  <2>4. \A e \in {"PERSIST", "CONFIRM", "BOOT"} : Owes(q, e) => Owes(q', e)
    <3> DEFINE s1 == GridStop(q, "POLL")
               s2 == Cancel(s1, {"POLL", "POST_RX", "ACK", "PREP"})
    <3>1. q' = AbortBurstQ(s2)
      BY <1>3 DEF ReacquireTeardown
    <3>2. s1 \in QueueType /\ s2 \in QueueType
      BY <1>a, <1>b, QueueOps
    <3>3. \A e \in Events : Owes(q, e) => Owes(s1, e)
      BY <1>a, <1>b, OwesKept
    <3>4. \A e \in {"PERSIST", "CONFIRM", "BOOT"} : Owes(s1, e) => Owes(s2, e)
      BY <1>b, <3>2, OwesKept
    <3>5. \A e \in {"PERSIST", "CONFIRM", "BOOT"} : Owes(s2, e) => Owes(q', e)
      BY <1>b, <3>1, <3>2, MacrosKept
    <3> HIDE DEF s1, s2
    <3> QED BY <1>b, <3>3, <3>4, <3>5
  <2> QED BY <2>1, <2>2, <2>3, <2>4
          DEF DInv, DeadlineInvariant, Hushed, PendingOwed, ConfirmOwed, WindowShape,
              ScanOwed, TickOwed, CampOwed, TornDown, Terminal
<1>4. CASE ReacquireScan
  <2>1. /\ pc.at = "reacquire2" /\ UNCHANGED <<bond, quiesced>> /\ ~quiesced
        /\ pc'.at = "idle" /\ q' = Return(Arm(Post(q, "PREP"), "EV10"))
    BY <1>4 DEF ReacquireScan, Idle, DInv, DeadlineInvariant, Hushed
  <2>2. /\ link'.state = "pairing" /\ link'.ev10 /\ link'.boot = link.boot
        /\ link'.burst = link.burst /\ link'.confirm = link.confirm
        /\ link'.wd = link.wd
    BY <1>4, <1>a DEF ReacquireScan, LinkType
  <2>3. Post(q, "PREP") \in QueueType /\ Arm(Post(q, "PREP"), "EV10") \in QueueType
    BY <1>a, <1>b, QueueOps
  <2>4. (\A e \in Events : Owes(q, e) => Owes(q', e)) /\ Owes(q', "TIMEOUT")
    BY <1>a, <1>b, <2>1, <2>3, OwesKept, OwesNew
  <2> QED BY <1>b, <2>1, <2>2, <2>4
          DEF DInv, DeadlineInvariant, Hushed, PendingOwed, ConfirmOwed, WindowShape,
              ScanOwed, TickOwed, CampOwed, TornDown, Terminal
<1> QED BY <1>1, <1>2, <1>3, <1>4

\* rf_stock_reacquire_giveup: the scan's end, up to the camp it leaves
LEMMA GiveupStep ==
  ASSUME DInv, GiveupStart \/ GiveupTeardown \/ GiveupClaim \/ GiveupCamp
  PROVE  DeadlineInvariant'
<1>a. q \in QueueType /\ link \in LinkType /\ pc \in PcType /\ bond \in BondType
  BY DEF DInv, TypeOK
<1>b. /\ "TIMEOUT" \in Events /\ "PERSIST" \in Events /\ "CONFIRM" \in Events
      /\ "BOOT" \in Events /\ "RESTART" \in Events
      /\ OneShots \in SUBSET OneShots
  BY Names
<1>1. CASE GiveupStart
  <2>1. /\ pc.at = "idle" /\ ~quiesced /\ link.ev10
        /\ UNCHANGED <<bond, quiesced>> /\ q' = Took("TIMEOUT")
    BY <1>1 DEF GiveupStart, Turn
  <2>2. pc'.at = "giveup1"
    BY <1>1, <1>a DEF GiveupStart, Goto, PcType
  <2>3. /\ link'.state = link.state /\ ~link'.ev10 /\ ~link'.boot
        /\ link'.burst = link.burst /\ link'.confirm = link.confirm
        /\ link'.wd = link.wd
    BY <1>1, <1>a DEF GiveupStart, LinkType, CloseWindow
  <2>4. \A e \in Events \ {"TIMEOUT"} : Owes(q, e) => Owes(q', e)
    BY <1>a, <1>b, <2>1, Taken
  <2> QED BY <1>b, <2>1, <2>2, <2>3, <2>4
          DEF DInv, DeadlineInvariant, Hushed, PendingOwed, ConfirmOwed, WindowShape,
              ScanOwed, TickOwed, CampOwed, TornDown, Terminal
<1>2. CASE GiveupTeardown
  <2>1. /\ pc.at = "giveup1" /\ UNCHANGED <<bond, quiesced>> /\ ~quiesced
    BY <1>2 DEF GiveupTeardown, DInv, DeadlineInvariant, Hushed
  <2>2. pc'.at = "giveup2"
    BY <1>2, <1>a DEF GiveupTeardown, GoOn, PcType
  <2>3. /\ link'.state = link.state /\ link'.ev10 = link.ev10
        /\ link'.boot = link.boot /\ ~link'.burst
        /\ link'.confirm = link.confirm /\ ~link'.wd
    BY <1>2, <1>a DEF GiveupTeardown, LinkType, AbortBurst
  <2>4. \A e \in {"PERSIST", "CONFIRM"} : Owes(q, e) => Owes(q', e)
    <3> DEFINE s1 == GridStopAll(q)
               s2 == Disarm(s1, OneShots)
               s3 == Cancel(s2, {"PREP", "ACK", "POLL", "POST_RX"})
    <3>1. q' = AbortBurstQ(s3)
      BY <1>2 DEF GiveupTeardown
    <3>2. s1 \in QueueType /\ s2 \in QueueType /\ s3 \in QueueType
      BY <1>a, <1>b, QueueOps
    <3>3. \A e \in {"PERSIST", "CONFIRM"} : Owes(q, e) => Owes(s1, e)
      BY <1>a, <1>b, OwesKept
    <3>4. \A e \in {"PERSIST", "CONFIRM"} : Owes(s1, e) => Owes(s2, e)
      BY <1>b, <3>2, OwesKept
    <3>5. \A e \in {"PERSIST", "CONFIRM"} : Owes(s2, e) => Owes(s3, e)
      BY <1>b, <3>2, OwesKept
    <3>6. \A e \in {"PERSIST", "CONFIRM"} : Owes(s3, e) => Owes(q', e)
      BY <1>b, <3>1, <3>2, MacrosKept
    <3> HIDE DEF s1, s2, s3
    <3> QED BY <3>3, <3>4, <3>5, <3>6
  <2> QED BY <2>1, <2>2, <2>3, <2>4
          DEF DInv, DeadlineInvariant, Hushed, PendingOwed, ConfirmOwed, WindowShape,
              ScanOwed, TickOwed, CampOwed, TornDown, Terminal
<1>3. CASE GiveupClaim
  <2>1. /\ pc.at = "giveup2" /\ UNCHANGED <<q, bond, quiesced>> /\ ~quiesced
    BY <1>3 DEF GiveupClaim, DInv, DeadlineInvariant, Hushed
  <2>2. pc'.at = "giveup3" /\ pc'.busy = pc.busy
    BY <1>3, <1>a DEF GiveupClaim, GoOn, PcType
  <2>3. /\ link'.state = IF link.state = "connected" THEN "pairing" ELSE link.state
        /\ link'.ev10 = link.ev10
        /\ link'.boot = link.boot /\ link'.burst = link.burst
        /\ link'.confirm = "none" /\ link'.wd = link.wd
    BY <1>3, <1>a DEF GiveupClaim, LinkType
  <2> QED BY <2>1, <2>2, <2>3
          DEF DInv, DeadlineInvariant, Hushed, PendingOwed, ConfirmOwed, WindowShape,
              ScanOwed, TickOwed, CampOwed, TornDown, Terminal
<1>4. CASE GiveupCamp
  <2>1. pc.at = "giveup3" /\ pc'.at = "idle" /\ UNCHANGED quiesced /\ ~quiesced
    BY <1>4 DEF GiveupCamp, Idle, DInv, DeadlineInvariant, Hushed
  <2>2. CASE pc.saw = "waitRx"
    <3>1. link' = FreshPair(link) /\ q' = Return(FreshPairQ(q)) /\ bond' = bond
      BY <1>4, <2>2 DEF GiveupCamp
    <3>2. bond'.pending => Owes(q, "PERSIST")
      BY <3>1 DEF DInv, DeadlineInvariant, PendingOwed
    <3> QED BY <1>a, <2>1, <3>1, <3>2, FreshPairStep
  <2>3. CASE pc.saw # "waitRx"
    <3> DEFINE act == pc.saw = "waitRearm"
               s == IF act THEN ArmPersistQ(bond, q) ELSE q
               s1 == Cancel(s, {"CONFIRM"})
    <3>1. PICK ok \in Outcomes :
            /\ link' = WatchdogOn([link EXCEPT !.state = "pairing"])
            /\ bond' = IF act THEN ArmPersist(bond) ELSE bond
            /\ q' = Return(WatchdogTimer(Retry(s1, ok)))
      BY <1>4, <2>3 DEF GiveupCamp
    <3> DEFINE s2 == Retry(s1, ok)
               s3 == WatchdogTimer(s2)
    <3>2. s \in QueueType /\ s1 \in QueueType /\ s2 \in QueueType /\ s3 \in QueueType
      BY <1>a, QueueOps, QueueMacros
    <3>3. Owes(s, "PERSIST") => Owes(q', "PERSIST")
      <4>1. Owes(s, "PERSIST") => Owes(s1, "PERSIST")
        BY <1>b, <3>2, OwesKept
      <4>2. Owes(s1, "PERSIST") => Owes(s2, "PERSIST")
        BY <1>b, <3>2, MacrosKept
      <4>3. Owes(s2, "PERSIST") => Owes(Return(s3), "PERSIST")
        BY <1>b, <3>2, MacrosKept, OwesKept
      <4>4. q' = Return(s3)
        BY <3>1
      <4> HIDE DEF s, s1, s2, s3
      <4> QED BY <4>1, <4>2, <4>3, <4>4
    <3>4. Owes(q', "BOOT")
      <4>1. Owes(Return(s3), "BOOT")
        BY <1>b, <3>2, MacrosNew, OwesKept
      <4>2. q' = Return(s3)
        BY <3>1
      <4> HIDE DEF s3
      <4> QED BY <4>1, <4>2
    <3>5. bond'.pending => Owes(q', "PERSIST")
      <4>1. CASE act /\ MustPersist(bond)
        <5>1. Owes(s, "PERSIST")
          BY <1>a, <4>1, MacrosNew
        <5> QED BY <3>3, <5>1
      <4>2. CASE ~(act /\ MustPersist(bond))
        <5>1. bond' = bond
          BY <3>1, <4>2 DEF ArmPersist
        <5>2. s = q
          BY <4>2 DEF ArmPersistQ
        <5> QED BY <3>3, <5>1, <5>2 DEF DInv, DeadlineInvariant, PendingOwed
      <4> QED BY <4>1, <4>2
    <3>6. /\ link'.state = "pairing" /\ link'.ev10 = link.ev10
          /\ link'.boot = link.boot /\ link'.burst = link.burst
          /\ link'.confirm = link.confirm /\ link'.wd
      BY <1>a, <3>1 DEF LinkType, WatchdogOn
    <3> HIDE DEF act, s, s1, s2, s3
    <3> QED BY <2>1, <3>4, <3>5, <3>6
            DEF DInv, DeadlineInvariant, Hushed, PendingOwed, ConfirmOwed, WindowShape,
                ScanOwed, TickOwed, CampOwed, TornDown, Terminal
  <2> QED BY <2>2, <2>3
<1> QED BY <1>1, <1>2, <1>3, <1>4

\* RF_EVT_PERSIST_BOND, and the reboot's last write: on CH570 the write tears
\* the camp down and brings it back with its watchdog.
LEMMA WriteStep ==
  ASSUME DInv, \/ PersistSnapshot \/ PersistAlready \/ PersistErase
               \/ PersistWrite \/ PersistReadback
  PROVE  DeadlineInvariant'
<1>a. q \in QueueType /\ link \in LinkType /\ pc \in PcType /\ bond \in BondType
  BY DEF DInv, TypeOK
<1>b. /\ "TIMEOUT" \in Events /\ "PERSIST" \in Events /\ "CONFIRM" \in Events
      /\ "BOOT" \in Events /\ "RESTART" \in Events
      /\ OneShots \in SUBSET OneShots
  BY Names
<1>1. CASE PersistSnapshot
  <2>1. /\ pc.at = "idle" /\ UNCHANGED <<link, radio, quiesced>> /\ ~bond'.pending
        /\ q' \in {Took("PERSIST"), Return(Took("PERSIST"))}
    BY <1>1, <1>a DEF PersistSnapshot, Turn, BondType
  <2>2. ~quiesced
    BY <1>1, <2>1 DEF PersistSnapshot, Turn, Current, DInv, DeadlineInvariant, Hushed
  <2>3. pc'.at \in {"idle", "persist1"}
    BY <1>1, <1>a, <2>1 DEF PersistSnapshot, Goto, PcType
  <2>4. \A e \in Events \ {"PERSIST"} : Owes(q, e) => Owes(q', e)
    <3>1. /\ Took("PERSIST") \in QueueType
          /\ \A e \in Events \ {"PERSIST"} : Owes(q, e) => Owes(Took("PERSIST"), e)
      BY <1>a, <1>b, Taken
    <3> QED BY <2>1, <3>1, OwesKept
  <2> QED BY <1>b, <2>1, <2>2, <2>3, <2>4
          DEF DInv, DeadlineInvariant, Hushed, PendingOwed, ConfirmOwed, WindowShape,
              ScanOwed, TickOwed, CampOwed, TornDown, Terminal
<1>2. CASE PersistAlready \/ PersistReadback
  <2>1. /\ UNCHANGED <<link, quiesced>> /\ pc'.at = "idle"
        /\ pc.at \in {"persist1", "persist3"} /\ PersistReturn(q, radio)
    BY <1>2 DEF PersistAlready, PersistReadback, PersistReturn, Idle
  <2>2. bond'.pending = bond.pending
    BY <1>2, <1>a DEF PersistAlready, PersistReadback, BondType
  <2>3. CASE quiesced
    BY <2>1, <2>2, <2>3
       DEF DInv, DeadlineInvariant, Hushed, PendingOwed, ConfirmOwed, WindowShape,
           ScanOwed, TickOwed, CampOwed, TornDown, Terminal, PersistReturn,
           QuiesceTail, Shut, TypeOK, RadioType
  <2>4. CASE ~quiesced
    <3>1. \A e \in Events : Owes(q, e) => Owes(q', e)
      BY <1>a, <2>1, <2>4, OwesKept DEF PersistReturn
    <3> QED BY <1>b, <2>1, <2>2, <2>4, <3>1
            DEF DInv, DeadlineInvariant, Hushed, PendingOwed, ConfirmOwed, WindowShape,
                ScanOwed, TickOwed, CampOwed, TornDown, Terminal
  <2> QED BY <2>3, <2>4
<1>3. CASE PersistErase
  <2>1. /\ UNCHANGED <<bond, quiesced>> /\ pc.at = "persist1"
    BY <1>3 DEF PersistErase
  <2>2. pc'.at = "persist2" /\ pc'.conn = (link.state = "connected")
    BY <1>3, <1>a DEF PersistErase, Goto, PcType
  <2>3. CASE ~Tmos /\ link.state # "connected"
    <3>1. /\ link'.state = link.state /\ link'.ev10 = link.ev10
          /\ link'.boot = link.boot /\ link'.burst = link.burst
          /\ link'.confirm = link.confirm
          /\ q' = Disarm(GridStopAll(q), OneShots)
      BY <1>3, <1>a, <2>3 DEF PersistErase, LinkType
    <3>2. \A e \in {"PERSIST", "CONFIRM"} : Owes(q, e) => Owes(q', e)
      <4>1. GridStopAll(q) \in QueueType
        BY <1>a, QueueOps
      <4>2. \A e \in {"PERSIST", "CONFIRM"} : Owes(q, e) => Owes(GridStopAll(q), e)
        BY <1>a, <1>b, OwesKept
      <4> QED BY <1>b, <3>1, <4>1, <4>2, OwesKept
    <3> QED BY <2>1, <2>2, <2>3, <3>1, <3>2
            DEF DInv, DeadlineInvariant, Hushed, PendingOwed, ConfirmOwed, WindowShape,
                ScanOwed, TickOwed, CampOwed, TornDown, Terminal
  <2>4. CASE ~(~Tmos /\ link.state # "connected")
    <3>1. UNCHANGED <<link, q>>
      BY <1>3, <2>4 DEF PersistErase
    <3> QED BY <2>1, <2>2, <2>4, <3>1
            DEF DInv, DeadlineInvariant, Hushed, PendingOwed, ConfirmOwed, WindowShape,
                ScanOwed, TickOwed, CampOwed, TornDown, Terminal
  <2> QED BY <2>3, <2>4
<1>4. CASE PersistWrite
  <2>1. UNCHANGED <<bond, quiesced>> /\ pc.at = "persist2"
    BY <1>4 DEF PersistWrite
  <2>2. pc'.at = "persist3"
    BY <1>4, <1>a DEF PersistWrite, Goto, PcType
  <2>3. CASE Tmos \/ pc.conn
    <3>1. /\ q' = q /\ SameFlags
      BY <1>4, <1>a, <2>3 DEF PersistWrite, LinkType, SameFlags
    <3> QED BY <2>1, <2>2, <2>3, <3>1
            DEF DInv, DeadlineInvariant, Hushed, PendingOwed, ConfirmOwed, WindowShape,
                ScanOwed, TickOwed, CampOwed, TornDown, Terminal, SameFlags
  <2>4. CASE ~(Tmos \/ pc.conn)
    <3>1. PICK ok : /\ link' = WatchdogOn([link EXCEPT !.ev10 = FALSE, !.state = "pairing"])
                    /\ q' = WatchdogTimer(Retry(q, ok))
      BY <1>4, <2>4 DEF PersistWrite
    <3>2. Retry(q, ok) \in QueueType
      BY <1>a, QueueMacros
    <3>3. (\A e \in Events : Owes(q, e) => Owes(q', e)) /\ Owes(q', "BOOT")
      BY <1>a, <3>1, <3>2, MacrosKept, MacrosNew
    <3>4. /\ link'.state = "pairing" /\ ~link'.ev10 /\ link'.boot = link.boot
          /\ link'.burst = link.burst /\ link'.confirm = link.confirm /\ link'.wd
      BY <1>a, <3>1 DEF LinkType, WatchdogOn
    <3> QED BY <1>b, <2>1, <2>2, <3>3, <3>4
            DEF DInv, DeadlineInvariant, Hushed, PendingOwed, ConfirmOwed, WindowShape,
                ScanOwed, TickOwed, CampOwed, TornDown, Terminal
  <2> QED BY <2>3, <2>4
<1> QED BY <1>1, <1>2, <1>3, <1>4

\* RF_EVT_START and RF_EVT_QUIESCE: the first and the last handler of a boot
LEMMA EndsStep ==
  ASSUME DInv, Start \/ Quiesce
  PROVE  DeadlineInvariant'
<1>a. q \in QueueType /\ link \in LinkType /\ pc \in PcType /\ bond \in BondType
  BY DEF DInv, TypeOK
<1>b. "START" \in Events /\ "RESTART" \in Events /\ "BOOT" \in Events /\ "BOOT" \in OneShots
  BY Names
<1>1. CASE Start
  <2>1. /\ pc.at = "idle" /\ ~quiesced /\ UNCHANGED <<bond, pc, quiesced>>
        /\ "START" \in Current
    BY <1>1 DEF Start, Turn
  <2>2. "START" \in q.pend
    BY <2>1 DEF Current, DInv, BondInvariant, StartOnce
  <2>3. ~link.ev10 /\ ~link.burst /\ ~bond.pending
    BY <2>2 DEF DInv, BondInvariant, Unstarted
  <2>4. PICK ok \in Outcomes :
          /\ q' = Return(Arm(Retry(Cancel(Took("START"), {"CONFIRM"}), ok), "BOOT"))
          /\ LET l == [link EXCEPT !.confirm = "none", !.txfail = FALSE,
                                   !.state = "pairing"]
             IN link' = IF bond.valid
                          THEN [l EXCEPT !.boot = TRUE, !.pairWin = TRUE,
                                         !.step = 0, !.wd = FALSE, !.moved = FALSE]
                          ELSE WatchdogOn(l)
    BY <1>1 DEF Start
  <2>5. Retry(Cancel(Took("START"), {"CONFIRM"}), ok) \in QueueType
    BY <1>a, <1>b, Taken, QueueOps, QueueMacros
  <2>6. Owes(q', "BOOT")
    BY <1>b, <2>4, <2>5, QueueOps, OwesKept, OwesNew
  <2>7. /\ link'.state = "pairing" /\ ~link'.ev10 /\ ~link'.burst
        /\ link'.confirm = "none" /\ (link'.boot \/ link'.wd)
    BY <1>a, <2>3, <2>4 DEF LinkType, WatchdogOn
  <2> QED BY <2>1, <2>3, <2>6, <2>7
          DEF DInv, DeadlineInvariant, Hushed, PendingOwed, ConfirmOwed, WindowShape,
              ScanOwed, TickOwed, CampOwed, TornDown, Terminal
<1>2. CASE Quiesce
  <2>1. pc.at = "idle" /\ quiesced' /\ ~bond'.pending /\ UNCHANGED link
    BY <1>2, <1>a DEF Quiesce, Turn, BondType
  <2>2. \/ pc'.at = "persist1"
        \/ pc'.at = "idle" /\ QuiesceTail
    BY <1>2, <1>a, <2>1 DEF Quiesce, Goto, PcType
  <2> QED BY <2>1, <2>2
          DEF DInv, DeadlineInvariant, Hushed, PendingOwed, ConfirmOwed, WindowShape,
              ScanOwed, TickOwed, CampOwed, TornDown, Terminal,
              QuiesceTail, Shut, TypeOK, RadioType
<1> QED BY <1>1, <1>2

\* A completion preempts where it may, once.
LEMMA PreemptsAt ==
  ASSUME DInv, Preempts
  PROVE  /\ ~quiesced /\ SamePoint /\ pc'.at = pc.at /\ pc'.saw = pc.saw
         /\ pc'.conn = pc.conn /\ (pc.at # "idle" => pc'.busy)
         /\ ~pc.busy
BY DEF Preempts, SamePoint, DInv, TypeOK, PcType

\* Completions that change no flag anything waits for
LEMMA NoiseStep ==
  ASSUME DInv, ~quiesced',
         \/ RxNoise \/ RxScanNoise \/ RxPairRekey
         \/ TxDoneBurst \/ TxDonePoll \/ TxDoneStray
  PROVE  DeadlineInvariant'
<1>a. q \in QueueType /\ link \in LinkType
  BY DEF DInv, TypeOK
<1>b. /\ \A e \in {"RESTART", "TX15B", "POST_RX", "PREP", "PERSIST", "CONFIRM",
                    "BOOT", "TIMEOUT"} : e \in Events
      /\ "ACK" \in Grids
  BY Names DEF Grids
<1>1. Preempts /\ bond' = bond
  BY DEF RxNoise, RxScanNoise, RxPairRekey, TxDoneBurst, TxDonePoll, TxDoneStray,
         Received, Sent
<1>2. ~quiesced /\ SamePoint
  BY <1>1, PreemptsAt
<1>3. SameFlags
  BY <1>a DEF RxNoise, RxScanNoise, RxPairRekey, TxDoneBurst, TxDonePoll,
              TxDoneStray, SameFlags, LinkType
<1>4. \A e \in Events \ {"PREP"} : Owes(q, e) => Owes(q', e)
  <2>1. CASE RxNoise \/ TxDoneStray
    BY <1>a, <1>b, <2>1, OwesKept DEF RxNoise, TxDoneStray
  <2>2. CASE RxPairRekey
    <3>1. Cancel(q, {"PREP"}) \in QueueType
      BY <1>a, QueueOps
    <3>2. q' = GridStart(Cancel(q, {"PREP"}), "ACK")
      BY <2>2 DEF RxPairRekey
    <3> QED BY <1>a, <1>b, <3>1, <3>2, OwesKept
  <2>3. CASE TxDoneBurst
    BY <1>a, <1>b, <2>3, OwesKept DEF TxDoneBurst
  <2>4. CASE TxDonePoll \/ RxScanNoise
    BY <1>a, <1>b, <2>4, OwesKept DEF TxDonePoll, RxScanNoise
  <2> QED BY <2>1, <2>2, <2>3, <2>4
<1> QED BY <1>b, <1>1, <1>2, <1>3, <1>4, FlagsStep

\* The sink's decisions: a keyboard let in, heard, vetoed or given up
LEMMA DecideStep ==
  ASSUME DInv, UNCHANGED quiesced,
         RxPairAccept \/ RxConnected \/ TxDoneTombstone \/ TxFail
  PROVE  DeadlineInvariant'
<1>a. q \in QueueType /\ link \in LinkType /\ bond \in BondType
  BY DEF DInv, TypeOK
<1>b. /\ \A e \in {"RESTART", "TX15", "PREP", "PERSIST", "CONFIRM",
                    "BOOT", "TIMEOUT"} : e \in Events
      /\ "ACK" \in Grids /\ "EV10" \in OneShots /\ "BOOT" \in OneShots
      /\ {"BOOT"} \in SUBSET OneShots /\ {"EV10"} \in SUBSET OneShots
  BY Names DEF Grids
<1>1. Preempts
  BY DEF RxPairAccept, RxConnected, TxDoneTombstone, TxFail, Received, Sent
<1>2. /\ ~quiesced /\ pc'.at = pc.at /\ pc'.saw = pc.saw /\ pc'.conn = pc.conn
      /\ (pc.at # "idle" => pc'.busy)
  BY <1>1, PreemptsAt
<1>3. CASE RxPairAccept
  <2>1. /\ link'.state = link.state /\ link'.ev10 = link.ev10 /\ ~link'.boot
        /\ link'.burst /\ link'.confirm = link.confirm /\ ~link'.wd
    BY <1>3, <1>a DEF RxPairAccept, CloseWindow, LinkType
  <2>2. bond'.pending = bond.pending
    BY <1>3, <1>a DEF RxPairAccept, BondType
  <2>3. \A e \in Events \ {"BOOT"} : Owes(q, e) => Owes(q', e)
    <3>1. Disarm(q, {"BOOT"}) \in QueueType
      BY <1>a, <1>b, QueueOps
    <3>2. \A e \in Events \ {"BOOT"} : Owes(q, e) => Owes(Disarm(q, {"BOOT"}), e)
      BY <1>a, OwesKept
    <3> QED BY <1>3, <1>b, <3>1, <3>2, OwesKept DEF RxPairAccept
  <2> QED BY <1>2, <1>b, <2>1, <2>2, <2>3
          DEF DInv, DeadlineInvariant, Hushed, PendingOwed, ConfirmOwed, WindowShape,
              ScanOwed, TickOwed, CampOwed, TornDown, Terminal
<1>4. CASE RxConnected
  <2>1. /\ link'.state = link.state /\ link'.ev10 = link.ev10
        /\ link'.boot = link.boot /\ link'.burst = link.burst
        /\ link'.wd = link.wd
        /\ link.confirm = "none" => link'.confirm = "none"
    BY <1>4, <1>a DEF RxConnected, LinkType
  <2>2. bond' = bond
    BY <1>4 DEF RxConnected
  <2>3. \A e \in Events : Owes(q, e) => Owes(q', e)
    <3>1. Arm(q, "EV10") \in QueueType
      BY <1>a, <1>b, QueueOps
    <3> QED BY <1>4, <1>a, <1>b, <3>1, OwesKept DEF RxConnected
  <2> QED BY <1>2, <1>b, <2>1, <2>2, <2>3
          DEF DInv, DeadlineInvariant, Hushed, PendingOwed, ConfirmOwed, WindowShape,
              ScanOwed, TickOwed, CampOwed, TornDown, Terminal
<1>5. CASE TxDoneTombstone
  <2>1. /\ link'.state = link.state /\ link'.boot = link.boot
        /\ link'.confirm = "none" /\ link'.wd = link.wd
        /\ \/ link'.ev10 = link.ev10 /\ ~link'.burst
           \/ ~link'.ev10 /\ ~link'.burst /\ link.state = "pairing"
    BY <1>5, <1>a DEF TxDoneTombstone, AbortBurst, LinkType
  <2>2. bond' = bond
    BY <1>5 DEF TxDoneTombstone
  <2>3. /\ \A e \in {"PERSIST", "BOOT"} : Owes(q, e) => Owes(q', e)
        /\ Owes(q', "RESTART")
        /\ link'.ev10 = link.ev10 \/ link'.state = "connected"
             => (Owes(q, "TIMEOUT") => Owes(q', "TIMEOUT"))
    <3>1. CASE q' = Post(Cancel(q, {"CONFIRM"}), "RESTART")
      <4>1. Cancel(q, {"CONFIRM"}) \in QueueType
        BY <1>a, QueueOps
      <4> QED BY <1>a, <1>b, <3>1, <4>1, OwesKept, OwesNew
    <3>2. CASE /\ link.ev10 /\ link.state = "pairing" /\ ~link'.ev10
               /\ q' = Post(Cancel(Disarm(GridStop(q, "ACK"), {"EV10"}),
                            {"PREP", "ACK", "CONFIRM"}), "RESTART")
      <4> DEFINE s1 == GridStop(q, "ACK")
                 s2 == Disarm(s1, {"EV10"})
                 s3 == Cancel(s2, {"PREP", "ACK", "CONFIRM"})
      <4>1. s1 \in QueueType /\ s2 \in QueueType /\ s3 \in QueueType
        BY <1>a, <1>b, QueueOps
      <4>2. \A e \in Events : Owes(q, e) => Owes(s1, e)
        BY <1>a, <1>b, OwesKept
      <4>3. \A e \in {"PERSIST", "BOOT"} : Owes(s1, e) => Owes(s2, e)
        BY <1>b, <4>1, OwesKept
      <4>4. \A e \in {"PERSIST", "BOOT"} : Owes(s2, e) => Owes(s3, e)
        BY <1>b, <4>1, OwesKept
      <4>5. \A e \in {"PERSIST", "BOOT"} : Owes(s3, e) => Owes(q', e)
        BY <1>b, <3>2, <4>1, OwesKept
      <4>6. Owes(q', "RESTART")
        BY <1>b, <3>2, <4>1, OwesNew
      <4> HIDE DEF s1, s2, s3
      <4> QED BY <1>b, <2>1, <3>2, <4>2, <4>3, <4>4, <4>5, <4>6
    <3> QED BY <1>5, <1>a, <3>1, <3>2 DEF TxDoneTombstone, LinkType
  <2> QED BY <1>2, <1>b, <2>1, <2>2, <2>3
          DEF DInv, DeadlineInvariant, Hushed, PendingOwed, ConfirmOwed, WindowShape,
              ScanOwed, TickOwed, CampOwed, TornDown, Terminal
<1>6. CASE TxFail
  <2> DEFINE scan == link.ev10 /\ link.state = "pairing"
             s == IF link.burst THEN AbortBurstQ(q) ELSE q
  <2>1. /\ link'.state = link.state /\ link'.ev10 = link.ev10
        /\ link'.boot = link.boot /\ ~link'.burst
        /\ link'.confirm = link.confirm /\ link'.wd = link.wd
    BY <1>6, <1>a DEF TxFail, AbortBurst, LinkType
  <2>2. bond' = bond
    BY <1>6 DEF TxFail
  <2>3. q' = IF scan THEN Post(GridStop(s, "ACK"), "PREP") ELSE Post(s, "RESTART")
    BY <1>6 DEF TxFail
  <2>4. s \in QueueType /\ GridStop(s, "ACK") \in QueueType
    BY <1>a, <1>b, QueueOps, QueueMacros
  <2>5. \A e \in Events \ {"TX15B"} : Owes(q, e) => Owes(s, e)
    BY <1>a, MacrosKept
  <2>6. \A e \in Events : Owes(s, e) => Owes(q', e)
    <3>1. \A e \in Events : Owes(s, e) => Owes(GridStop(s, "ACK"), e)
      BY <1>b, <2>4, OwesKept
    <3> HIDE DEF s, scan
    <3> QED BY <1>b, <2>3, <2>4, <3>1, OwesKept
  <2>7. Terminal(link') => Owes(q', "RESTART")
    <3>1. Terminal(link') => ~scan
      BY <2>1 DEF Terminal
    <3> HIDE DEF s, scan
    <3> QED BY <1>b, <2>3, <2>4, <3>1, OwesNew
  <2> HIDE DEF s, scan
  <2> QED BY <1>2, <1>b, <2>1, <2>2, <2>5, <2>6, <2>7
          DEF DInv, DeadlineInvariant, Hushed, PendingOwed, ConfirmOwed, WindowShape,
              ScanOwed, TickOwed, CampOwed, TornDown, Terminal
<1> QED BY <1>3, <1>4, <1>5, <1>6

\* A promotion arms the supervision timer, and the deadline of a tentative
\* pair; after a give-up's claim none can come.
LEMMA PromoteStep ==
  ASSUME DInv, TxDonePromote \/ TxDoneRekey
  PROVE  DeadlineInvariant'
<1>a. q \in QueueType /\ link \in LinkType /\ bond \in BondType
  BY DEF DInv, TypeOK
<1>b. /\ \A e \in {"RESTART", "PREP", "PERSIST", "CONFIRM", "BOOT", "TIMEOUT"} :
           e \in Events
      /\ "POLL" \in Grids
  BY Names DEF Grids
<1>1. Preempts /\ UNCHANGED quiesced
  BY DEF TxDonePromote, TxDoneRekey, Sent
<1>2. /\ ~quiesced /\ pc'.at = pc.at /\ pc'.saw = pc.saw /\ pc'.conn = pc.conn
      /\ (pc.at # "idle" => pc'.busy) /\ ~pc.busy
  BY <1>1, PreemptsAt
<1>3. CASE TxDonePromote
  <2> DEFINE b == CommitRam(bond)
             s == GridStart(q, "POLL")
             s1 == IF link.fresh THEN PostDelayed(s, "CONFIRM") ELSE ArmPersistQ(b, s)
  <2>1. /\ bond' = IF link.fresh THEN b ELSE ArmPersist(b)
        /\ q' = Supervise(s1)
        /\ link.burst
    BY <1>3 DEF TxDonePromote
  <2>2. /\ link'.state = "connected" /\ ~link'.ev10 /\ link'.boot = link.boot
        /\ ~link'.burst /\ link'.wd = link.wd
        /\ link'.confirm = IF link.fresh THEN "waitRx" ELSE "none"
    BY <1>3, <1>a DEF TxDonePromote, AbortBurst, LinkType
  <2>3. s \in QueueType /\ s1 \in QueueType
    BY <1>a, <1>b, QueueOps, QueueMacros
  <2>4. \A e \in Events : Owes(q, e) => Owes(q', e)
    <3>1. \A e \in Events : Owes(q, e) => Owes(s, e)
      BY <1>a, <1>b, OwesKept
    <3>2. \A e \in Events : Owes(s, e) => Owes(s1, e)
      BY <1>b, <2>3, OwesKept, MacrosKept
    <3>3. \A e \in Events : Owes(s1, e) => Owes(q', e)
      BY <2>1, <2>3, MacrosKept
    <3> HIDE DEF s, s1
    <3> QED BY <3>1, <3>2, <3>3
  <2>5. Owes(q', "TIMEOUT")
    BY <2>1, <2>3, MacrosNew
  <2>6. link.fresh => Owes(q', "CONFIRM")
    <3>1. link.fresh => Owes(s1, "CONFIRM")
      BY <1>b, <2>3, OwesNew
    <3> HIDE DEF s1
    <3> QED BY <1>b, <2>1, <2>3, <3>1, MacrosKept
  <2>7. bond'.pending => Owes(q', "PERSIST")
    <3>1. b.pending = bond.pending /\ b \in BondType
      BY <1>a DEF BondType, CommitRam
    <3>2. CASE ~link.fresh /\ MustPersist(b)
      <4>1. Owes(s1, "PERSIST")
        BY <2>3, <3>2, MacrosNew
      <4> HIDE DEF s1
      <4> QED BY <1>b, <2>1, <2>3, <4>1, MacrosKept
    <3>3. CASE ~(~link.fresh /\ MustPersist(b))
      <4>1. bond' = b
        BY <2>1, <3>3 DEF ArmPersist
      <4> QED BY <1>b, <2>4, <3>1, <4>1 DEF DInv, DeadlineInvariant, PendingOwed
    <3> QED BY <3>2, <3>3
  <2> HIDE DEF b, s, s1
  <2> QED BY <1>2, <1>b, <2>1, <2>2, <2>4, <2>5, <2>6, <2>7, <1>1
          DEF DInv, DeadlineInvariant, Hushed, PendingOwed, ConfirmOwed, WindowShape,
              ScanOwed, TickOwed, CampOwed, TornDown, Terminal
<1>4. CASE TxDoneRekey
  <2> DEFINE s == Cancel(q, {"PREP"})
             s1 == Supervise(s)
  <2>1. q' = HandGrid(s1) /\ bond' = bond /\ link.ev10
    BY <1>4 DEF TxDoneRekey
  <2>2. /\ link'.state = "connected" /\ ~link'.ev10 /\ link'.boot = link.boot
        /\ link'.burst = link.burst /\ link'.wd = link.wd
        /\ link'.confirm = link.confirm
    BY <1>4, <1>a DEF TxDoneRekey, LinkType
  <2>3. s \in QueueType /\ s1 \in QueueType
    BY <1>a, QueueOps, QueueMacros
  <2>4. \A e \in Events \ {"PREP"} : Owes(q, e) => Owes(q', e)
    <3>1. \A e \in Events \ {"PREP"} : Owes(q, e) => Owes(s, e)
      BY <1>a, OwesKept
    <3>2. \A e \in Events : Owes(s, e) => Owes(s1, e)
      BY <2>3, MacrosKept
    <3>3. \A e \in Events : Owes(s1, e) => Owes(q', e)
      BY <2>1, <2>3, MacrosKept
    <3> HIDE DEF s, s1
    <3> QED BY <3>1, <3>2, <3>3
  <2>5. Owes(q', "TIMEOUT")
    <3>1. Owes(s1, "TIMEOUT")
      BY <2>3, MacrosNew
    <3> HIDE DEF s1
    <3> QED BY <1>b, <2>1, <2>3, <3>1, MacrosKept
  <2> HIDE DEF s, s1
  <2> QED BY <1>2, <1>b, <2>1, <2>2, <2>4, <2>5, <1>1
          DEF DInv, DeadlineInvariant, Hushed, PendingOwed, ConfirmOwed, WindowShape,
              ScanOwed, TickOwed, CampOwed, TornDown, Terminal
<1> QED BY <1>3, <1>4

\* An expiry turns what is armed into what is posted.
LEMMA TimersStep ==
  ASSUME DInv, Timers
  PROVE  DeadlineInvariant'
<1>a. q \in QueueType
  BY DEF DInv, TypeOK
<1>b. /\ \A e \in {"RESTART", "ACK", "POLL", "PERSIST", "CONFIRM", "BOOT", "TIMEOUT"} :
           e \in Events
      /\ "halted" \in Grids
  BY Names DEF Grids
<1>1. ~quiesced /\ ~quiesced' /\ UNCHANGED <<link, bond, pc>>
  <2>1. CASE GridPosts
    BY <2>1 DEF GridPosts
  <2>2. CASE GridSends
    BY <2>2 DEF GridSends
  <2>3. CASE \E t \in OneShots : OneShotFires(t)
    BY <2>3 DEF OneShotFires, Expires
  <2>4. CASE \E e \in Events : DelayFires(e)
    BY <2>4 DEF DelayFires, Expires
  <2> QED BY <2>1, <2>2, <2>3, <2>4 DEF Timers
<1>2. \A e \in Events : Owes(q, e) => Owes(q', e)
  <2>1. CASE GridPosts \/ GridSends
    BY <1>a, <1>b, <2>1, OwesKept DEF GridPosts, GridSends
  <2>2. ASSUME NEW t \in OneShots, OneShotFires(t)
        PROVE  \A e \in Events : Owes(q, e) => Owes(q', e)
    BY <1>a, <2>2, Names DEF OneShotFires, Owes, Post, QueueType
  <2>3. ASSUME NEW x \in Events, DelayFires(x)
        PROVE  \A e \in Events : Owes(q, e) => Owes(q', e)
    BY <1>a, <2>3 DEF DelayFires, Owes, Post, QueueType
  <2> QED BY <2>1, <2>2, <2>3 DEF Timers
<1>3. SameFlags /\ SamePoint
  BY <1>1 DEF SameFlags, SamePoint
<1> QED BY <1>b, <1>1, <1>2, <1>3, FlagsStep

\* The main loop's calls run between two handlers.
LEMMA CallsStep ==
  ASSUME DInv, Calls \/ TombstoneBond
  PROVE  DeadlineInvariant'
<1>a. q \in QueueType /\ link \in LinkType /\ bond \in BondType /\ pc \in PcType
  BY DEF DInv, TypeOK
<1>b. \A e \in {"RESTART", "QUIESCE", "PERSIST", "CONFIRM", "BOOT", "TIMEOUT"} : e \in Events
  BY Names
<1>1. ~quiesced /\ ~quiesced' /\ SameFlags
  BY <1>a DEF Calls, BondErase, QuiesceRequest, DiagIntervene, TombstoneBond, Foreground,
     SameFlags, LinkType, DInv, DeadlineInvariant, Hushed
<1>2. SamePoint
  <2>1. \A p : Goto(p).at = p
    BY <1>a DEF PcType, Goto
  <2> QED BY <2>1 DEF Calls, BondErase, QuiesceRequest, DiagIntervene, TombstoneBond,
                      Foreground, SamePoint, Idle
<1>3. CASE BondErase \/ QuiesceRequest
  <2>1. \A e \in Events : Owes(q, e) => Owes(q', e)
    BY <1>a, <1>b, <1>3, OwesKept DEF BondErase, QuiesceRequest
  <2>2. bond' = bond
    BY <1>3 DEF BondErase, QuiesceRequest
  <2> QED BY <1>b, <1>1, <1>2, <2>1, <2>2, FlagsStep
<1>4. CASE DiagIntervene
  <2> DEFINE s == Cancel(q, {"RESTART"})
  <2>1. s \in QueueType /\ \A e \in Events \ {"RESTART"} : Owes(q, e) => Owes(s, e)
    BY <1>a, QueueOps, OwesKept
  <2>2. (\E ok : q' = Retry(s, ok)) \/ q' = s
    BY <1>4 DEF DiagIntervene
  <2>3. \A e \in Events \ {"RESTART"} : Owes(q, e) => Owes(q', e)
    BY <2>1, <2>2, MacrosKept
  <2>4. bond' = bond /\ "diag" \in Commands
    BY <1>4 DEF DiagIntervene
  <2> QED BY <1>b, <1>1, <1>2, <2>3, <2>4, FlagsStep
<1>5. CASE TombstoneBond
  <2>1. ~bond'.pending
    BY <1>5, <1>a DEF TombstoneBond, ClearBond, BondType
  <2>2. \A e \in Events \ {"PERSIST"} : Owes(q, e) => Owes(q', e)
    BY <1>5, <1>a, OwesKept DEF TombstoneBond
  <2> QED BY <1>b, <1>1, <1>2, <2>1, <2>2, FlagsStep
<1> QED BY <1>3, <1>4, <1>5 DEF Calls

\* Silence and a lost completion touch nothing anything waits for.
LEMMA SilentStep ==
  ASSUME DInv, Ages \/ CompletionLost
  PROVE  DeadlineInvariant'
<1>1. SameFlags
  BY DEF Ages, CompletionLost, SameFlags, DInv, TypeOK, LinkType
<1>2. UNCHANGED <<bond, q, pc, quiesced>>
  BY DEF Ages, CompletionLost
<1>3. radio'.mode \in {radio.mode, "off"}
  BY DEF Ages, CompletionLost, Shut, DInv, TypeOK, RadioType
<1> QED BY <1>1, <1>2, <1>3
        DEF DInv, DeadlineInvariant, Hushed, PendingOwed, ConfirmOwed, WindowShape,
            ScanOwed, TickOwed, CampOwed, TornDown, Terminal, SameFlags

-----------------------------------------------------------------------------
(* The induction *)

\* At boot nothing waits.
LEMMA DeadlineInit == Init => DeadlineInvariant
BY DEF Init, BootLink, BootBond, Idle, DeadlineInvariant, Hushed, PendingOwed,
       ConfirmOwed, WindowShape, ScanOwed, TickOwed, CampOwed, TornDown, Terminal

LEMMA DeadlineStep ==
  ASSUME DInv, Next
  PROVE  DeadlineInvariant'
<1>1. CASE Handlers
  BY <1>1, WriteStep, EndsStep, WindowStep, ConfirmStep, RestartStep, CalmStep,
     BurstStep, ReacquireStep, GiveupStep DEF Handlers
<1>2. CASE Continues
  BY <1>2, WriteStep, WindowStep, ConfirmStep, RestartStep, ReacquireStep,
     GiveupStep, CallsStep DEF Continues
<1>3. CASE Receives
  <2>1. Preempts /\ UNCHANGED quiesced
    BY <1>3 DEF Receives, RxNoise, RxScanNoise, RxPairAccept, RxPairRekey,
                RxConnected, Received
  <2>2. ~quiesced'
    BY <2>1, PreemptsAt
  <2> QED BY <1>3, <2>1, <2>2, NoiseStep, DecideStep DEF Receives
<1>4. CASE Sends
  <2>1. Preempts /\ UNCHANGED quiesced
    BY <1>4 DEF Sends, TxDoneBurst, TxDoneTombstone, TxDonePromote, TxDoneRekey,
                TxDonePoll, TxDoneStray, TxFail, Sent
  <2>2. ~quiesced'
    BY <2>1, PreemptsAt
  <2> QED BY <1>4, <2>1, <2>2, NoiseStep, DecideStep, PromoteStep DEF Sends
<1>5. CASE Timers \/ Calls \/ Ages \/ CompletionLost
  BY <1>5, TimersStep, CallsStep, SilentStep
<1>6. CASE Reset
  BY <1>6 DEF Reset, BootLink, BootBond, Idle, DeadlineInvariant, Hushed,
      PendingOwed, ConfirmOwed, WindowShape, ScanOwed, TickOwed, CampOwed,
      TornDown, Terminal
<1> QED BY <1>1, <1>2, <1>3, <1>4, <1>5, <1>6 DEF Next

\* DeadlineInvariant holds in every reachable state, for any keyboards, either
\* executor, any window, any commands and any number of faults.
THEOREM DeadlineInvariantHolds == Spec => []DeadlineInvariant
<1>1. Init => DeadlineInvariant
  BY DeadlineInit
<1>2. TypeOK /\ BondInvariant /\ DeadlineInvariant /\ [Next]_vars => DeadlineInvariant'
  <2> SUFFICES ASSUME TypeOK, BondInvariant, DeadlineInvariant, [Next]_vars
               PROVE  DeadlineInvariant'
    OBVIOUS
  <2>1. CASE Next
    BY <2>1, DeadlineStep DEF DInv
  <2>2. CASE UNCHANGED vars
    BY <2>2 DEF vars, DeadlineInvariant, Hushed, PendingOwed, ConfirmOwed,
       WindowShape, ScanOwed, TickOwed, CampOwed, TornDown, Terminal
  <2> QED BY <2>1, <2>2
<1> QED BY <1>1, <1>2, TypeCorrect, BondInvariantHolds, PTL DEF Spec

-----------------------------------------------------------------------------
(* What the runs check *)

\* A bond record waiting to be written has RF_EVT_PERSIST_BOND posted, not
\* merely delayed: no cancellation on any path (rf_stop_all, rf_abort, the
\* fresh pair, the tombstone) leaves rf_bond_pending behind.
THEOREM PendingHasEventHolds == Spec => []PendingHasEvent
<1>1. BondInvariant /\ DeadlineInvariant => PendingHasEvent
  BY Names DEF BondInvariant, WriteIsProven, DeadlineInvariant, PendingOwed, Owes,
               PendingHasEvent
<1> QED BY <1>1, BondInvariantHolds, DeadlineInvariantHolds, PTL

\* A tentative pair has its confirm deadline (rf_confirm_state is never left
\* waiting for nothing).
THEOREM ConfirmHasDeadlineHolds == Spec => []ConfirmHasDeadline
<1>1. TypeOK /\ DeadlineInvariant => ConfirmHasDeadline
  BY DEF DeadlineInvariant, ConfirmOwed, Owes, ConfirmHasDeadline, Quiet, Outstanding
<1> QED BY <1>1, TypeCorrect, DeadlineInvariantHolds, PTL

\* A connected link and an EV10 scan have the supervision timer armed or its
\* expiry posted, on either executor and after any sequence of completions.
THEOREM LinkSupervisedHolds == Spec => []LinkSupervised
<1>1. DeadlineInvariant => LinkSupervised
  BY Names DEF DeadlineInvariant, ScanOwed, TornDown, Owes, LinkSupervised, Quiet, Due,
               Outstanding
<1> QED BY <1>1, DeadlineInvariantHolds, PTL

\* An open boot window has its next tick, through every race with the sink.
THEOREM WindowTicksHolds == Spec => []WindowTicks
<1>1. DeadlineInvariant => WindowTicks
  BY Names DEF DeadlineInvariant, TickOwed, TornDown, Owes, WindowTicks, Quiet, Due,
               Outstanding
<1> QED BY <1>1, DeadlineInvariantHolds, PTL

\* Once RF_EVT_QUIESCE is done nothing of the task is armed, posted or on the
\* air, and no record is waiting: the reboot cuts nothing off.
THEOREM QuiesceSilentHolds == Spec => []QuiesceSilent
<1>1. DeadlineInvariant => QuiesceSilent
  BY DEF DeadlineInvariant, Hushed, QuiesceSilent
<1> QED BY <1>1, DeadlineInvariantHolds, PTL

\* Unless RF_DiagIntervene deafens it, a terminal camp has the liveness
\* watchdog's tick or a restart that starts it, whatever arm was refused and
\* whatever completion was lost.
THEOREM CampWatchedHolds == "diag" \notin Commands => (Spec => []CampWatched)
<1> SUFFICES ASSUME "diag" \notin Commands
             PROVE  Spec => []CampWatched
  OBVIOUS
<1>1. DeadlineInvariant => CampWatched
  BY Names DEF DeadlineInvariant, CampOwed, TickOwed, TornDown, Owes, CampWatched,
               Quiet, Watched, Due, Outstanding, Terminal
<1> QED BY <1>1, DeadlineInvariantHolds, PTL

-----------------------------------------------------------------------------
(* The polls of CH570 *)

\* On CH570 the periodic timer is the polls' while the link is connected, but
\* for the end of a give-up, whose camp takes the link down.
Polled ==
  ~quiesced /\ pc.at \notin {"giveup2", "giveup3"} /\ link.state = "connected"
    => q.grid = "POLL"

\* Only the grid's own operations move it.
LEMMA GridKept ==
  ASSUME NEW s \in QueueType
  PROVE  /\ \A x \in Events : /\ Post(s, x).grid = s.grid
                              /\ PostDelayed(s, x).grid = s.grid
         /\ \A E : Cancel(s, E).grid = s.grid /\ AbortBurstQ(Cancel(s, E)).grid = s.grid
         /\ \A t : Arm(s, t).grid = s.grid
         /\ \A T : Disarm(s, T).grid = s.grid
         /\ Return(s).grid = s.grid /\ WatchdogTimer(s).grid = s.grid
         /\ Supervise(s).grid = s.grid
         /\ \A ok : Retry(s, ok).grid = s.grid
         /\ \A b : ArmPersistQ(b, s).grid = s.grid
<1> USE DEF QueueType
<1>1. \A x \in Events : Post(s, x).grid = s.grid /\ PostDelayed(s, x).grid = s.grid
  BY DEF Post, PostDelayed
<1>2. \A E : Cancel(s, E).grid = s.grid /\ AbortBurstQ(Cancel(s, E)).grid = s.grid
  BY DEF Cancel, AbortBurstQ
<1>3. \A t : Arm(s, t).grid = s.grid
  BY DEF Arm
<1>4. \A T : Disarm(s, T).grid = s.grid
  BY DEF Disarm
<1>5. Return(s).grid = s.grid /\ WatchdogTimer(s).grid = s.grid /\ Supervise(s).grid = s.grid
  BY DEF Return, WatchdogTimer, Arm, Supervise, Disarm
<1>6. "RESTART" \in Events /\ "PERSIST" \in Events
  BY Names
<1>7. \A ok : Retry(s, ok).grid = s.grid
  BY <1>1, <1>6 DEF Retry
<1>8. \A b : ArmPersistQ(b, s).grid = s.grid
  <2>1. Post(s, "PERSIST").grid = s.grid
    BY DEF Post
  <2> QED BY <2>1 DEF ArmPersistQ
<1> QED BY <1>1, <1>2, <1>3, <1>4, <1>5, <1>7, <1>8

\* So a handler that returns with none of them leaves the grid.
LEMMA GridTook ==
  ASSUME q \in QueueType, NEW x \in Events
  PROVE  Took(x) \in QueueType /\ Took(x).grid = q.grid
BY TookType DEF Took, QueueType

\* Every step of CH570 either leaves the grid to the polls or the link down.
LEMMA GridStep ==
  ASSUME ~Tmos, TypeOK, Next, link.state = "connected", ~quiesced'
  PROVE  \/ q'.grid = q.grid
         \/ link'.state # "connected"
         \/ pc'.at \in {"giveup2", "giveup3"}
         \/ q'.grid = "POLL"
<1>a. q \in QueueType /\ pc \in PcType /\ link \in LinkType
  BY DEF TypeOK
<1>c. \A l \in LinkType : FreshPair(l).state = "pairing"
  BY DEF FreshPair, ForgetAttempt, AbortBurst, LinkType
<1>e. /\ "PERSIST" \in Events /\ "QUIESCE" \in Events /\ "BOOT" \in Events
      /\ "CONFIRM" \in Events /\ "RESTART" \in Events /\ "POST_RX" \in Events
      /\ "PREP" \in Events /\ "ACK" \in Events /\ "POLL" \in Events
      /\ "TX15" \in Events /\ "TX15B" \in Events /\ "TIMEOUT" \in Events
  BY Names
<1>f. \A x \in Events : /\ Took(x) \in QueueType /\ Took(x).grid = q.grid
                        /\ Return(Took(x)).grid = q.grid
  BY <1>a, GridTook, GridKept
<1>1. CASE PersistSnapshot \/ CampTick \/ BootWindowStep \/ ConfirmClaim
  <2>1. CASE PersistSnapshot
    BY <1>a, <1>e, <1>f, <2>1 DEF PersistSnapshot
  <2>2. CASE CampTick
    <3>1. ~Terminal(link)
      BY DEF Terminal
    <3> QED BY <1>a, <1>e, <2>2, <3>1, GridTook, GridKept DEF CampTick
  <2>3. CASE BootWindowStep
    <3>1. q' \in {Took("BOOT"), Return(Took("BOOT"))}
      BY <2>3 DEF BootWindowStep
    <3> QED BY <1>e, <1>f, <3>1
  <2>4. CASE ConfirmClaim
    BY <1>a, <1>e, <2>4, GridTook DEF ConfirmClaim
  <2> QED BY <1>1, <2>1, <2>2, <2>3, <2>4
<1>2. CASE Start
  BY <1>2, <1>a DEF Start, LinkType, WatchdogOn
<1>3. CASE Quiesce
  BY <1>3 DEF Quiesce
<1>4. CASE RestartFallback \/ ReacquireFresh
  BY <1>4, <1>a, <1>c DEF RestartFallback, ReacquireFresh
<1>5. CASE RestartDrop \/ RestartRearm \/ PostPollRx \/ PairPrep \/ SendPairAck \/ SendPoll
  <2>1. CASE RestartDrop \/ RestartRearm \/ PostPollRx \/ SendPoll
    BY <1>e, <1>f, <2>1 DEF RestartDrop, RestartRearm, PostPollRx, SendPoll
  <2>2. CASE PairPrep \/ SendPairAck
    <3>1. \/ q' \in {Return(PostDelayed(Took("PREP"), "PREP")), Return(Took("PREP"))}
          \/ q' = Return(Took("ACK"))
          \/ q' = Return(GridStart(Took("ACK"), "ACK")) /\ link.state = "pairing"
      BY <2>2 DEF PairPrep, SendPairAck
    <3>2. /\ PostDelayed(Took("PREP"), "PREP") \in QueueType
          /\ PostDelayed(Took("PREP"), "PREP").grid = q.grid
      BY <1>e, <1>f, QueueOps, GridKept
    <3> QED BY <1>e, <1>f, <3>1, <3>2, GridKept
  <2> QED BY <1>5, <2>1, <2>2
<1>6. CASE TxPair15 \/ TxPair15B
  <2>1. PICK x \in {"TX15", "TX15B"} :
          q' = Return(Took(x)) \/ link' = FreshPair(link)
    BY <1>6 DEF TxPair15, TxPair15B, TxPair
  <2> QED BY <1>a, <1>c, <1>e, <1>f, <2>1
<1>7. CASE TimeoutAlive \/ ReacquireKeysUp \/ GiveupStart
  <2>1. /\ Took("TIMEOUT") \in QueueType /\ Took("TIMEOUT").grid = q.grid
        /\ Supervise(Took("TIMEOUT")) \in QueueType
    BY <1>a, <1>e, GridTook, QueueMacros
  <2>2. \/ q' = Took("TIMEOUT") \/ q' = Return(Took("TIMEOUT"))
        \/ q' = Return(Supervise(Took("TIMEOUT")))
    BY <1>7 DEF TimeoutAlive, ReacquireKeysUp, GiveupStart
  <2> QED BY <2>1, <2>2, GridKept
<1>8. CASE PersistAlready \/ PersistReadback
  BY <1>8, <1>a, GridKept DEF PersistAlready, PersistReadback, PersistReturn
<1>9. CASE PersistErase
  BY <1>9 DEF PersistErase
<1>10. CASE PersistWrite
  BY <1>10, <1>a DEF PersistWrite, WatchdogOn, LinkType
<1>11. CASE BootWindowListen
  <2>1. \/ q' = Return(Arm(q, "BOOT"))
        \/ \E ok : q' = Return(WatchdogTimer(Retry(q, ok)))
    BY <1>11 DEF BootWindowListen
  <2>2. /\ Arm(q, "BOOT") \in QueueType
        /\ \A ok : Retry(q, ok) \in QueueType /\ WatchdogTimer(Retry(q, ok)) \in QueueType
    BY <1>a, Names, QueueOps, QueueMacros
  <2> QED BY <1>a, <2>1, <2>2, GridKept
<1>12. CASE ConfirmAct
  <2>1. \/ link' = FreshPair(link)
        \/ q' \in {Return(q), Return(ArmPersistQ(bond, q)), Return(Supervise(ArmPersistQ(bond, q)))}
    BY <1>12 DEF ConfirmAct
  <2>2. ArmPersistQ(bond, q) \in QueueType /\ Supervise(ArmPersistQ(bond, q)) \in QueueType
    BY <1>a, QueueMacros
  <2> QED BY <1>a, <1>c, <2>1, <2>2, GridKept
<1>13. CASE RestartFinish
  <2>1. ~Unwatched(link)
    BY DEF Unwatched, Terminal
  <2> DEFINE s0 == Retry(q, ~radio.failed)
             s1 == Cancel(s0, {"CONFIRM"})
             s2 == ArmPersistQ(bond, s1)
  <2>2. q' \in {Return(s0), Return(Supervise(s2))}
    BY <1>13, <2>1 DEF RestartFinish
  <2>3. s0 \in QueueType /\ s1 \in QueueType /\ s2 \in QueueType /\ Supervise(s2) \in QueueType
    BY <1>a, QueueOps, QueueMacros
  <2>4. s0.grid = q.grid /\ s1.grid = s0.grid /\ s2.grid = s1.grid
        /\ Supervise(s2).grid = s2.grid /\ Return(s0).grid = s0.grid
        /\ Return(Supervise(s2)).grid = Supervise(s2).grid
    BY <1>a, <2>3, GridKept
  <2> HIDE DEF s0, s1, s2
  <2> QED BY <2>2, <2>4
<1>14. CASE ReacquireTeardown
  BY <1>14, <1>a DEF ReacquireTeardown, LinkType, AbortBurst, CloseWindow
<1>15. CASE ReacquireScan
  BY <1>15, <1>a DEF ReacquireScan, LinkType
<1>16. CASE GiveupTeardown \/ GiveupClaim
  BY <1>16, <1>a DEF GiveupTeardown, GiveupClaim, GoOn, PcType
<1>17. CASE GiveupCamp
  BY <1>17, <1>a, <1>c DEF GiveupCamp, WatchdogOn, LinkType
<1>18. CASE Receives
  <2>1. CASE RxNoise \/ RxScanNoise \/ RxConnected
    <3>1. Arm(q, "EV10") \in QueueType /\ Arm(q, "EV10").grid = q.grid
      BY <1>a, Names, QueueOps, GridKept
    <3>2. q' \in {q, Post(q, "RESTART"), Post(Arm(q, "EV10"), "RESTART")}
      BY <2>1 DEF RxNoise, RxScanNoise, RxConnected
    <3> QED BY <1>a, <1>e, <3>1, <3>2, GridKept
  <2>2. CASE RxPairAccept \/ RxPairRekey
    BY <2>2 DEF RxPairAccept, RxPairRekey
  <2> QED BY <1>18, <2>1, <2>2 DEF Receives
<1>19. CASE Sends
  <2>1. CASE TxDoneBurst \/ TxDonePoll \/ TxDoneStray
    BY <1>a, <1>e, <2>1, GridKept DEF TxDoneBurst, TxDonePoll, TxDoneStray
  <2>2. CASE TxDoneTombstone
    <3>1. Cancel(q, {"CONFIRM"}) \in QueueType
      BY <1>a, QueueOps
    <3> QED BY <1>a, <1>e, <2>2, <3>1, GridKept DEF TxDoneTombstone
  <2>3. CASE TxDonePromote
    <3> DEFINE s == GridStart(q, "POLL")
    <3>1. s.grid = "POLL" /\ s \in QueueType
      BY <1>a, QueueOps DEF GridStart, Grids, QueueType
    <3>2. q' \in {Supervise(PostDelayed(s, "CONFIRM")), Supervise(ArmPersistQ(CommitRam(bond), s))}
      BY <2>3 DEF TxDonePromote
    <3>3. /\ PostDelayed(s, "CONFIRM") \in QueueType
          /\ ArmPersistQ(CommitRam(bond), s) \in QueueType
      BY <1>e, <3>1, QueueOps, QueueMacros
    <3> HIDE DEF s
    <3> QED BY <1>e, <3>1, <3>2, <3>3, GridKept
  <2>4. CASE TxDoneRekey \/ TxFail
    BY <2>4 DEF TxDoneRekey, TxFail
  <2> QED BY <1>19, <2>1, <2>2, <2>3, <2>4 DEF Sends
<1>20. CASE Timers
  <2>1. CASE GridPosts \/ GridSends
    BY <2>1 DEF GridPosts, GridSends
  <2>2. ASSUME NEW t \in OneShots, OneShotFires(t)
        PROVE  q'.grid = q.grid
    BY <1>a, <2>2 DEF OneShotFires, Post, QueueType
  <2>3. ASSUME NEW e \in Events, DelayFires(e)
        PROVE  q'.grid = q.grid
    BY <1>a, <2>3 DEF DelayFires, Post, QueueType
  <2> QED BY <1>20, <2>1, <2>2, <2>3 DEF Timers
<1>21. CASE Calls \/ TombstoneBond
  <2>1. ~DiagIntervene
    BY DEF DiagIntervene, Terminal
  <2> QED BY <1>21, <1>a, <1>e, <2>1, GridKept DEF Calls, BondErase, QuiesceRequest, TombstoneBond
<1>22. CASE Ages \/ CompletionLost
  BY <1>22 DEF Ages, CompletionLost
<1>23. CASE Reset
  BY <1>23 DEF Reset, BootLink
<1> QED BY <1>1, <1>2, <1>3, <1>4, <1>5, <1>6, <1>7, <1>8, <1>9, <1>10, <1>11, <1>12,
           <1>13, <1>14, <1>15, <1>16, <1>17, <1>18, <1>19, <1>20, <1>21, <1>22, <1>23
        DEF Next, Handlers, Continues

\* A reboot is not taken back.
LEMMA QuiescedStays ==
  ASSUME Next, quiesced, ~Reset
  PROVE  quiesced'
<1>1. CASE Handlers
  BY <1>1 DEF Handlers, PersistSnapshot, Quiesce, Start, CampTick, BootWindowStep,
     ConfirmClaim, RestartFallback, RestartDrop, RestartRearm, PostPollRx, PairPrep,
     SendPairAck, SendPoll, TxPair15, TxPair15B, TimeoutAlive, ReacquireFresh,
     ReacquireKeysUp, GiveupStart
<1>2. CASE Continues
  BY <1>2 DEF Continues, PersistAlready, PersistErase, PersistWrite, PersistReadback,
     BootWindowListen, ConfirmAct, RestartFinish, ReacquireTeardown, ReacquireScan,
     GiveupTeardown, GiveupClaim, GiveupCamp, TombstoneBond
<1>3. CASE Receives \/ Sends
  BY <1>3 DEF Receives, Sends, RxNoise, RxScanNoise, RxPairAccept, RxPairRekey,
     RxConnected, TxDoneBurst, TxDoneTombstone, TxDonePromote, TxDoneRekey,
     TxDonePoll, TxDoneStray, TxFail
<1>4. CASE Timers \/ Calls \/ Ages \/ CompletionLost
  BY <1>4 DEF Timers, Calls, GridPosts, GridSends, OneShotFires, DelayFires,
     BondErase, QuiesceRequest, DiagIntervene, Ages, CompletionLost
<1> QED BY <1>1, <1>2, <1>3, <1>4 DEF Next

\* A give-up past its teardown goes on to its camp.
LEMMA GiveupEnds ==
  ASSUME TypeOK, Next, pc.at \in {"giveup2", "giveup3"}, ~Reset
  PROVE  pc'.at \in {"giveup2", "giveup3"} \/ link'.state = "pairing"
<1>a. pc \in PcType /\ link \in LinkType
  BY DEF TypeOK
<1>1. ~Handlers
  BY DEF Handlers, PersistSnapshot, Quiesce, Start, CampTick, BootWindowStep,
     ConfirmClaim, RestartFallback, RestartDrop, RestartRearm, PostPollRx, PairPrep,
     SendPairAck, SendPoll, TxPair15, TxPair15B, TimeoutAlive, ReacquireFresh,
     ReacquireKeysUp, GiveupStart, Lapsed, Turn
<1>2. CASE Continues
  <2>1. GiveupClaim \/ GiveupCamp
    BY <1>2 DEF Continues, PersistAlready, PersistErase, PersistWrite, PersistReadback,
       BootWindowListen, ConfirmAct, RestartFinish, ReacquireTeardown, ReacquireScan,
       GiveupTeardown, TombstoneBond
  <2>2. \A l \in LinkType : FreshPair(l).state = "pairing"
    BY DEF FreshPair, ForgetAttempt, AbortBurst, LinkType
  <2> QED BY <1>a, <2>1, <2>2 DEF GiveupClaim, GiveupCamp, WatchdogOn, GoOn, PcType, LinkType
<1>3. CASE Receives \/ Sends
  BY <1>3, <1>a DEF Receives, Sends, RxNoise, RxScanNoise, RxPairAccept, RxPairRekey,
     RxConnected, TxDoneBurst, TxDoneTombstone, TxDonePromote, TxDoneRekey,
     TxDonePoll, TxDoneStray, TxFail, Received, Sent, Preempts, PcType
<1>4. CASE Timers \/ Calls \/ Ages \/ CompletionLost
  BY <1>4 DEF Timers, Calls, GridPosts, GridSends, OneShotFires, DelayFires, Expires,
     BondErase, QuiesceRequest, DiagIntervene, Foreground, Ages, CompletionLost
<1> QED BY <1>1, <1>2, <1>3, <1>4 DEF Next

LEMMA PolledStep ==
  ASSUME ~Tmos, TypeOK, Next, Polled
  PROVE  Polled'
<1> SUFFICES ASSUME ~quiesced', pc'.at \notin {"giveup2", "giveup3"},
                    link'.state = "connected"
             PROVE  q'.grid = "POLL"
  BY DEF Polled
<1>a. q \in QueueType /\ pc \in PcType /\ link \in LinkType
  BY DEF TypeOK
<1>1. CASE TxDonePromote
  <2> DEFINE s == GridStart(q, "POLL")
  <2>1. s.grid = "POLL" /\ s \in QueueType
    BY <1>a, QueueOps DEF GridStart, Grids, QueueType
  <2>2. q' \in {Supervise(PostDelayed(s, "CONFIRM")), Supervise(ArmPersistQ(CommitRam(bond), s))}
    BY <1>1 DEF TxDonePromote
  <2>3. /\ "CONFIRM" \in Events /\ PostDelayed(s, "CONFIRM") \in QueueType
        /\ ArmPersistQ(CommitRam(bond), s) \in QueueType
    BY <2>1, Names, QueueOps, QueueMacros
  <2> HIDE DEF s
  <2> QED BY <2>1, <2>2, <2>3, GridKept
<1>2. CASE TxDoneRekey
  <2>1. Supervise(Cancel(q, {"PREP"})) \in QueueType
    BY <1>a, QueueOps, QueueMacros
  <2> QED BY <1>2, <2>1 DEF TxDoneRekey, HandGrid, GridStart, QueueType
<1>3. CASE ~TxDonePromote /\ ~TxDoneRekey
  <2>1. link.state = "connected"
    BY <1>3, ConnectStep
  <2>2. CASE Reset
    BY <2>2 DEF Reset, BootLink
  <2>3. CASE ~Reset
    <3>1. ~quiesced
      BY <2>3, QuiescedStays
    <3>2. pc.at \notin {"giveup2", "giveup3"}
      BY <2>3, GiveupEnds
    <3>3. q.grid = "POLL"
      BY <2>1, <3>1, <3>2 DEF Polled
    <3> QED BY <2>1, <3>3, GridStep
  <2> QED BY <2>2, <2>3
<1> QED BY <1>1, <1>2, <1>3

\* On CH570 a connected link is polled for as long as it is connected, whatever
\* the sink does: a re-key hands it the ACK grid, a promotion starts its own.
THEOREM PollsRunHolds == ~Tmos => (Spec => []PollsRun)
<1> SUFFICES ASSUME ~Tmos
             PROVE  Spec => []PollsRun
  OBVIOUS
<1>1. Init => Polled
  BY DEF Init, BootLink, Polled
<1>2. TypeOK /\ Polled /\ [Next]_vars => Polled'
  BY PolledStep DEF vars, Polled
<1>3. Polled => PollsRun
  BY DEF Polled, PollsRun, Quiet
<1> QED BY <1>1, <1>2, <1>3, TypeCorrect, PTL DEF Spec

-----------------------------------------------------------------------------
(* The keys of CH59x *)

\* While no transmission is refused or fails on CH59x, every way out of a link
\* is one the keys are up on: the lapse, which sends the keys-up under the
\* mask that leaves the link, and a tentative pair, which no key came over.
KeysUp ==
  /\ link.state # "connected" => ~hostKey
  /\ link.confirm = "waitRx" => ~hostKey
  /\ link.burst => link.state # "connected"
  /\ \/ pc.at \in {"giveup1", "giveup2", "giveup3"}
     \/ pc.at = "confirm" /\ pc.saw = "waitRx"
     => (link.state = "connected" => pc.busy /\ ~hostKey)
  /\ pc.at \in {"reacquire1", "reacquire2"} =>
       link.state = "idle" /\ (link.burst => pc.busy)
  /\ ~link.txfail

\* No fault is left to spend.
NoFaults == Tmos /\ MaxFaults = 0

LEMMA NoRefusal ==
  ASSUME NoFaults, TypeOK
  PROVE  Outcomes = {TRUE} /\ ~(faults < MaxFaults)
BY DEF NoFaults, TypeOK, Outcomes, OutcomesAt

\* A step that neither connects nor leaves a link, and adds no burst
KeepsLink ==
  /\ link'.state = link.state /\ hostKey' = hostKey
  /\ link'.confirm \in {"none", link.confirm}
  /\ link'.burst => link.burst
  /\ link'.txfail = link.txfail
KeepsPoint ==
  \/ pc'.at \notin {"giveup1", "giveup2", "giveup3", "confirm", "reacquire1", "reacquire2"}
  \/ pc'.at = pc.at /\ pc'.saw = pc.saw /\ (pc.busy => pc'.busy)

LEMMA KeepsKeysUp ==
  ASSUME KeysUp, KeepsLink, KeepsPoint
  PROVE  KeysUp'
BY DEF KeysUp, KeepsLink, KeepsPoint

LEMMA KeepingStep ==
  ASSUME NoFaults, TypeOK,
         \/ PersistSnapshot \/ PersistAlready \/ PersistErase \/ PersistWrite
         \/ PersistReadback \/ Quiesce \/ CampTick \/ BootWindowStep
         \/ BootWindowListen \/ RestartDrop \/ RestartRearm \/ RestartFinish
         \/ PostPollRx \/ PairPrep \/ SendPairAck \/ SendPoll \/ TxPair15
         \/ TxPair15B \/ TimeoutAlive \/ TombstoneBond
         \/ RxNoise \/ RxScanNoise \/ RxPairRekey \/ TxDoneBurst
         \/ TxDoneTombstone \/ TxDonePoll \/ TxDoneStray \/ TxFail
         \/ Timers \/ Calls \/ Ages \/ CompletionLost
  PROVE  KeepsLink /\ KeepsPoint
<1>a. link \in LinkType /\ pc \in PcType /\ Tmos
  BY DEF TypeOK, NoFaults
<1>b. \A p : Goto(p).at = p
  BY <1>a DEF PcType, Goto
<1>c. Preempts => pc'.at = pc.at /\ pc'.saw = pc.saw /\ (pc.busy => pc'.busy)
  BY <1>a DEF Preempts, PcType
<1>1. CASE PersistSnapshot \/ PersistAlready \/ PersistErase \/ PersistWrite
           \/ PersistReadback \/ Quiesce
  <2>1. KeepsLink
    BY <1>1, <1>a DEF KeepsLink, PersistSnapshot, PersistAlready, PersistErase,
       PersistWrite, PersistReadback, Quiesce, LinkType
  <2>2. \/ pc' = pc \/ pc' = Idle
        \/ pc'.at \in {"persist1", "persist2", "persist3"}
    BY <1>1, <1>a DEF PersistSnapshot, PersistAlready, PersistErase, PersistWrite,
       PersistReadback, Quiesce, PersistReturn, Goto, PcType
  <2> QED BY <2>1, <2>2 DEF KeepsPoint, Idle
<1>2. CASE CampTick \/ BootWindowStep \/ BootWindowListen
  <2>1. KeepsLink
    BY <1>2, <1>a DEF KeepsLink, CampTick, BootWindowStep, BootWindowListen,
       CloseWindow, WatchdogOn, LinkType
  <2>2. \/ pc' = pc \/ pc' = Idle
        \/ pc' \in {Goto("bootclose"), Goto("bootpair"), Goto("bootsession")}
    BY <1>2 DEF CampTick, BootWindowStep, BootWindowListen
  <2> QED BY <1>b, <2>1, <2>2 DEF KeepsPoint, Idle
<1>3. CASE RestartDrop \/ RestartRearm \/ RestartFinish \/ TimeoutAlive
  <2>1. KeepsLink
    BY <1>3, <1>a DEF KeepsLink, RestartDrop, RestartRearm, RestartFinish,
       TimeoutAlive, Decided, WatchdogOn, LinkType
  <2>2. pc' = pc \/ pc' = Idle \/ pc'.at = "restart"
    BY <1>3, <1>a DEF RestartDrop, RestartRearm, RestartFinish, TimeoutAlive,
       Goto, PcType
  <2> QED BY <2>1, <2>2 DEF KeepsPoint, Idle
<1>4. CASE PostPollRx \/ PairPrep \/ SendPairAck \/ SendPoll \/ TxPair15 \/ TxPair15B
  <2>1. UNCHANGED <<link, pc, hostKey>>
    <3>1. CASE PostPollRx \/ PairPrep \/ SendPairAck \/ SendPoll
      BY <3>1 DEF PostPollRx, PairPrep, SendPairAck, SendPoll
    <3>2. CASE TxPair15 \/ TxPair15B
      <4>1. UNCHANGED <<pc, hostKey>>
        BY <3>2 DEF TxPair15, TxPair15B
      <4>2. link' = link \/ \E x, aa : TxPair(x, aa)
        BY <3>2 DEF TxPair15, TxPair15B
      <4>3. ASSUME NEW x, NEW aa, TxPair(x, aa)
            PROVE  link' = link
        <5>1. PICK ok \in Outcomes : ok => UNCHANGED link
          BY <4>3 DEF TxPair
        <5>2. ok = TRUE
          BY NoRefusal
        <5> QED BY <5>1, <5>2
      <4> QED BY <4>1, <4>2, <4>3
    <3> QED BY <1>4, <3>1, <3>2
  <2> QED BY <2>1 DEF KeepsLink, KeepsPoint
<1>5. CASE RxNoise \/ RxScanNoise \/ RxPairRekey \/ TxDoneBurst
           \/ TxDoneTombstone \/ TxDonePoll \/ TxDoneStray \/ TxFail
  <2>1. Preempts
    BY <1>5 DEF RxNoise, RxScanNoise, RxPairRekey, TxDoneBurst, TxDoneTombstone,
       TxDonePoll, TxDoneStray, TxFail, Received, Sent
  <2>2. KeepsLink
    BY <1>5, <1>a, NoRefusal DEF KeepsLink, RxNoise, RxScanNoise, RxPairRekey,
       TxDoneBurst, TxDoneTombstone, TxDonePoll, TxDoneStray, TxFail, AbortBurst,
       LinkType
  <2> QED BY <1>c, <2>1, <2>2 DEF KeepsPoint
<1>6. CASE Timers \/ CompletionLost
  <2>1. UNCHANGED <<link, pc, hostKey>>
    BY <1>6, NoRefusal DEF Timers, GridPosts, GridSends, OneShotFires, DelayFires,
       Expires, CompletionLost
  <2> QED BY <2>1 DEF KeepsLink, KeepsPoint
<1>7. CASE Calls \/ Ages \/ TombstoneBond
  <2>1. KeepsLink
    BY <1>7, <1>a DEF KeepsLink, Calls, BondErase, QuiesceRequest, DiagIntervene,
       Ages, TombstoneBond, LinkType
  <2>2. pc' = pc \/ pc' = Idle \/ pc' = Goto("clear")
    BY <1>7 DEF Calls, BondErase, QuiesceRequest, DiagIntervene, Ages, TombstoneBond
  <2> QED BY <1>b, <2>1, <2>2 DEF KeepsPoint, Idle
<1> QED BY <1>1, <1>2, <1>3, <1>4, <1>5, <1>6, <1>7

\* The steps that connect, leave a link or claim a confirmation
LEMMA KeysUpStep ==
  ASSUME NoFaults, DInv, KeysUp, Next
  PROVE  KeysUp'
<1>a. link \in LinkType /\ pc \in PcType /\ Tmos /\ TypeOK
  BY DEF DInv, TypeOK, NoFaults
<1>b. \A l \in LinkType : /\ FreshPair(l).state = "pairing" /\ ~FreshPair(l).burst
                          /\ FreshPair(l).confirm = "none" /\ ~FreshPair(l).txfail
  BY DEF FreshPair, ForgetAttempt, AbortBurst, LinkType
<1>c. Preempts => /\ pc'.at = pc.at /\ pc'.saw = pc.saw /\ ~pc.busy
                  /\ (pc.at # "idle" => pc'.busy)
  BY <1>a DEF Preempts, PcType
<1>1. CASE Start
  <2>1. pc.at = "idle" /\ pc' = pc /\ hostKey' = hostKey /\ "START" \in q.pend
    BY <1>1 DEF Start, Turn, Current, DInv, BondInvariant, StartOnce
  <2>2. link.state # "connected" /\ ~link.burst
    BY <2>1 DEF DInv, BondInvariant, Unstarted
  <2>3. /\ link'.state = "pairing" /\ link'.confirm = "none" /\ link'.burst = link.burst
        /\ ~link'.txfail
    BY <1>1, <1>a DEF Start, WatchdogOn, LinkType
  <2> QED BY <2>1, <2>2, <2>3 DEF KeysUp
<1>2. CASE ConfirmClaim
  <2>1. pc'.at = "confirm" /\ pc'.saw = link.confirm /\ hostKey' = hostKey
    BY <1>2, <1>a DEF ConfirmClaim, Goto, PcType
  <2>2. /\ link'.confirm = "none" /\ link'.burst = link.burst
        /\ link'.txfail = link.txfail
        /\ link'.state = IF link.confirm = "waitRx" THEN "pairing" ELSE link.state
    BY <1>2, <1>a DEF ConfirmClaim, LinkType
  <2> QED BY <2>1, <2>2 DEF KeysUp
<1>3. CASE ConfirmAct
  <2>1. pc.at = "confirm" /\ pc'.at = "idle" /\ hostKey' = hostKey
    BY <1>3 DEF ConfirmAct, Idle
  <2>2. IF pc.saw = "waitRx" THEN link' = FreshPair(link) ELSE link' = link
    BY <1>3 DEF ConfirmAct
  <2> QED BY <1>a, <1>b, <2>1, <2>2 DEF KeysUp
<1>4. CASE RestartFallback \/ ReacquireFresh
  BY <1>4, <1>a DEF RestartFallback, ReacquireFresh, KeysUp
<1>5. CASE ReacquireKeysUp
  <2>1. pc'.at = "reacquire1" /\ ~hostKey' /\ link.state = "connected"
    BY <1>5, <1>a DEF ReacquireKeysUp, Lapsed, Goto, PcType
  <2>2. /\ link'.state = "idle" /\ link'.confirm = link.confirm
        /\ link'.burst = link.burst /\ link'.txfail = link.txfail
    BY <1>5, <1>a DEF ReacquireKeysUp, LeavesMasked, LinkType
  <2> QED BY <2>1, <2>2 DEF KeysUp
<1>6. CASE ReacquireTeardown \/ ReacquireScan
  <2>1. /\ pc.at \in {"reacquire1", "reacquire2"} /\ hostKey' = hostKey
        /\ pc'.at \in {"reacquire2", "idle"}
    BY <1>6, <1>a DEF ReacquireTeardown, ReacquireScan, GoOn, Idle, PcType
  <2>2. /\ link'.confirm = link.confirm /\ link'.txfail = link.txfail
        /\ \/ link'.state = "idle" /\ ~link'.burst
           \/ link'.state = "pairing" /\ link'.burst = link.burst /\ pc'.at = "idle"
    <3>1. CASE ReacquireTeardown
      BY <3>1, <1>a DEF ReacquireTeardown, AbortBurst, CloseWindow, LinkType
    <3>2. CASE ReacquireScan
      BY <3>2, <1>a DEF ReacquireScan, Idle, LinkType
    <3> QED BY <1>6, <3>1, <3>2
  <2> QED BY <2>1, <2>2 DEF KeysUp
<1>7. CASE GiveupStart
  <2>1. pc'.at = "giveup1" /\ hostKey' = hostKey /\ link.ev10
    BY <1>7, <1>a DEF GiveupStart, Goto, PcType
  <2>2. link.state # "connected"
    BY <2>1 DEF DInv, DeadlineInvariant, WindowShape
  <2>3. /\ link'.state = link.state /\ link'.confirm = link.confirm
        /\ link'.burst = link.burst /\ link'.txfail = link.txfail
    BY <1>7, <1>a DEF GiveupStart, CloseWindow, LinkType
  <2> QED BY <2>1, <2>2, <2>3 DEF KeysUp
<1>8. CASE GiveupTeardown \/ GiveupClaim
  <2>1. /\ pc.at \in {"giveup1", "giveup2"} /\ hostKey' = hostKey
        /\ pc'.at \in {"giveup2", "giveup3"} /\ pc'.busy = pc.busy
    BY <1>8, <1>a DEF GiveupTeardown, GiveupClaim, GoOn, PcType
  <2>2. /\ link'.confirm \in {"none", link.confirm} /\ (link'.burst => link.burst)
        /\ (link'.txfail => link.txfail)
        /\ \/ link'.state = link.state
           \/ link.state = "connected" /\ link'.state = "pairing"
    BY <1>8, <1>a DEF GiveupTeardown, GiveupClaim, AbortBurst, LinkType
  <2> QED BY <2>1, <2>2 DEF KeysUp
<1>9. CASE GiveupCamp
  <2>1. pc.at = "giveup3" /\ pc'.at = "idle" /\ hostKey' = hostKey
    BY <1>9 DEF GiveupCamp, Idle
  <2>2. \/ link' = FreshPair(link)
        \/ /\ link'.state = "pairing" /\ link'.confirm = link.confirm
           /\ link'.burst = link.burst /\ link'.txfail = link.txfail
    BY <1>9, <1>a DEF GiveupCamp, WatchdogOn, LinkType
  <2> QED BY <1>a, <1>b, <2>1, <2>2 DEF KeysUp
<1>10. CASE RxPairAccept
  <2>1. Preempts /\ hostKey' = hostKey /\ link.state # "connected"
    BY <1>10 DEF RxPairAccept, Received
  <2>2. /\ link'.state = link.state /\ link'.confirm = link.confirm
        /\ link'.txfail = link.txfail
    BY <1>10, <1>a DEF RxPairAccept, CloseWindow, LinkType
  <2> QED BY <1>c, <2>1, <2>2 DEF KeysUp
<1>11. CASE RxConnected
  <2>1. PICK kind \in {"poll", "down", "up", "alien"} :
          /\ link' = [link EXCEPT !.recent = TRUE, !.heard = ~Tmos, !.moved = link.wd,
                        !.confirm = IF @ = "waitRx" /\ ConfirmsPair(kind)
                                      THEN "waitRearm" ELSE @]
          /\ kind = "alien" => hostKey' = hostKey
    BY <1>11 DEF RxConnected
  <2>2. Preempts /\ link.state = "connected"
    BY <1>11 DEF RxConnected, Received
  <2>3. /\ link'.state = link.state /\ link'.burst = link.burst
        /\ link'.txfail = link.txfail
        /\ link'.confirm = "waitRx" => link.confirm = "waitRx" /\ kind = "alien"
    BY <1>a, <2>1 DEF LinkType, ConfirmsPair
  <2> QED BY <1>c, <2>1, <2>2, <2>3 DEF KeysUp
<1>12. CASE TxDonePromote
  <2>1. Preempts /\ hostKey' = hostKey /\ link.burst
    BY <1>12 DEF TxDonePromote, Sent
  <2>2. ~link'.burst /\ link'.state = "connected" /\ link'.txfail = link.txfail
    BY <1>12, <1>a DEF TxDonePromote, AbortBurst, LinkType
  <2> QED BY <1>c, <2>1, <2>2 DEF KeysUp
<1>13. CASE TxDoneRekey
  <2>1. Preempts /\ hostKey' = hostKey /\ ~link.burst /\ link.state = "pairing" /\ link.ev10
    BY <1>13 DEF TxDoneRekey, Sent
  <2>2. /\ link'.burst = link.burst /\ link'.confirm = link.confirm
        /\ link'.txfail = link.txfail
    BY <1>13, <1>a DEF TxDoneRekey, LinkType
  <2> QED BY <1>c, <2>1, <2>2 DEF KeysUp
<1>14. CASE Reset
  BY <1>14 DEF Reset, BootLink, Idle, KeysUp
<1> QED BY <1>a, <1>1, <1>2, <1>3, <1>4, <1>5, <1>6, <1>7, <1>8, <1>9, <1>10, <1>11,
           <1>12, <1>13, <1>14, KeepingStep, KeepsKeysUp
        DEF Next, Handlers, Continues, Receives, Sends

\* On CH59x no key is left down at the host once the link is not connected, as
\* long as the radio refuses no transmission.
THEOREM NoStuckKeyHolds == Tmos /\ MaxFaults = 0 => (Spec => []NoStuckKey)
<1> SUFFICES ASSUME NoFaults
             PROVE  Spec => []NoStuckKey
  BY DEF NoFaults
<1>1. Init => KeysUp
  BY DEF Init, BootLink, Idle, KeysUp
<1>2. TypeOK /\ BondInvariant /\ DeadlineInvariant /\ KeysUp /\ [Next]_vars => KeysUp'
  <2>1. UNCHANGED vars /\ KeysUp => KeysUp'
    BY DEF vars, KeysUp
  <2> QED BY <2>1, KeysUpStep DEF DInv
<1>3. KeysUp => NoStuckKey
  BY DEF KeysUp, NoStuckKey
<1> QED BY <1>1, <1>2, <1>3, TypeCorrect, BondInvariantHolds, DeadlineInvariantHolds,
           PTL DEF Spec

-----------------------------------------------------------------------------
(* The pair-ACK burst of CH59x *)

\* Between two handlers no event is left in a snapshot, and as no arm is
\* refused no restart is put off.
Settled ==
  /\ pc.at \in {"idle", "clear"} => q.ev = {}
  /\ "RESTART" \notin q.delayed /\ ~radio.failed

\* A burst's next transmission is posted, or on the air with nothing posted
\* that would take the radio from it.
Carried ==
  \/ Owes(q, "TX15")
  \/ link.idx = 1 /\ Owes(q, "TX15B")
  \/ /\ radio.mode = "tx" /\ ~Owes(q, "RESTART")
     /\ pc.at \notin {"bootpair", "bootsession", "bootclose", "giveup2", "giveup3"}

\* A scan carries no burst; a give-up, or a deadline passed, is about to drop it.
Forsaken == pc.at = "giveup1" \/ (pc.at = "confirm" /\ pc.saw = "waitRx")

BurstCarried == ~quiesced /\ link.burst /\ ~link.ev10 /\ ~Forsaken => Carried

\* No operation on the queue posts a restart but the one for it.
LEMMA RestartNew ==
  ASSUME NEW s \in QueueType, ~Owes(s, "RESTART")
  PROVE  /\ \A x \in Events \ {"RESTART"} :
              ~Owes(Post(s, x), "RESTART") /\ ~Owes(PostDelayed(s, x), "RESTART")
         /\ \A E : ~Owes(Cancel(s, E), "RESTART")
         /\ \A t \in OneShots : ~Owes(Arm(s, t), "RESTART")
         /\ \A T : ~Owes(Disarm(s, T), "RESTART")
         /\ \A g \in Grids : ~Owes(GridStart(s, g), "RESTART") /\ ~Owes(GridStop(s, g), "RESTART")
         /\ ~Owes(GridStopAll(s), "RESTART")
         /\ ~Owes(Return(s), "RESTART")
<1> USE DEF Owes, QueueType
<1>1. \A x \in Events \ {"RESTART"} : ~Owes(Post(s, x), "RESTART")
  BY DEF Post
<1>2. \A x \in Events \ {"RESTART"} : ~Owes(PostDelayed(s, x), "RESTART")
  BY <1>1 DEF PostDelayed
<1>3. \A E : ~Owes(Cancel(s, E), "RESTART")
  BY DEF Cancel
<1>4. \A t \in OneShots : ~Owes(Arm(s, t), "RESTART")
  BY DEF Arm
<1>5. \A T : ~Owes(Disarm(s, T), "RESTART")
  BY DEF Disarm
<1>6. \A g \in Grids : ~Owes(GridStart(s, g), "RESTART") /\ ~Owes(GridStop(s, g), "RESTART")
  BY DEF GridStart, GridStop
<1>7. ~Owes(GridStopAll(s), "RESTART") /\ ~Owes(Return(s), "RESTART")
  BY DEF GridStopAll, Return
<1> QED BY <1>1, <1>2, <1>3, <1>4, <1>5, <1>6, <1>7

\* An operation keeps the transmissions that are owed, and posts no restart.
Gentle(s, t) ==
  /\ t \in QueueType
  /\ Owes(s, "TX15") => Owes(t, "TX15")
  /\ Owes(s, "TX15B") => Owes(t, "TX15B")
  /\ Owes(t, "RESTART") => Owes(s, "RESTART")

LEMMA GentleOps ==
  ASSUME NEW s \in QueueType
  PROVE  /\ \A x \in Events \ {"RESTART"} : Gentle(s, Post(s, x)) /\ Gentle(s, PostDelayed(s, x))
         /\ \A E : "TX15" \notin E /\ "TX15B" \notin E => Gentle(s, Cancel(s, E))
         /\ Gentle(s, Arm(s, "BOOT")) /\ Gentle(s, Supervise(s))
         /\ \A b : Gentle(s, ArmPersistQ(b, s))
         /\ Gentle(s, Retry(s, TRUE)) /\ Gentle(s, Return(s)) /\ Gentle(s, s)
         /\ \A g \in Grids : Gentle(s, GridStart(s, g))
<1> USE DEF Gentle
<1>n. /\ "TX15" \in Events /\ "TX15B" \in Events /\ "RESTART" \in Events /\ "PERSIST" \in Events
      /\ "BOOT" \in OneShots /\ "EV10" \in OneShots /\ {"EV10"} \in SUBSET OneShots
  BY Names
<1>1. \A x \in Events \ {"RESTART"} : Gentle(s, Post(s, x)) /\ Gentle(s, PostDelayed(s, x))
  BY <1>n, QueueOps, OwesKept, RestartNew
<1>2. \A E : "TX15" \notin E /\ "TX15B" \notin E => Gentle(s, Cancel(s, E))
  BY <1>n, QueueOps, OwesKept, RestartNew
<1>3. Gentle(s, Arm(s, "BOOT")) /\ Gentle(s, Return(s))
  BY <1>n, QueueOps, OwesKept, RestartNew
<1>4. Gentle(s, Supervise(s))
  <2>1. Gentle(s, Disarm(s, {"EV10"}))
    BY <1>n, QueueOps, OwesKept, RestartNew
  <2>2. Gentle(Disarm(s, {"EV10"}), Arm(Disarm(s, {"EV10"}), "EV10"))
    BY <1>n, <2>1, QueueOps, OwesKept, RestartNew
  <2> QED BY <2>1, <2>2 DEF Supervise
<1>5. \A b : Gentle(s, ArmPersistQ(b, s))
  BY <1>n, <1>1 DEF ArmPersistQ
<1>6. Gentle(s, Retry(s, TRUE)) /\ Gentle(s, s)
  BY DEF Retry
<1>7. \A g \in Grids : Gentle(s, GridStart(s, g))
  BY <1>n, QueueOps, OwesKept, RestartNew
<1> QED BY <1>1, <1>2, <1>3, <1>4, <1>5, <1>6, <1>7

LEMMA GentleTwice ==
  ASSUME NEW s, NEW t, NEW u, Gentle(s, t), Gentle(t, u)
  PROVE  Gentle(s, u)
BY DEF Gentle

\* A handler that takes another event, and returns
LEMMA GentleTook ==
  ASSUME q \in QueueType, NEW x \in Events \ {"TX15", "TX15B"}
  PROVE  Gentle(q, Took(x)) /\ Gentle(q, Return(Took(x)))
<1>1. Took(x) \in QueueType /\ "TX15" \in Events /\ "TX15B" \in Events
  BY Taken, Names
<1>2. /\ Owes(q, "TX15") => Owes(Took(x), "TX15")
      /\ Owes(q, "TX15B") => Owes(Took(x), "TX15B")
  BY <1>1, Taken
<1>3. Owes(Took(x), "RESTART") => Owes(q, "RESTART")
  BY DEF Took, Current, Owes, QueueType
<1>4. Gentle(q, Took(x))
  BY <1>1, <1>2, <1>3 DEF Gentle
<1> QED BY <1>1, <1>4, GentleOps, GentleTwice

\* An operation leaves the snapshot, and puts no restart off.
Plain(s, t) ==
  /\ t \in QueueType /\ t.ev = s.ev
  /\ "RESTART" \in t.delayed => "RESTART" \in s.delayed

LEMMA PlainOps ==
  ASSUME NEW s \in QueueType
  PROVE  /\ \A x \in Events : Plain(s, Post(s, x))
         /\ \A x \in Events \ {"RESTART"} : Plain(s, PostDelayed(s, x))
         /\ \A E : Plain(s, Cancel(s, E))
         /\ \A t \in OneShots : Plain(s, Arm(s, t))
         /\ \A T \in SUBSET OneShots : Plain(s, Disarm(s, T))
         /\ \A g \in Grids : Plain(s, GridStart(s, g)) /\ Plain(s, GridStop(s, g))
         /\ Plain(s, GridStopAll(s)) /\ Plain(s, s)
<1> USE DEF Plain
<1>1. \A x \in Events : Plain(s, Post(s, x))
  BY QueueOps DEF Post, QueueType
<1>2. \A x \in Events \ {"RESTART"} : Plain(s, PostDelayed(s, x))
  BY QueueOps DEF PostDelayed, Post, QueueType
<1>3. \A E : Plain(s, Cancel(s, E))
  BY QueueOps DEF Cancel, QueueType
<1>4. \A t \in OneShots : Plain(s, Arm(s, t))
  BY QueueOps DEF Arm, QueueType
<1>5. \A T \in SUBSET OneShots : Plain(s, Disarm(s, T))
  BY QueueOps DEF Disarm, QueueType
<1>6. \A g \in Grids : Plain(s, GridStart(s, g)) /\ Plain(s, GridStop(s, g))
  BY QueueOps DEF GridStart, GridStop, QueueType
<1>7. Plain(s, GridStopAll(s)) /\ Plain(s, s)
  BY QueueOps DEF GridStopAll, QueueType
<1> QED BY <1>1, <1>2, <1>3, <1>4, <1>5, <1>6, <1>7

LEMMA PlainTwice ==
  ASSUME NEW s, NEW t, NEW u, Plain(s, t), Plain(t, u)
  PROVE  Plain(s, u)
BY DEF Plain

LEMMA PlainMacros ==
  ASSUME NEW s \in QueueType
  PROVE  /\ Plain(s, WatchdogTimer(s)) /\ Plain(s, Supervise(s)) /\ Plain(s, HandGrid(s))
         /\ Plain(s, Retry(s, TRUE)) /\ Plain(s, AbortBurstQ(s)) /\ Plain(s, FreshPairQ(s))
         /\ \A b : Plain(s, ArmPersistQ(b, s))
<1>n. /\ "BOOT" \in OneShots /\ "EV10" \in OneShots /\ {"EV10"} \in SUBSET OneShots
      /\ OneShots \in SUBSET OneShots /\ "PERSIST" \in Events /\ "POLL" \in Grids
  BY Names DEF Grids
<1>1. Plain(s, WatchdogTimer(s)) /\ Plain(s, HandGrid(s)) /\ Plain(s, Retry(s, TRUE))
      /\ Plain(s, AbortBurstQ(s))
  BY <1>n, PlainOps DEF WatchdogTimer, HandGrid, Retry, AbortBurstQ
<1>2. Plain(s, Supervise(s))
  <2>1. Plain(s, Disarm(s, {"EV10"}))
    BY <1>n, PlainOps
  <2>2. Plain(Disarm(s, {"EV10"}), Arm(Disarm(s, {"EV10"}), "EV10"))
    BY <1>n, <2>1, PlainOps DEF Plain
  <2> QED BY <2>1, <2>2, PlainTwice DEF Supervise
<1>3. \A b : Plain(s, ArmPersistQ(b, s))
  BY <1>n, PlainOps DEF ArmPersistQ
<1>5. \A t, u, v : Plain(t, u) /\ Plain(u, v) => Plain(t, v)
  BY DEF Plain
<1>4. Plain(s, FreshPairQ(s))
  <2> DEFINE s1 == GridStopAll(s)
             s2 == Disarm(s1, {"EV10"})
             s3 == Cancel(s2, {"PREP", "ACK", "POLL", "POST_RX", "CONFIRM"})
             s4 == AbortBurstQ(s3)
             s5 == Arm(s4, "BOOT")
  <2>1. Plain(s, s1) /\ s1 \in QueueType
    BY PlainOps DEF Plain
  <2>2. Plain(s1, s2) /\ s2 \in QueueType
    BY <1>n, <2>1, PlainOps DEF Plain
  <2>3. Plain(s2, s3) /\ s3 \in QueueType
    BY <2>2, PlainOps DEF Plain
  <2>4. Plain(s3, s4) /\ s4 \in QueueType
    BY <2>3, PlainOps DEF Plain, AbortBurstQ
  <2>5. Plain(s4, s5)
    BY <1>n, <2>4, PlainOps
  <2>6. FreshPairQ(s) = s5
    BY DEF FreshPairQ
  <2> HIDE DEF s1, s2, s3, s4, s5
  <2>7. Plain(s, s3)
    BY <1>5, <2>1, <2>2, <2>3
  <2>8. s5.ev = s.ev /\ s5 \in QueueType
    BY <2>4, <2>5, <2>7 DEF Plain
  <2>9. "RESTART" \in s5.delayed => "RESTART" \in s.delayed
    BY <2>4, <2>5, <2>7 DEF Plain
  <2> QED BY <2>6, <2>8, <2>9 DEF Plain
<1> QED BY <1>1, <1>2, <1>3, <1>4

LEMMA PlainTook ==
  ASSUME q \in QueueType, NEW x
  PROVE  Took(x) \in QueueType /\ Took(x).delayed = q.delayed
BY TookType DEF Took, QueueType

\* What every step does to the radio's status and to the snapshot, while no arm
\* is refused
Settles ==
  /\ radio'.failed \in {FALSE, radio.failed}
  /\ pc'.at \in {"idle", "clear"} => q'.ev = {} \/ (pc.at \in {"idle", "clear"} /\ q'.ev = q.ev)
  /\ "RESTART" \in q'.delayed => "RESTART" \in q.delayed

LEMMA SettlesStep ==
  ASSUME Settled, Settles
  PROVE  Settled'
BY DEF Settled, Settles

\* A handler that returns
LEMMA ReturnSettles ==
  ASSUME Tmos, q \in QueueType, NEW s, NEW t, s.delayed = q.delayed, Plain(s, t), q' = Return(t),
         radio'.failed \in {FALSE, radio.failed}
  PROVE  Settles
<1>1. q'.ev = {} /\ q'.delayed = t.delayed
  BY DEF Return, Plain, QueueType
<1> QED BY <1>1 DEF Settles, Plain

\* A step of the sink, a timer, or a call, between the points of a handler
LEMMA SinkSettles ==
  ASSUME Plain(q, q'), pc'.at = pc.at \/ pc'.at \notin {"idle", "clear"},
         radio'.failed \in {FALSE, radio.failed}
  PROVE  Settles
BY DEF Settles, Plain

LEMMA RadioSettles ==
  ASSUME radio \in RadioType
  PROVE  /\ \A aa : Listen(aa, TRUE).failed = FALSE /\ Transmit(aa, TRUE).failed = radio.failed
         /\ Listening(TRUE).failed = radio.failed /\ Shut.failed = radio.failed
         /\ \A aa : Listen(aa, TRUE).mode = "rx" /\ Transmit(aa, TRUE).mode = "tx"
         /\ Shut.mode = "off"
BY DEF RadioType, Listen, Transmit, Listening, Shut

LEMMA HandlerSettles ==
  ASSUME NoFaults, TypeOK, Handlers
  PROVE  Settles
<1>a. /\ Tmos /\ q \in QueueType /\ radio \in RadioType /\ pc \in PcType /\ Outcomes = {TRUE}
      /\ \A n : OutcomesAt(n) \subseteq BOOLEAN
  BY NoRefusal DEF NoFaults, TypeOK, OutcomesAt
<1>n. /\ "BOOT" \in OneShots /\ "PREP" \in Events \ {"RESTART"} /\ "ACK" \in Grids
  BY Names DEF Grids
<1>b. \A x : Took(x) \in QueueType /\ Took(x).delayed = q.delayed
  BY <1>a, PlainTook
<1>c. \A p : Goto(p).at = p
  BY <1>a DEF PcType, Goto
<1>p. \A x : Plain(Took(x), Took(x))
  BY <1>b, PlainOps
\* A handler that leaves its snapshot to its next point
<1>g. ASSUME NEW x, q' = Took(x), pc'.at \notin {"idle", "clear"}, radio'.failed \in {FALSE, radio.failed}
      PROVE  Settles
  BY <1>b, <1>g DEF Settles
<1>r. ASSUME NEW x, NEW t, Plain(Took(x), t), q' = Return(t), radio'.failed \in {FALSE, radio.failed}
      PROVE  Settles
  BY <1>a, <1>b, <1>r, ReturnSettles
<1>1. CASE PersistSnapshot
  <2>1. CASE PersistSkips
    BY <1>1, <1>p, <1>r, <2>1 DEF PersistSnapshot
  <2>2. CASE ~PersistSkips
    <3>1. q' = Took("PERSIST") /\ pc'.at = "persist1" /\ radio' = radio
      BY <1>1, <1>a, <2>2 DEF PersistSnapshot, Goto, PcType
    <3> QED BY <1>g, <3>1
  <2> QED BY <2>1, <2>2
<1>2. CASE Quiesce
  <2>1. CASE bond.pending /\ ~PersistSkips
    <3>1. q' = Took("QUIESCE") /\ pc'.at = "persist1" /\ radio' = radio
      BY <1>2, <1>a, <2>1 DEF Quiesce, Goto, PcType
    <3> QED BY <1>g, <3>1
  <2>2. CASE ~(bond.pending /\ ~PersistSkips)
    <3>1. q'.ev = {} /\ q'.delayed = {} /\ radio' = Shut
      BY <1>2, <2>2 DEF Quiesce, QuiesceTail
    <3> QED BY <1>a, <3>1, RadioSettles DEF Settles
  <2> QED BY <2>1, <2>2
<1>3. CASE Start
  <2> DEFINE s1 == Cancel(Took("START"), {"CONFIRM"})
             s2 == Arm(Retry(s1, TRUE), "BOOT")
  <2>1. q' = Return(s2) /\ radio' = Listen(radio.aa, TRUE)
    BY <1>3, <1>a DEF Start
  <2>2. Plain(Took("START"), s1) /\ Retry(s1, TRUE) = s1 /\ Plain(s1, Arm(s1, "BOOT"))
    <3>1. Plain(Took("START"), s1) /\ Retry(s1, TRUE) = s1
      BY <1>b, PlainOps DEF Retry
    <3> QED BY <1>n, <3>1, PlainOps DEF Plain
  <2> HIDE DEF s1
  <2>3. Plain(Took("START"), s2)
    BY <2>2, PlainTwice
  <2> QED BY <1>r, <1>a, <2>1, <2>3, RadioSettles
<1>4. CASE CampTick
  <2>1. \/ q' = Return(Took("BOOT")) /\ radio' = radio
        \/ q' = Return(WatchdogTimer(Took("BOOT"))) /\ radio' = radio
        \/ /\ q' = Return(WatchdogTimer(Retry(Cancel(Took("BOOT"), {"RESTART"}), TRUE)))
           /\ radio' = Listen(radio.aa, TRUE)
    BY <1>4, <1>a DEF CampTick
  <2> DEFINE s1 == Cancel(Took("BOOT"), {"RESTART"})
  <2>2. Plain(Took("BOOT"), s1) /\ Retry(s1, TRUE) = s1
    BY <1>b, PlainOps DEF Retry
  <2>3. Plain(Took("BOOT"), WatchdogTimer(Took("BOOT")))
    BY <1>b, PlainMacros
  <2>4. Plain(s1, WatchdogTimer(s1))
    BY <2>2, PlainMacros DEF Plain
  <2>5. Plain(Took("BOOT"), WatchdogTimer(s1))
    BY <2>2, <2>4, PlainTwice
  <2>6. q' \in {Return(Took("BOOT")), Return(WatchdogTimer(Took("BOOT"))), Return(WatchdogTimer(s1))}
    BY <2>1, <2>2
  <2> HIDE DEF s1
  <2>7. PICK t : Plain(Took("BOOT"), t) /\ q' = Return(t)
    BY <1>p, <2>3, <2>5, <2>6
  <2>8. radio'.failed \in {FALSE, radio.failed}
    BY <1>a, <2>1, RadioSettles
  <2> QED BY <1>r, <2>7, <2>8
<1>5. CASE BootWindowStep
  <2>1. radio' = radio /\ (q' = Return(Took("BOOT")) \/
          (q' = Took("BOOT") /\ pc'.at \notin {"idle", "clear"}))
    BY <1>5, <1>c DEF BootWindowStep
  <2> QED BY <1>g, <1>p, <1>r, <2>1
<1>6. CASE ConfirmClaim
  <2>1. q' = Took("CONFIRM") /\ pc'.at = "confirm" /\ radio' = radio
    BY <1>6, <1>a DEF ConfirmClaim, Goto, PcType
  <2> QED BY <1>g, <2>1
<1>7. CASE RestartFallback \/ ReacquireFresh
  <2>1. PICK x \in {"RESTART", "TIMEOUT"} : q' = Return(FreshPairQ(Took(x)))
    BY <1>7 DEF RestartFallback, ReacquireFresh
  <2>2. radio' = Listen("session", TRUE)
    BY <1>7, <1>a DEF RestartFallback, ReacquireFresh
  <2>3. Plain(Took(x), FreshPairQ(Took(x)))
    BY <1>b, PlainMacros
  <2> QED BY <1>a, <1>r, <2>1, <2>2, <2>3, RadioSettles
<1>8. CASE RestartDrop
  BY <1>8, <1>p, <1>r DEF RestartDrop
<1>9. CASE RestartRearm
  <2>1. q' = Took("RESTART") /\ pc'.at = "restart" /\ radio' = Listen(radio.aa, TRUE)
    BY <1>9, <1>a DEF RestartRearm, Goto, PcType
  <2> QED BY <1>a, <1>g, <2>1, RadioSettles
<1>10. CASE PostPollRx \/ SendPoll
  <2>1. PICK x \in {"POST_RX", "POLL"} : q' = Return(Took(x))
    BY <1>10 DEF PostPollRx, SendPoll
  <2>2. radio' \in {radio, Listening(TRUE), Transmit(radio.aa, TRUE)}
    BY <1>10, <1>a DEF PostPollRx, SendPoll
  <2>3. radio'.failed \in {FALSE, radio.failed}
    BY <1>a, <2>2, RadioSettles
  <2> QED BY <1>p, <1>r, <2>1, <2>3
<1>11. CASE PairPrep \/ SendPairAck
  <2>1. PICK x \in {"PREP", "ACK"} :
          q' \in {Return(Took(x)), Return(PostDelayed(Took(x), "PREP")), Return(GridStart(Took(x), "ACK"))}
    BY <1>11 DEF PairPrep, SendPairAck
  <2>2. radio' \in {radio, Listening(TRUE), Transmit(radio.aa, TRUE)}
    BY <1>11, <1>a DEF PairPrep, SendPairAck
  <2>3. radio'.failed \in {FALSE, radio.failed}
    BY <1>a, <2>2, RadioSettles
  <2>4. Plain(Took(x), PostDelayed(Took(x), "PREP")) /\ Plain(Took(x), GridStart(Took(x), "ACK"))
    BY <1>b, <1>n, PlainOps
  <2> QED BY <1>p, <1>r, <2>1, <2>3, <2>4
<1>12. CASE TxPair15 \/ TxPair15B
  <2>1. PICK x \in {"TX15", "TX15B"} :
          q' = Return(Took(x)) /\ (radio' = radio \/ \E aa : radio' = Transmit(aa, TRUE))
    <3>1. ASSUME NEW x, NEW aa, TxPair(x, aa)
          PROVE  q' = Return(Took(x)) /\ radio' = Transmit(aa, TRUE)
      BY <1>a, <3>1 DEF TxPair
    <3> QED BY <1>12, <3>1 DEF TxPair15, TxPair15B
  <2>2. radio'.failed \in {FALSE, radio.failed}
    BY <1>a, <2>1, RadioSettles
  <2> QED BY <1>p, <1>r, <2>1, <2>2
<1>13. CASE TimeoutAlive
  <2>1. radio' = radio /\ q' \in {Return(Supervise(Took("TIMEOUT"))), Return(Took("TIMEOUT"))}
    BY <1>13 DEF TimeoutAlive
  <2>2. Plain(Took("TIMEOUT"), Supervise(Took("TIMEOUT")))
    BY <1>b, PlainMacros
  <2> QED BY <1>p, <1>r, <2>1, <2>2
<1>14. CASE ReacquireKeysUp \/ GiveupStart
  <2>1. q' = Took("TIMEOUT") /\ radio' = radio /\ pc'.at \in {"reacquire1", "giveup1"}
    BY <1>14, <1>a DEF ReacquireKeysUp, GiveupStart, Goto, PcType
  <2> QED BY <1>g, <2>1
<1> QED BY <1>1, <1>2, <1>3, <1>4, <1>5, <1>6, <1>7, <1>8, <1>9, <1>10, <1>11,
           <1>12, <1>13, <1>14 DEF Handlers

\* The end of a give-up: a fresh pair, or the watched camp
LEMMA CampTaken ==
  ASSUME NoFaults, TypeOK, GiveupCamp
  PROVE  LET s1 == IF pc.saw = "waitRearm" THEN ArmPersistQ(bond, q) ELSE q IN
         /\ radio' = Listen("session", TRUE)
         /\ \/ link' = FreshPair(link) /\ q' = Return(FreshPairQ(q))
            \/ /\ link' = WatchdogOn([link EXCEPT !.state = "pairing"])
               /\ q' = Return(WatchdogTimer(Cancel(s1, {"CONFIRM"})))
<1> DEFINE s1 == IF pc.saw = "waitRearm" THEN ArmPersistQ(bond, q) ELSE q
<1>1. Outcomes = {TRUE}
  BY NoRefusal
<1>2. radio' = Listen("session", TRUE)
  BY <1>1 DEF GiveupCamp
<1>3. CASE pc.saw = "waitRx"
  <2>1. link' = FreshPair(link) /\ q' = Return(FreshPairQ(q))
    BY <1>3 DEF GiveupCamp
  <2> QED BY <1>2, <2>1
<1>4. CASE pc.saw # "waitRx"
  <2>1. link' = WatchdogOn([link EXCEPT !.state = "pairing"])
    BY <1>4 DEF GiveupCamp
  <2>2. q' = Return(WatchdogTimer(Retry(Cancel(s1, {"CONFIRM"}), TRUE)))
    BY <1>1, <1>4 DEF GiveupCamp
  <2>3. Retry(Cancel(s1, {"CONFIRM"}), TRUE) = Cancel(s1, {"CONFIRM"})
    BY DEF Retry
  <2> QED BY <1>2, <2>1, <2>2, <2>3
<1> QED BY <1>3, <1>4

LEMMA ContinueSettles ==
  ASSUME NoFaults, TypeOK, Settled, Continues
  PROVE  Settles
<1>a. /\ Tmos /\ q \in QueueType /\ radio \in RadioType /\ pc \in PcType /\ Outcomes = {TRUE}
      /\ \A n : OutcomesAt(n) \subseteq BOOLEAN
  BY NoRefusal DEF NoFaults, TypeOK, OutcomesAt
<1>n. /\ "BOOT" \in OneShots /\ "EV10" \in OneShots /\ OneShots \in SUBSET OneShots
      /\ "PREP" \in Events /\ "POLL" \in Grids
  BY Names DEF Grids
<1>r. ASSUME NEW t, Plain(q, t), q' = Return(t), radio'.failed \in {FALSE, radio.failed}
      PROVE  Settles
  BY <1>a, <1>r, ReturnSettles
<1>q. Plain(q, q)
  BY <1>a, PlainOps
<1>m. \A t \in QueueType : /\ Plain(t, WatchdogTimer(t)) /\ Plain(t, Supervise(t))
                           /\ Plain(t, FreshPairQ(t)) /\ Plain(t, AbortBurstQ(t))
                           /\ \A b : Plain(t, ArmPersistQ(b, t))
                           /\ \A E : Plain(t, Cancel(t, E))
                           /\ Plain(t, Arm(t, "BOOT")) /\ Plain(t, Arm(t, "EV10"))
                           /\ Plain(t, Post(t, "PREP")) /\ Plain(t, GridStop(t, "POLL"))
                           /\ Plain(t, GridStopAll(t)) /\ Plain(t, Disarm(t, OneShots))
  BY <1>n, PlainOps, PlainMacros
<1>t. \A t, u : Plain(t, u) => u \in QueueType
  BY DEF Plain
<1>f. \A t : Retry(t, TRUE) = t
  BY DEF Retry
<1>1. CASE PersistAlready \/ PersistReadback
  <2>1. pc' = Idle /\ PersistReturn(q, radio)
    BY <1>1 DEF PersistAlready, PersistReadback, PersistReturn
  <2>2. CASE quiesced
    <3>1. q'.ev = {} /\ q'.delayed = {} /\ radio' = Shut
      BY <2>1, <2>2 DEF PersistReturn, QuiesceTail
    <3> QED BY <1>a, <3>1, RadioSettles DEF Settles
  <2>3. CASE ~quiesced
    BY <1>q, <1>r, <2>1, <2>3 DEF PersistReturn
  <2> QED BY <2>2, <2>3
<1>2. CASE PersistErase \/ PersistWrite
  <2>1. q' = q /\ radio' = radio /\ pc'.at \in {"persist2", "persist3"}
    BY <1>2, <1>a DEF PersistErase, PersistWrite, Goto, PcType
  <2> QED BY <2>1 DEF Settles
<1>3. CASE BootWindowListen
  <2>1. /\ q' = Return(WatchdogTimer(q)) \/ q' = Return(Arm(q, "BOOT"))
        /\ \E aa : radio' = Listen(aa, TRUE)
    BY <1>3, <1>a, <1>f DEF BootWindowListen
  <2>2. Plain(q, WatchdogTimer(q)) /\ Plain(q, Arm(q, "BOOT"))
    BY <1>a, <1>m
  <2> QED BY <1>a, <1>r, <2>1, <2>2, RadioSettles
<1>4. CASE ConfirmAct
  <2>1. \/ q' = Return(FreshPairQ(q)) /\ radio' = Listen("session", TRUE)
        \/ /\ radio' = radio
           /\ q' \in {Return(q), Return(ArmPersistQ(bond, q)), Return(Supervise(ArmPersistQ(bond, q)))}
    BY <1>4, <1>a DEF ConfirmAct
  <2>2. Plain(q, FreshPairQ(q)) /\ Plain(q, ArmPersistQ(bond, q))
    BY <1>a, <1>m
  <2>3. Plain(ArmPersistQ(bond, q), Supervise(ArmPersistQ(bond, q)))
    BY <1>m, <1>t, <2>2
  <2>4. Plain(q, Supervise(ArmPersistQ(bond, q)))
    BY <2>2, <2>3, PlainTwice
  <2> QED BY <1>a, <1>q, <1>r, <2>1, <2>2, <2>4, RadioSettles
<1>5. CASE RestartFinish
  <2>1. Retry(q, ~radio.failed) = q
    BY <1>f DEF Settled
  <2> DEFINE s1 == IF Unwatched(link) THEN WatchdogTimer(q) ELSE q
             s2 == Cancel(s1, {"CONFIRM"})
             s3 == ArmPersistQ(bond, s2)
  <2>2. radio' = radio /\ q' \in {Return(s1), Return(Supervise(s3))}
    BY <1>5, <2>1 DEF RestartFinish
  <2>3. Plain(q, s1)
    BY <1>a, <1>m, <1>q
  <2> HIDE DEF s1
  <2>4. Plain(s1, s2)
    BY <1>m, <1>t, <2>3
  <2> HIDE DEF s2
  <2>5. Plain(s2, s3)
    BY <1>m, <1>t, <2>4
  <2> HIDE DEF s3
  <2>6. Plain(s3, Supervise(s3))
    BY <1>m, <1>t, <2>5
  <2>7. Plain(q, s2)
    BY <2>3, <2>4, PlainTwice
  <2>8. Plain(q, s3)
    BY <2>5, <2>7, PlainTwice
  <2>9. Plain(q, Supervise(s3))
    BY <2>6, <2>8, PlainTwice
  <2> QED BY <1>r, <2>2, <2>3, <2>9
<1>6. CASE ReacquireTeardown \/ GiveupTeardown
  <2>1. radio' = radio /\ pc'.at \in {"reacquire2", "giveup2"}
    BY <1>6, <1>a DEF ReacquireTeardown, GiveupTeardown, GoOn, PcType
  <2>2. \E s1, E : /\ Plain(q, s1)
                   /\ q' = AbortBurstQ(Cancel(s1, E))
    <3>1. Plain(q, GridStop(q, "POLL")) /\ Plain(q, GridStopAll(q))
      BY <1>a, <1>m
    <3>2. Plain(GridStopAll(q), Disarm(GridStopAll(q), OneShots))
      BY <1>m, <1>t, <3>1
    <3>3. Plain(q, Disarm(GridStopAll(q), OneShots))
      BY <3>1, <3>2, PlainTwice
    <3> QED BY <1>6, <3>1, <3>3 DEF ReacquireTeardown, GiveupTeardown
  <2>3. PICK s1, E : Plain(q, s1) /\ q' = AbortBurstQ(Cancel(s1, E))
    BY <2>2
  <2>4. Plain(s1, Cancel(s1, E))
    BY <1>m, <1>t, <2>3
  <2>5. Plain(Cancel(s1, E), q')
    BY <1>m, <1>t, <2>3, <2>4
  <2>6. Plain(q, Cancel(s1, E))
    BY <2>3, <2>4, PlainTwice
  <2>7. Plain(q, q')
    BY <2>5, <2>6, PlainTwice
  <2> QED BY <2>1, <2>7, SinkSettles
<1>7. CASE ReacquireScan
  <2>1. q' = Return(Arm(Post(q, "PREP"), "EV10")) /\ radio'.failed = radio.failed
    BY <1>7, <1>a DEF ReacquireScan, Shut, RadioType
  <2>2. Plain(q, Post(q, "PREP"))
    BY <1>a, <1>m
  <2>3. Plain(Post(q, "PREP"), Arm(Post(q, "PREP"), "EV10"))
    BY <1>m, <1>t, <2>2
  <2>4. Plain(q, Arm(Post(q, "PREP"), "EV10"))
    BY <2>2, <2>3, PlainTwice
  <2> QED BY <1>r, <2>1, <2>4
<1>8. CASE GiveupClaim
  <2>1. q' = q /\ radio' = radio /\ pc'.at = "giveup3"
    BY <1>8, <1>a DEF GiveupClaim, GoOn, PcType
  <2> QED BY <2>1 DEF Settles
<1>9. CASE GiveupCamp
  <2> DEFINE s1 == IF pc.saw = "waitRearm" THEN ArmPersistQ(bond, q) ELSE q
             s2 == Cancel(s1, {"CONFIRM"})
  <2>1. /\ radio' = Listen("session", TRUE)
        /\ q' \in {Return(FreshPairQ(q)), Return(WatchdogTimer(s2))}
    BY <1>9, CampTaken
  <2>2. Plain(q, s1) /\ Plain(q, FreshPairQ(q))
    BY <1>a, <1>m, <1>q
  <2> HIDE DEF s1
  <2>3. Plain(s1, s2)
    BY <1>m, <1>t, <2>2
  <2> HIDE DEF s2
  <2>4. Plain(s2, WatchdogTimer(s2))
    BY <1>m, <1>t, <2>3
  <2>5. Plain(q, s2)
    BY <2>2, <2>3, PlainTwice
  <2>6. Plain(q, WatchdogTimer(s2))
    BY <2>4, <2>5, PlainTwice
  <2> QED BY <1>a, <1>r, <2>1, <2>2, <2>6, RadioSettles
<1>10. CASE TombstoneBond
  <2>1. q' = Cancel(q, {"PERSIST"}) /\ radio' = radio /\ pc.at = "clear"
    BY <1>10 DEF TombstoneBond
  <2>2. Plain(q, q')
    BY <1>a, <1>m, <2>1
  <2> QED BY <2>1, <2>2 DEF Settles, Plain
<1> QED BY <1>1, <1>2, <1>3, <1>4, <1>5, <1>6, <1>7, <1>8, <1>9, <1>10 DEF Continues

LEMMA SinkStepSettles ==
  ASSUME NoFaults, TypeOK, Settled, Next, ~Handlers, ~Continues, ~Reset
  PROVE  Settles
<1>a. /\ Tmos /\ q \in QueueType /\ radio \in RadioType /\ pc \in PcType /\ Outcomes = {TRUE}
      /\ ~(faults < MaxFaults) /\ q.grid \in Grids
  BY NoRefusal DEF NoFaults, TypeOK, QueueType
<1>n. /\ \A e \in {"RESTART", "TX15", "TX15B", "POST_RX", "QUIESCE", "ACK", "POLL", "BOOT", "TIMEOUT", "CONFIRM"} : e \in Events
      /\ "BOOT" \in OneShots /\ "EV10" \in OneShots /\ {"BOOT"} \in SUBSET OneShots
      /\ {"EV10"} \in SUBSET OneShots /\ "POLL" \in Grids /\ "ACK" \in Grids /\ "halted" \in Grids
  BY Names DEF Grids
<1>f. \A t : Retry(t, TRUE) = t
  BY DEF Retry
<1>c. Preempts => pc'.at = pc.at
  BY <1>a DEF Preempts, PcType
<1>o. \A t \in QueueType : /\ \A e \in Events : Plain(t, Post(t, e))
                           /\ \A e \in Events \ {"RESTART"} : Plain(t, PostDelayed(t, e))
                           /\ \A E : Plain(t, Cancel(t, E))
                           /\ \A s \in OneShots : Plain(t, Arm(t, s))
                           /\ \A T \in SUBSET OneShots : Plain(t, Disarm(t, T))
                           /\ \A g \in Grids : Plain(t, GridStart(t, g)) /\ Plain(t, GridStop(t, g))
                           /\ Plain(t, Supervise(t)) /\ Plain(t, HandGrid(t))
                           /\ \A b : Plain(t, ArmPersistQ(b, t))
                           /\ Plain(t, t)
  BY PlainOps, PlainMacros
<1>t. \A t, u : Plain(t, u) => u \in QueueType
  BY DEF Plain
<1>2. \A t, u, v : Plain(t, u) /\ Plain(u, v) => Plain(t, v)
  BY DEF Plain
<1>3. CASE Receives
  <2>1. pc'.at = pc.at
    <3>1. Received
      BY <1>3 DEF Receives, RxNoise, RxScanNoise, RxPairAccept, RxPairRekey, RxConnected
    <3> QED BY <1>c, <3>1 DEF Received
  <2>2. radio'.failed \in {FALSE, radio.failed}
    <3>1. radio' = Shut
      BY <1>3, <1>a DEF Receives, RxNoise, RxScanNoise, RxPairAccept, RxPairRekey, RxConnected
    <3> QED BY <1>a, <3>1, RadioSettles
  <2>3. Plain(q, q')
    <3>1. CASE RxNoise \/ RxScanNoise
      BY <3>1, <1>a, <1>n, <1>o DEF RxNoise, RxScanNoise
    <3>2. CASE RxPairAccept
      <4>1. q' = Post(Disarm(q, {"BOOT"}), "TX15")
        BY <3>2, <1>a DEF RxPairAccept
      <4>2. Plain(q, Disarm(q, {"BOOT"}))
        BY <1>a, <1>n, <1>o
      <4>3. Plain(Disarm(q, {"BOOT"}), q')
        BY <1>n, <1>o, <1>t, <4>1, <4>2
      <4> QED BY <1>2, <4>2, <4>3
    <3>3. CASE RxPairRekey
      <4>1. q' = GridStart(Cancel(q, {"PREP"}), "ACK")
        BY <3>3 DEF RxPairRekey
      <4>2. Plain(q, Cancel(q, {"PREP"}))
        BY <1>a, <1>o
      <4>3. Plain(Cancel(q, {"PREP"}), q')
        BY <1>n, <1>o, <1>t, <4>1, <4>2
      <4> QED BY <1>2, <4>2, <4>3
    <3>4. CASE RxConnected
      <4>1. q' = Post(Arm(q, "EV10"), "RESTART")
        BY <3>4 DEF RxConnected
      <4>2. Plain(q, Arm(q, "EV10"))
        BY <1>a, <1>n, <1>o
      <4>3. Plain(Arm(q, "EV10"), q')
        BY <1>n, <1>o, <1>t, <4>1, <4>2
      <4> QED BY <1>2, <4>2, <4>3
    <3> QED BY <1>3, <3>1, <3>2, <3>3, <3>4 DEF Receives
  <2> QED BY <2>1, <2>2, <2>3, SinkSettles
<1>4. CASE Sends
  <2>1. pc'.at = pc.at
    <3>1. Sent
      BY <1>4 DEF Sends, TxDoneBurst, TxDoneTombstone, TxDonePromote, TxDoneRekey, TxDonePoll,
                  TxDoneStray, TxFail
    <3> QED BY <1>c, <3>1 DEF Sent
  <2>2. radio'.failed \in {FALSE, radio.failed}
    <3>1. radio' \in {Shut, Listen("session", TRUE)}
      BY <1>4, <1>a DEF Sends, TxDoneBurst, TxDoneTombstone, TxDonePromote, TxDoneRekey,
                       TxDonePoll, TxDoneStray, TxFail
    <3> QED BY <1>a, <3>1, RadioSettles
  <2>3. Plain(q, q')
    <3>1. CASE TxDoneBurst \/ TxDonePoll \/ TxDoneStray
      <4>1. \/ q' = PostDelayed(q, "TX15B") \/ q' = q
            \/ q' = Post(q, "POST_RX") \/ q' = Post(q, "RESTART")
        BY <3>1 DEF TxDoneBurst, TxDonePoll, TxDoneStray
      <4>2. "TX15B" \in Events \ {"RESTART"}
        BY <1>n
      <4> QED BY <1>a, <1>n, <1>o, <4>1, <4>2
    <3>2. CASE TxDoneTombstone
      <4>1. Plain(q, GridStop(q, "ACK"))
        BY <1>a, <1>n, <1>o
      <4>2. Plain(GridStop(q, "ACK"), Disarm(GridStop(q, "ACK"), {"EV10"}))
        BY <1>n, <1>o, <1>t, <4>1
      <4>3. PICK s1, E : Plain(q, s1) /\ q' = Post(Cancel(s1, E), "RESTART")
        BY <3>2, <1>2, <1>a, <1>o, <4>1, <4>2 DEF TxDoneTombstone
      <4>4. Plain(s1, Cancel(s1, E))
        BY <1>o, <1>t, <4>3
      <4>5. Plain(Cancel(s1, E), q')
        BY <1>n, <1>o, <1>t, <4>3, <4>4
      <4>6. Plain(q, Cancel(s1, E))
        BY <1>2, <4>3, <4>4
      <4> QED BY <1>2, <4>5, <4>6
    <3>3. CASE TxDonePromote
      <4> DEFINE s1 == GridStart(q, "POLL")
      <4>1. Plain(q, s1)
        BY <1>a, <1>n, <1>o
      <4>2. PICK s2 : Plain(s1, s2) /\ q' = Supervise(s2)
        <5>1. "CONFIRM" \in Events \ {"RESTART"}
          BY <1>n
        <5>2. /\ Plain(s1, PostDelayed(s1, "CONFIRM"))
              /\ Plain(s1, ArmPersistQ(CommitRam(bond), s1))
          BY <1>o, <1>t, <4>1, <5>1
        <5>3. q' \in {Supervise(PostDelayed(s1, "CONFIRM")), Supervise(ArmPersistQ(CommitRam(bond), s1))}
          BY <3>3 DEF TxDonePromote
        <5> QED BY <5>2, <5>3
      <4> HIDE DEF s1
      <4>3. Plain(s2, q')
        BY <1>o, <1>t, <4>2
      <4>4. Plain(q, s2)
        BY <1>2, <4>1, <4>2
      <4> QED BY <1>2, <4>3, <4>4
    <3>4. CASE TxDoneRekey
      <4> DEFINE s1 == Cancel(q, {"PREP"})
                 s2 == Supervise(s1)
      <4>1. q' = HandGrid(s2)
        BY <3>4 DEF TxDoneRekey
      <4>2. Plain(q, s1)
        BY <1>a, <1>o
      <4> HIDE DEF s1
      <4>3. Plain(s1, s2)
        BY <1>o, <1>t, <4>2
      <4> HIDE DEF s2
      <4>4. Plain(s2, q')
        BY <1>o, <1>t, <4>1, <4>3
      <4>5. Plain(q, s2)
        BY <1>2, <4>2, <4>3
      <4> QED BY <1>2, <4>4, <4>5
    <3>5. CASE TxFail
      BY <3>5, <1>a DEF TxFail
    <3> QED BY <1>4, <3>1, <3>2, <3>3, <3>4, <3>5 DEF Sends
  <2> QED BY <2>1, <2>2, <2>3, SinkSettles
<1>5. CASE GridPosts \/ GridSends
  <2>1. pc' = pc /\ radio' = radio
    BY <1>5, <1>a DEF GridPosts, GridSends
  <2>2. q' \in {Post(q, "ACK"), Post(q, "POLL"), GridStart(q, "halted")}
    BY <1>5, <1>a DEF GridPosts, GridSends
  <2>3. Plain(q, q')
    BY <1>a, <1>n, <1>o, <2>2
  <2> QED BY <2>1, <2>3, SinkSettles
<1>6. ASSUME NEW t \in OneShots, OneShotFires(t)
      PROVE  Settles
  <2>1. q' = Post([q EXCEPT !.timers = @ \ {t}], Expiry[t]) /\ pc' = pc /\ radio' = radio
    BY <1>6 DEF OneShotFires, Expires
  <2>2. q'.ev = q.ev /\ q'.delayed = q.delayed
    BY <1>a, <2>1 DEF Post, QueueType
  <2> QED BY <2>1, <2>2 DEF Settles
<1>7. ASSUME NEW e \in Events, DelayFires(e)
      PROVE  Settles
  <2>1. q' = Post([q EXCEPT !.delayed = @ \ {e}], e) /\ pc' = pc /\ radio' = radio
    BY <1>7 DEF DelayFires, Expires
  <2>2. q'.ev = q.ev /\ q'.delayed \subseteq q.delayed
    BY <1>a, <2>1 DEF Post, QueueType
  <2> QED BY <2>1, <2>2 DEF Settles
<1>8. CASE BondErase
  <2>1. q' = q /\ radio' = radio /\ q.ev = {} /\ pc.at = "idle"
    BY <1>8 DEF BondErase, Foreground
  <2> QED BY <2>1 DEF Settles
<1>9. CASE QuiesceRequest
  BY <1>9, <1>a, <1>n, <1>o, SinkSettles DEF QuiesceRequest
<1>10. CASE DiagIntervene
  <2>1. /\ q' = Cancel(q, {"RESTART"}) /\ pc' = pc
        /\ radio' \in {Listen(radio.aa, TRUE), Shut}
    BY <1>10, <1>a, <1>f DEF DiagIntervene
  <2>2. Plain(q, q')
    BY <1>a, <1>o, <2>1
  <2>3. radio'.failed \in {FALSE, radio.failed}
    BY <1>a, <2>1, RadioSettles
  <2> QED BY <2>1, <2>2, <2>3, SinkSettles
<1>11. CASE Ages
  BY <1>11, <1>a, <1>o, SinkSettles DEF Ages
<1>12. CASE CompletionLost
  BY <1>12, <1>a DEF CompletionLost
<1> QED BY <1>3, <1>4, <1>5, <1>6, <1>7, <1>8, <1>9, <1>10, <1>11, <1>12 DEF Next, Timers, Calls

LEMMA SettledStep ==
  ASSUME NoFaults, TypeOK, Settled, Next
  PROVE  Settled'
<1>1. CASE Reset
  BY <1>1 DEF Reset, BootQueue, BootRadio, Settled
<1>2. CASE ~Reset
  BY <1>2, HandlerSettles, ContinueSettles, SinkStepSettles, SettlesStep
<1> QED BY <1>1, <1>2

\* A burst that a step ends, or that is about to be dropped, needs nothing.
LEMMA CarriedEnds ==
  ASSUME quiesced' \/ ~link'.burst \/ link'.ev10 \/ Forsaken'
  PROVE  BurstCarried'
BY DEF BurstCarried

\* The burst a step leaves as it is
SameBurst ==
  /\ quiesced => quiesced'
  /\ link'.burst /\ ~link'.ev10 => link.burst /\ ~link.ev10 /\ link'.idx = link.idx
  /\ Forsaken => Forsaken'

\* A step that leaves a transmission on the air alone
LEMMA CarriedKept ==
  ASSUME BurstCarried, SameBurst, Gentle(q, q'), radio'.mode \in {radio.mode, "tx"},
         \/ pc'.at \notin {"bootpair", "bootsession", "bootclose", "giveup2", "giveup3"}
         \/ pc.at \in {"bootpair", "bootsession", "bootclose", "giveup2", "giveup3"}
  PROVE  BurstCarried'
BY DEF BurstCarried, SameBurst, Carried, Gentle

\* A step that takes the radio, with no transmission of a burst on the air
LEMMA CarriedAgain ==
  ASSUME BurstCarried, SameBurst,
         Owes(q, "TX15") => Owes(q', "TX15"), Owes(q, "TX15B") => Owes(q', "TX15B"),
         \/ radio.mode # "tx" \/ Owes(q, "RESTART")
         \/ pc.at \in {"bootpair", "bootsession", "bootclose", "giveup2", "giveup3"}
  PROVE  BurstCarried'
BY DEF BurstCarried, SameBurst, Carried

\* What every step of the proof has at hand
BurstHyp == NoFaults /\ DInv /\ KeysUp /\ Settled /\ BurstCarried

LEMMA BurstFacts ==
  ASSUME BurstHyp
  PROVE  /\ Tmos /\ q \in QueueType /\ radio \in RadioType /\ link \in LinkType /\ pc \in PcType
         /\ Outcomes = {TRUE} /\ ~(faults < MaxFaults)
         /\ link.burst => link.state # "connected" /\ ~link.boot /\ ~Terminal(link)
         /\ \A l \in LinkType : ~FreshPair(l).burst
<1>1. NoFaults /\ TypeOK /\ WindowShape /\ KeysUp
  BY DEF BurstHyp, DInv, DeadlineInvariant
<1>2. /\ Tmos /\ q \in QueueType /\ radio \in RadioType /\ link \in LinkType /\ pc \in PcType
  BY <1>1 DEF TypeOK, NoFaults
<1>3. Outcomes = {TRUE} /\ ~(faults < MaxFaults)
  BY <1>1, NoRefusal
<1>4. link.burst => link.state # "connected" /\ ~link.boot /\ ~Terminal(link)
  BY <1>1 DEF KeysUp, WindowShape, Terminal
<1>5. \A l \in LinkType : ~FreshPair(l).burst
  BY DEF FreshPair, ForgetAttempt, AbortBurst, LinkType
<1> QED BY <1>2, <1>3, <1>4, <1>5

\* The steps that end a burst, or find none
LEMMA BurstEndsStep ==
  ASSUME BurstHyp,
         \/ Quiesce \/ Start \/ BootWindowStep \/ RestartFallback \/ ReacquireFresh
         \/ ReacquireKeysUp \/ ReacquireTeardown \/ ReacquireScan \/ GiveupStart
         \/ GiveupTeardown \/ RxPairRekey \/ RxConnected
         \/ TxDoneTombstone \/ TxDonePromote \/ TxDoneRekey \/ TxDonePoll
         \/ TxDoneStray \/ DiagIntervene \/ Reset
  PROVE  BurstCarried'
<1>a. /\ link \in LinkType /\ pc \in PcType
      /\ link.burst => link.state # "connected" /\ ~link.boot /\ ~Terminal(link)
      /\ ~FreshPair(link).burst
  BY BurstFacts
<1>1. CASE Quiesce
  BY <1>1, CarriedEnds DEF Quiesce
<1>2. CASE Start
  <2>1. ~link.burst
    BY <1>2 DEF Start, Turn, Current, BurstHyp, DInv, BondInvariant, StartOnce, Unstarted
  <2>2. link'.burst = link.burst
    BY <1>2, <1>a DEF Start, WatchdogOn, LinkType
  <2> QED BY <2>1, <2>2, CarriedEnds
<1>3. CASE BootWindowStep
  BY <1>3, <1>a, CarriedEnds DEF BootWindowStep, CloseWindow, LinkType
<1>4. CASE RestartFallback \/ ReacquireFresh
  BY <1>4, <1>a, CarriedEnds DEF RestartFallback, ReacquireFresh
<1>5. CASE ReacquireKeysUp
  <2>1. ~link.burst
    BY <1>5, <1>a DEF ReacquireKeysUp, Lapsed
  <2>2. link'.burst = link.burst
    BY <1>5, <1>a DEF ReacquireKeysUp, LinkType
  <2> QED BY <2>1, <2>2, CarriedEnds
<1>6. CASE ReacquireTeardown \/ GiveupTeardown
  <2>1. ~link'.burst
    BY <1>6, <1>a DEF ReacquireTeardown, GiveupTeardown, AbortBurst, CloseWindow, LinkType
  <2> QED BY <2>1, CarriedEnds
<1>7. CASE ReacquireScan
  <2>1. link'.ev10
    BY <1>7, <1>a DEF ReacquireScan, LinkType
  <2> QED BY <2>1, CarriedEnds
<1>8. CASE GiveupStart
  <2>1. pc'.at = "giveup1"
    BY <1>8, <1>a DEF GiveupStart, Goto, PcType
  <2> QED BY <2>1, CarriedEnds DEF Forsaken
<1>9. CASE RxPairRekey
  <2>1. link'.ev10
    BY <1>9, <1>a DEF RxPairRekey, LinkType
  <2> QED BY <2>1, CarriedEnds
<1>10. CASE RxConnected
  <2>1. ~link.burst
    BY <1>10, <1>a DEF RxConnected
  <2>2. link'.burst = link.burst
    BY <1>10, <1>a DEF RxConnected, LinkType
  <2> QED BY <2>1, <2>2, CarriedEnds
<1>11. CASE TxDoneTombstone
  <2>1. ~link'.burst
    BY <1>11, <1>a DEF TxDoneTombstone, AbortBurst, LinkType
  <2> QED BY <2>1, CarriedEnds
<1>15. CASE TxDonePromote
  <2>1. /\ AbortBurst(link).burst = FALSE
        /\ link' = [AbortBurst(link) EXCEPT !.ev10 = FALSE, !.recent = TRUE,
             !.state = "connected", !.confirm = IF link.fresh THEN "waitRx" ELSE "none"]
    BY <1>15, <1>a DEF TxDonePromote, AbortBurst, LinkType
  <2>2. ~link'.burst
    BY <1>a, <2>1 DEF AbortBurst, LinkType
  <2> QED BY <2>2, CarriedEnds
<1>16. CASE TxDoneRekey
  <2>1. ~link'.burst
    BY <1>16, <1>a DEF TxDoneRekey, LinkType
  <2> QED BY <2>1, CarriedEnds
<1>12. CASE TxDonePoll \/ TxDoneStray
  BY <1>12, CarriedEnds DEF TxDonePoll, TxDoneStray
<1>13. CASE DiagIntervene
  <2>1. ~link.burst
    BY <1>13, <1>a DEF DiagIntervene
  <2>2. link'.burst = link.burst
    BY <1>13, <1>a DEF DiagIntervene, LinkType
  <2> QED BY <2>1, <2>2, CarriedEnds
<1>14. CASE Reset
  <2>1. ~link'.burst
    BY <1>14 DEF Reset, BootLink
  <2> QED BY <2>1, CarriedEnds
<1> QED BY <1>1, <1>2, <1>3, <1>4, <1>5, <1>6, <1>7, <1>8, <1>9, <1>10, <1>11, <1>12,
           <1>13, <1>14, <1>15, <1>16

\* The steps of the burst: accepted, sent, completed, sent again
LEMMA BurstSendsStep ==
  ASSUME BurstHyp, RxPairAccept \/ TxPair15 \/ TxPair15B \/ TxDoneBurst
  PROVE  BurstCarried'
<1>a. /\ Tmos /\ link \in LinkType /\ q \in QueueType /\ pc \in PcType /\ radio \in RadioType
      /\ Outcomes = {TRUE}
  BY BurstFacts
<1>n. "TX15" \in Events /\ "TX15B" \in Events /\ "RESTART" \in Events /\ {"BOOT"} \in SUBSET OneShots
  BY Names
<1>t. ASSUME NEW x \in {"TX15", "TX15B"}, Turn(x)
      PROVE  pc.at = "idle" /\ ~Owes(Return(Took(x)), "RESTART")
  <2>1. pc.at = "idle" /\ q.ev = {} /\ "RESTART" \notin q.delayed
    BY <1>t DEF Turn, BurstHyp, Settled
  <2>2. "RESTART" \notin q.pend
    BY <1>t, <2>1, <1>n DEF Turn, Current, Prio
  <2>3. ~Owes(q, "RESTART")
    BY <2>1, <2>2 DEF Owes
  <2>4. Took(x) \in QueueType /\ ~Owes(Took(x), "RESTART")
    BY <1>a, <1>n, <2>3, Taken DEF Took, Current, Owes, QueueType
  <2> QED BY <2>1, <2>4, RestartNew
<1>1. CASE RxPairAccept
  <2>1. q' = Post(Disarm(q, {"BOOT"}), "TX15")
    BY <1>1, <1>a DEF RxPairAccept
  <2>2. Disarm(q, {"BOOT"}) \in QueueType
    BY <1>a, <1>n, QueueOps
  <2>3. Owes(q', "TX15")
    BY <1>n, <2>1, <2>2, OwesNew
  <2> QED BY <2>3 DEF BurstCarried, Carried
<1>2. CASE TxDoneBurst
  <2>1. link'.idx = 1
    BY <1>2, <1>a DEF TxDoneBurst, LinkType
  <2>2. Owes(q', "TX15B")
    BY <1>2, <1>a, <1>n, OwesNew DEF TxDoneBurst
  <2> QED BY <2>1, <2>2 DEF BurstCarried, Carried
<1>s. ASSUME NEW x \in {"TX15", "TX15B"}, NEW aa, Turn(x), TxPair(x, aa), pc' = pc
      PROVE  BurstCarried'
  <2>1. q' = Return(Took(x)) /\ radio' = Transmit(aa, TRUE)
    BY <1>a, <1>s DEF TxPair
  <2>2. radio'.mode = "tx"
    BY <1>a, <2>1, RadioSettles
  <2>3. pc'.at = "idle" /\ ~Owes(q', "RESTART")
    BY <1>t, <1>s, <2>1
  <2> QED BY <2>2, <2>3 DEF BurstCarried, Carried
<1>3. CASE TxPair15
  BY <1>3, <1>s DEF TxPair15
<1>4. CASE TxPair15B
  <2>1. CASE link.burst /\ link.idx = 1
    BY <1>4, <1>s, <2>1 DEF TxPair15B
  <2>2. CASE ~(link.burst /\ link.idx = 1)
    <3>1. Turn("TX15B") /\ link' = link /\ radio' = radio /\ pc' = pc
          /\ q' = Return(Took("TX15B")) /\ quiesced' = quiesced
      BY <1>4, <2>2 DEF TxPair15B
    <3>2. pc'.at = "idle" /\ ~Owes(q', "RESTART")
      BY <1>t, <3>1
    <3>3. Took("TX15B") \in QueueType /\ (Owes(q, "TX15") => Owes(Took("TX15B"), "TX15"))
      BY <1>a, <1>n, Taken
    <3>4. Owes(q, "TX15") => Owes(q', "TX15")
      BY <1>n, <3>1, <3>3, OwesKept
    <3> QED BY <2>2, <3>1, <3>2, <3>4 DEF BurstHyp, BurstCarried, Carried, Forsaken
  <2> QED BY <2>1, <2>2
<1> QED BY <1>1, <1>2, <1>3, <1>4

\* Handlers that leave the burst alone
LEMMA BurstHandlerStep ==
  ASSUME BurstHyp,
         \/ PersistSnapshot \/ CampTick \/ ConfirmClaim \/ RestartDrop \/ RestartRearm
         \/ PostPollRx \/ PairPrep \/ SendPairAck \/ SendPoll \/ TimeoutAlive
  PROVE  BurstCarried'
<1> USE DEF SameBurst
<1>a. /\ Tmos /\ link \in LinkType /\ q \in QueueType /\ pc \in PcType /\ radio \in RadioType
      /\ Outcomes = {TRUE} /\ BurstCarried
      /\ link.burst => link.state # "connected" /\ ~link.boot /\ ~Terminal(link)
  BY BurstFacts DEF BurstHyp
<1>n. /\ {"PERSIST", "BOOT", "CONFIRM", "RESTART", "POST_RX", "PREP", "ACK", "POLL", "TIMEOUT"}
           \subseteq Events \ {"TX15", "TX15B"}
      /\ "PREP" \in Events \ {"RESTART"} /\ "ACK" \in Grids
  BY Names DEF Grids
<1>g. \A x \in Events \ {"TX15", "TX15B"} :
         Took(x) \in QueueType /\ Gentle(q, Took(x)) /\ Gentle(q, Return(Took(x)))
  BY <1>a, GentleTook, TookType
<1>o. ASSUME NEW x \in Events \ {"TX15", "TX15B"}, NEW t, Gentle(Took(x), t)
      PROVE  Gentle(q, Return(t))
  <2>1. Gentle(q, t) /\ t \in QueueType
    BY <1>g, <1>o, GentleTwice DEF Gentle
  <2> QED BY <2>1, GentleOps, GentleTwice
<1>1. CASE PersistSnapshot
  <2>1. link' = link /\ radio' = radio /\ quiesced' = quiesced /\ pc.at = "idle"
    BY <1>1 DEF PersistSnapshot, Turn
  <2>2. pc'.at \in {"idle", "persist1"}
    BY <1>1, <1>a, <2>1 DEF PersistSnapshot, Goto, PcType
  <2>3. q' \in {Took("PERSIST"), Return(Took("PERSIST"))}
    BY <1>1 DEF PersistSnapshot
  <2> QED BY <1>a, <1>g, <1>n, <2>1, <2>2, <2>3, CarriedKept DEF Forsaken
<1>2. CASE CampTick
  <2>1. CASE link.burst
    <3>1. /\ pc' = pc /\ quiesced' = quiesced /\ radio' = radio /\ pc.at = "idle"
          /\ q' = Return(Took("BOOT"))
      BY <1>2, <1>a, <2>1 DEF CampTick, Turn
    <3>2. link'.burst = link.burst /\ link'.idx = link.idx /\ link'.ev10 = link.ev10
      BY <1>2, <1>a, <2>1 DEF CampTick, LinkType
    <3> QED BY <1>a, <1>g, <1>n, <3>1, <3>2, CarriedKept DEF Forsaken
  <2>2. CASE ~link.burst
    <3>1. link'.burst = link.burst
      BY <1>2, <1>a DEF CampTick, LinkType
    <3> QED BY <2>2, <3>1, CarriedEnds
  <2> QED BY <2>1, <2>2
<1>3. CASE ConfirmClaim
  <2>1. /\ pc'.at = "confirm" /\ pc'.saw = link.confirm /\ pc.at = "idle"
        /\ q' = Took("CONFIRM") /\ radio' = radio /\ quiesced' = quiesced
    BY <1>3, <1>a DEF ConfirmClaim, Goto, PcType, Turn
  <2>2. CASE link.confirm = "waitRx"
    BY <2>1, <2>2, CarriedEnds DEF Forsaken
  <2>3. CASE link.confirm # "waitRx"
    <3>1. link'.burst = link.burst /\ link'.idx = link.idx /\ link'.ev10 = link.ev10
      BY <1>3, <1>a, <2>3 DEF ConfirmClaim, LinkType
    <3> QED BY <1>a, <1>g, <1>n, <2>1, <2>3, <3>1, CarriedKept DEF Forsaken
  <2> QED BY <2>2, <2>3
<1>4. CASE RestartDrop
  <2>1. link'.ev10
    BY <1>4 DEF RestartDrop
  <2> QED BY <2>1, CarriedEnds
<1>5. CASE RestartRearm
  <2>1. /\ pc'.at = "restart" /\ pc.at = "idle" /\ link' = link /\ quiesced' = quiesced
        /\ q' = Took("RESTART")
    BY <1>5, <1>a DEF RestartRearm, Goto, PcType, Turn
  <2>2. Owes(q, "RESTART")
    BY <1>5 DEF RestartRearm, Turn, Current, Owes
  <2>3. Gentle(q, q')
    BY <1>g, <1>n, <2>1
  <2> QED BY <1>a, <2>1, <2>2, <2>3, CarriedAgain DEF Forsaken, Gentle
<1>6. CASE PostPollRx \/ SendPoll
  <2>1. link' = link /\ pc' = pc /\ quiesced' = quiesced /\ pc.at = "idle"
    BY <1>6 DEF PostPollRx, SendPoll, Turn
  <2>2. CASE link.burst
    <3>1. radio' = radio
      BY <1>6, <1>a, <2>2 DEF PostPollRx, SendPoll
    <3>2. PICK x \in {"POST_RX", "POLL"} : q' = Return(Took(x))
      BY <1>6 DEF PostPollRx, SendPoll
    <3>3. Gentle(q, q')
      BY <1>g, <1>n, <3>2
    <3> QED BY <1>a, <2>1, <3>1, <3>3, CarriedKept DEF Forsaken
  <2>3. CASE ~link.burst
    BY <2>1, <2>3, CarriedEnds
  <2> QED BY <2>2, <2>3
<1>7. CASE PairPrep \/ SendPairAck
  <2>1. link' = link /\ pc' = pc /\ quiesced' = quiesced /\ pc.at = "idle"
    BY <1>7 DEF PairPrep, SendPairAck, Turn
  <2>2. CASE link.ev10
    BY <2>1, <2>2, CarriedEnds
  <2>3. CASE ~link.ev10
    <3>1. radio' = radio /\ q' \in {Return(Took("PREP")), Return(Took("ACK"))}
      BY <1>7, <2>3 DEF PairPrep, SendPairAck
    <3>2. Gentle(q, q')
      BY <1>g, <1>n, <3>1
    <3> QED BY <1>a, <2>1, <3>1, <3>2, CarriedKept DEF Forsaken
  <2> QED BY <2>2, <2>3
<1>8. CASE TimeoutAlive
  <2>1. link' = link /\ pc' = pc /\ quiesced' = quiesced /\ pc.at = "idle" /\ radio' = radio
    BY <1>8 DEF TimeoutAlive, Turn
  <2>2. q' \in {Return(Supervise(Took("TIMEOUT"))), Return(Took("TIMEOUT"))}
    BY <1>8 DEF TimeoutAlive
  <2>3. Gentle(Took("TIMEOUT"), Supervise(Took("TIMEOUT")))
    BY <1>g, <1>n, GentleOps
  <2>4. Gentle(q, q')
    BY <1>g, <1>n, <1>o, <2>2, <2>3
  <2> QED BY <1>a, <2>1, <2>4, CarriedKept DEF Forsaken
<1> QED BY <1>1, <1>2, <1>3, <1>4, <1>5, <1>6, <1>7, <1>8

\* The rest of a handler
LEMMA BurstContinueStep ==
  ASSUME BurstHyp,
         \/ PersistAlready \/ PersistErase \/ PersistWrite \/ PersistReadback
         \/ BootWindowListen \/ ConfirmAct \/ RestartFinish
         \/ GiveupClaim \/ GiveupCamp \/ TombstoneBond
  PROVE  BurstCarried'
<1> USE DEF SameBurst
<1>a. /\ Tmos /\ link \in LinkType /\ q \in QueueType /\ pc \in PcType /\ radio \in RadioType
      /\ Outcomes = {TRUE} /\ BurstCarried /\ ~FreshPair(link).burst
  BY BurstFacts DEF BurstHyp
<1>b. NoFaults /\ TypeOK
  BY DEF BurstHyp, DInv
<1>m. \A t \in QueueType : /\ Gentle(t, Arm(t, "BOOT")) /\ Gentle(t, Supervise(t))
                           /\ Gentle(t, Return(t)) /\ Gentle(t, t)
                           /\ \A b : Gentle(t, ArmPersistQ(b, t))
                           /\ \A E : "TX15" \notin E /\ "TX15B" \notin E => Gentle(t, Cancel(t, E))
  BY GentleOps
<1>t. \A t, u : Gentle(t, u) => u \in QueueType
  BY DEF Gentle
<1>2. \A t, u, v : Gentle(t, u) /\ Gentle(u, v) => Gentle(t, v)
  BY DEF Gentle
<1>f. \A t : Retry(t, TRUE) = t
  BY DEF Retry
<1>3. CASE PersistAlready \/ PersistReadback
  <2>1. /\ link' = link /\ quiesced' = quiesced /\ pc'.at = "idle" /\ PersistReturn(q, radio)
        /\ ~Forsaken
    BY <1>3 DEF PersistAlready, PersistReadback, PersistReturn, Idle, Forsaken
  <2>2. CASE quiesced
    BY <2>1, <2>2, CarriedEnds
  <2>3. CASE ~quiesced
    <3>1. q' = Return(q) /\ radio' = radio
      BY <2>1, <2>3 DEF PersistReturn
    <3> QED BY <1>a, <1>m, <2>1, <3>1, CarriedKept
  <2> QED BY <2>2, <2>3
<1>4. CASE PersistErase \/ PersistWrite
  <2>1. q' = q /\ radio' = radio /\ pc'.at \in {"persist2", "persist3"} /\ ~Forsaken
        /\ quiesced' = quiesced
    BY <1>4, <1>a DEF PersistErase, PersistWrite, Goto, PcType, Forsaken
  <2>2. link'.burst = link.burst /\ link'.idx = link.idx /\ link'.ev10 = link.ev10
    BY <1>4, <1>a DEF PersistErase, PersistWrite, LinkType
  <2> QED BY <1>a, <1>m, <2>1, <2>2, CarriedKept
<1>5. CASE BootWindowListen
  <2>1. /\ q' \in {Return(Arm(q, "BOOT")), Return(WatchdogTimer(q))} /\ ~Forsaken
        /\ pc.at \in {"bootpair", "bootsession", "bootclose"} /\ quiesced' = quiesced
    BY <1>5, <1>a, <1>f DEF BootWindowListen, Forsaken
  <2>2. link'.burst = link.burst /\ link'.idx = link.idx /\ link'.ev10 = link.ev10
    BY <1>5, <1>a DEF BootWindowListen, WatchdogOn, LinkType
  <2>3. Gentle(q, Arm(q, "BOOT")) /\ Gentle(Arm(q, "BOOT"), Return(Arm(q, "BOOT")))
    BY <1>a, <1>m, <1>t
  <2>4. Gentle(q, q')
    BY <1>2, <2>1, <2>3 DEF WatchdogTimer
  <2> QED BY <1>a, <2>1, <2>2, <2>4, CarriedAgain DEF Gentle
<1>6. CASE ConfirmAct
  <2>1. CASE pc.saw = "waitRx"
    <3>1. ~link'.burst
      BY <1>6, <1>a, <2>1 DEF ConfirmAct
    <3> QED BY <3>1, CarriedEnds
  <2>2. CASE pc.saw # "waitRx"
    <3>1. /\ link' = link /\ radio' = radio /\ quiesced' = quiesced /\ pc'.at = "idle"
          /\ q' \in {Return(q), Return(ArmPersistQ(bond, q)), Return(Supervise(ArmPersistQ(bond, q)))}
          /\ ~Forsaken
      BY <1>6, <2>2 DEF ConfirmAct, Idle, Forsaken
    <3>2. Gentle(q, ArmPersistQ(bond, q)) /\ Gentle(q, q)
      BY <1>a, <1>m
    <3>3. Gentle(ArmPersistQ(bond, q), Supervise(ArmPersistQ(bond, q)))
      BY <1>m, <1>t, <3>2
    <3>4. Gentle(q, Supervise(ArmPersistQ(bond, q)))
      BY <1>2, <3>2, <3>3
    <3>5. PICK t : Gentle(q, t) /\ q' = Return(t)
      BY <3>1, <3>2, <3>4
    <3>6. Gentle(t, q')
      BY <1>m, <1>t, <3>5
    <3>7. Gentle(q, q')
      BY <1>2, <3>5, <3>6
    <3> QED BY <1>a, <3>1, <3>7, CarriedKept
  <2> QED BY <2>1, <2>2
<1>7. CASE RestartFinish
  <2> DEFINE s1 == IF Unwatched(link) THEN WatchdogTimer(q) ELSE q
             s2 == Cancel(s1, {"CONFIRM"})
             s3 == ArmPersistQ(bond, s2)
  <2>1. Retry(q, ~radio.failed) = q
    BY <1>f DEF BurstHyp, Settled
  <2>2. q' \in {Return(s1), Return(Supervise(s3))}
    BY <1>7, <2>1 DEF RestartFinish
  <2>3. /\ radio' = radio /\ quiesced' = quiesced /\ pc'.at = "idle" /\ ~Forsaken
    BY <1>7 DEF RestartFinish, Idle, Forsaken
  <2>4. link'.burst = link.burst /\ link'.idx = link.idx /\ link'.ev10 = link.ev10
    BY <1>7, <1>a DEF RestartFinish, Decided, WatchdogOn, LinkType
  <2>5. Gentle(q, s1)
    BY <1>a, <1>m DEF WatchdogTimer
  <2> HIDE DEF s1
  <2>6. Gentle(s1, s2)
    BY <1>m, <1>t, <2>5
  <2> HIDE DEF s2
  <2>7. Gentle(s2, s3)
    BY <1>m, <1>t, <2>6
  <2> HIDE DEF s3
  <2>8. Gentle(s3, Supervise(s3))
    BY <1>m, <1>t, <2>7
  <2>9. Gentle(q, Supervise(s3))
    BY <1>2, <2>5, <2>6, <2>7, <2>8
  <2>10. PICK t : Gentle(q, t) /\ q' = Return(t)
    BY <2>2, <2>5, <2>9
  <2>11. Gentle(t, q')
    BY <1>m, <1>t, <2>10
  <2>12. Gentle(q, q')
    BY <1>2, <2>10, <2>11
  <2> QED BY <1>a, <2>3, <2>4, <2>12, CarriedKept
<1>8. CASE GiveupClaim
  <2>1. /\ q' = q /\ radio' = radio /\ pc.at = "giveup2" /\ ~Forsaken /\ quiesced' = quiesced
    BY <1>8 DEF GiveupClaim, Forsaken
  <2>2. link'.burst = link.burst /\ link'.idx = link.idx /\ link'.ev10 = link.ev10
    BY <1>8, <1>a DEF GiveupClaim, LinkType
  <2> QED BY <1>a, <1>m, <2>1, <2>2, CarriedKept
<1>9. CASE GiveupCamp
  <2>1. pc.at = "giveup3" /\ ~Forsaken /\ quiesced' = quiesced
    BY <1>9 DEF GiveupCamp, Forsaken
  <2>2. CASE link' = FreshPair(link)
    BY <1>a, <2>2, CarriedEnds
  <2>3. CASE link' # FreshPair(link)
    <3> DEFINE s1 == IF pc.saw = "waitRearm" THEN ArmPersistQ(bond, q) ELSE q
               s2 == Cancel(s1, {"CONFIRM"})
               s3 == WatchdogTimer(s2)
    <3>1. q' = Return(s3) /\ link' = WatchdogOn([link EXCEPT !.state = "pairing"])
      BY <1>9, <1>b, <2>3, CampTaken
    <3>2. link'.burst = link.burst /\ link'.idx = link.idx /\ link'.ev10 = link.ev10
      BY <1>a, <3>1 DEF WatchdogOn, LinkType
    <3>3. Gentle(q, s1)
      BY <1>a, <1>m
    <3> HIDE DEF s1
    <3>4. Gentle(s1, s2)
      BY <1>m, <1>t, <3>3
    <3> HIDE DEF s2
    <3>5. Gentle(s2, s3)
      BY <1>m, <1>t, <3>4 DEF WatchdogTimer
    <3> HIDE DEF s3
    <3>6. Gentle(s3, q')
      BY <1>m, <1>t, <3>1, <3>5
    <3>7. Gentle(q, q')
      BY <1>2, <3>3, <3>4, <3>5, <3>6
    <3> QED BY <1>a, <2>1, <3>2, <3>7, CarriedAgain DEF Gentle
  <2> QED BY <2>2, <2>3
<1>10. CASE TombstoneBond
  <2>1. /\ link' = link /\ radio' = radio /\ quiesced' = quiesced /\ pc'.at = "idle"
        /\ q' = Cancel(q, {"PERSIST"}) /\ ~Forsaken
    BY <1>10 DEF TombstoneBond, Idle, Forsaken
  <2>2. Gentle(q, q')
    BY <1>a, <1>m, <2>1
  <2> QED BY <1>a, <2>1, <2>2, CarriedKept
<1> QED BY <1>3, <1>4, <1>5, <1>6, <1>7, <1>8, <1>9, <1>10

\* What the sink, the timers, the calls and silence do beside a burst
LEMMA BurstBesideStep ==
  ASSUME BurstHyp,
         \/ RxNoise \/ RxScanNoise \/ TxFail \/ Timers \/ BondErase \/ QuiesceRequest
         \/ Ages \/ CompletionLost
  PROVE  BurstCarried'
<1> USE DEF SameBurst
<1>a. /\ Tmos /\ link \in LinkType /\ q \in QueueType /\ pc \in PcType /\ radio \in RadioType
      /\ Outcomes = {TRUE} /\ BurstCarried /\ ~(faults < MaxFaults)
  BY BurstFacts DEF BurstHyp
<1>n. /\ {"RESTART", "TX15", "TX15B", "ACK", "POLL", "QUIESCE", "TIMEOUT", "BOOT"} \subseteq Events
      /\ {"ACK", "POLL", "QUIESCE"} \subseteq Events \ {"RESTART"} /\ "halted" \in Grids
  BY Names DEF Grids
<1>1. CASE RxNoise
  <2>1. /\ Preempts /\ radio.mode = "rx" /\ quiesced' = quiesced /\ q' = Post(q, "RESTART")
    BY <1>1 DEF RxNoise, Received
  <2>2. link'.burst = link.burst /\ link'.idx = link.idx /\ link'.ev10 = link.ev10
    BY <1>1, <1>a DEF RxNoise, LinkType
  <2>3. pc'.at = pc.at /\ pc'.saw = pc.saw
    BY <1>a, <2>1 DEF Preempts, PcType
  <2>4. (Owes(q, "TX15") => Owes(q', "TX15")) /\ (Owes(q, "TX15B") => Owes(q', "TX15B"))
    BY <1>a, <1>n, <2>1, OwesKept
  <2> QED BY <1>a, <2>1, <2>2, <2>3, <2>4, CarriedAgain DEF Forsaken
<1>2. CASE RxScanNoise \/ TxFail \/ CompletionLost \/ GridSends
  BY <1>2, <1>a DEF RxScanNoise, TxFail, CompletionLost, GridSends
\* A step that changes nothing of the burst but the queue, gently
<1>k. ASSUME Gentle(q, q'), radio' = radio, quiesced' = quiesced, pc' = pc,
             link'.burst = link.burst /\ link'.idx = link.idx /\ link'.ev10 = link.ev10
      PROVE  BurstCarried'
  BY <1>a, <1>k, CarriedKept DEF Forsaken
<1>3. CASE GridPosts \/ QuiesceRequest
  <2>1. UNCHANGED <<link, radio, pc, quiesced>>
    BY <1>3 DEF GridPosts, QuiesceRequest
  <2>2. q' \in {Post(q, "ACK"), Post(q, "POLL"), Post(q, "QUIESCE"), GridStart(q, "halted")}
    BY <1>3 DEF GridPosts, QuiesceRequest
  <2>3. Gentle(q, q')
    BY <1>a, <1>n, <2>2, GentleOps
  <2> QED BY <1>k, <2>1, <2>3
<1>4. ASSUME NEW t \in OneShots, OneShotFires(t)
      PROVE  BurstCarried'
  <2>1. /\ UNCHANGED <<link, radio, pc, quiesced>>
        /\ q' = Post([q EXCEPT !.timers = @ \ {t}], Expiry[t])
    BY <1>4 DEF OneShotFires, Expires
  <2>2. Expiry[t] \in Events \ {"RESTART"}
    BY <1>n, Names DEF OneShots
  <2>3. /\ q' \in QueueType /\ q'.ev = q.ev /\ q'.delayed = q.delayed
        /\ q'.pend = q.pend \cup {Expiry[t]}
    BY <1>a, <2>1, <2>2 DEF Post, QueueType
  <2>4. Gentle(q, q')
    BY <2>2, <2>3 DEF Gentle, Owes
  <2> QED BY <1>k, <2>1, <2>4
<1>5. ASSUME NEW e \in Events, DelayFires(e)
      PROVE  BurstCarried'
  <2>1. /\ UNCHANGED <<link, radio, pc, quiesced>> /\ e \in q.delayed
        /\ q' = Post([q EXCEPT !.delayed = @ \ {e}], e)
    BY <1>5 DEF DelayFires, Expires
  <2>2. /\ q' \in QueueType /\ q'.ev = q.ev /\ q'.delayed = q.delayed \ {e}
        /\ q'.pend = q.pend \cup {e}
    BY <1>a, <2>1 DEF Post, QueueType
  <2>3. Gentle(q, q')
    BY <2>1, <2>2 DEF Gentle, Owes
  <2> QED BY <1>k, <2>1, <2>3
<1>6. CASE BondErase
  <2>1. UNCHANGED <<link, radio, quiesced, q>> /\ pc.at = "idle" /\ pc'.at = "clear"
    BY <1>6, <1>a DEF BondErase, Foreground, Goto, PcType
  <2>2. Gentle(q, q')
    BY <1>a, <2>1, GentleOps
  <2> QED BY <1>a, <2>1, <2>2, CarriedKept DEF Forsaken
<1>7. CASE Ages
  <2>1. UNCHANGED <<q, radio, pc, quiesced>>
    BY <1>7 DEF Ages
  <2>2. link'.burst = link.burst /\ link'.idx = link.idx /\ link'.ev10 = link.ev10
    BY <1>7, <1>a DEF Ages, LinkType
  <2>3. Gentle(q, q')
    BY <1>a, <2>1, GentleOps
  <2> QED BY <1>k, <2>1, <2>2, <2>3
<1> QED BY <1>1, <1>2, <1>3, <1>4, <1>5, <1>6, <1>7 DEF Timers

LEMMA BurstCarriedStep ==
  ASSUME NoFaults, DInv, KeysUp, Settled, BurstCarried, Next
  PROVE  BurstCarried'
<1>1. BurstHyp
  BY DEF BurstHyp
<1> QED BY <1>1, BurstEndsStep, BurstSendsStep, BurstHandlerStep, BurstContinueStep,
           BurstBesideStep DEF Next, Handlers, Continues, Receives, Sends, Calls

\* On CH59x, as long as the radio refuses no arm, a latched pair-ACK burst
\* always has its next transmission posted or on the air: no restart, camp or
\* window tick takes the radio from it.
THEOREM BurstDrivenHolds == Tmos /\ MaxFaults = 0 => (Spec => []BurstDriven)
<1> SUFFICES ASSUME NoFaults
             PROVE  Spec => []BurstDriven
  BY DEF NoFaults
<1>1. Init => KeysUp /\ Settled /\ BurstCarried
  BY DEF Init, BootLink, BootQueue, BootRadio, Idle, KeysUp, Settled, BurstCarried
<1>2. TypeOK /\ BondInvariant /\ DeadlineInvariant
        /\ KeysUp /\ Settled /\ BurstCarried /\ [Next]_vars
      => (KeysUp /\ Settled /\ BurstCarried)'
  <2>1. UNCHANGED vars /\ KeysUp /\ Settled /\ BurstCarried => (KeysUp /\ Settled /\ BurstCarried)'
    BY DEF vars, KeysUp, Settled, BurstCarried, Forsaken, Carried, Owes
  <2> QED BY <2>1, KeysUpStep, SettledStep, BurstCarriedStep DEF DInv
<1>3. BurstCarried => BurstDriven
  BY DEF BurstCarried, Forsaken, Carried, Owes, BurstDriven, Quiet, Outstanding
<1> QED BY <1>1, <1>2, <1>3, TypeCorrect, BondInvariantHolds, DeadlineInvariantHolds,
           PTL DEF Spec
=============================================================================
