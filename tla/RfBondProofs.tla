---------------------------- MODULE RfBondProofs ----------------------------
(***************************************************************************)
(* Confirm before persist, proved: BondInvariant (RfLink) is inductive;    *)
(* and, in the second half, the boot window and the tombstone.             *)
(*                                                                         *)
(* Most steps of the link task only let go of things: events are consumed, *)
(* bursts aborted, windows closed, confirmations claimed.  Such a step is  *)
(* Tame, and one lemma shows that a tame step keeps the invariant.  The    *)
(* proof is then that most actions are tame, and a lemma for each that is  *)
(* not: START, the pair accept, the promotion, the erase and the tombstone *)
(* of BondClear, an early QUIESCE, the ageing of the link and the reset.   *)
(***************************************************************************)
EXTENDS RfLinkProofs

-----------------------------------------------------------------------------
(* Tame steps *)

\* The record may be handed to RF_EVT_PERSIST_BOND.
MayWrite == bond.tombstone \/ bond.rec \in proven

Writing   == {"persist1", "persist2", "persist3"}
Acting    == {"confirm", "giveup3"}

\* A queue that owes no start, and no write that was not owed or allowed
TameQueue(t) ==
  /\ t \in QueueType
  /\ "START" \notin t.pend \cup t.ev \cup t.delayed
  /\ "PERSIST" \notin t.delayed
  /\ "PERSIST" \in t.pend \cup t.ev => MayWrite \/ "PERSIST" \in q.pend \cup q.ev

\* Flags that open no window, start no burst and claim no confirmation
TameLink(l) ==
  /\ l \in LinkType
  /\ l.pairWin => link.pairWin
  /\ l.burst => link.burst /\ l.fresh = link.fresh
  /\ l.confirm \in {"none", link.confirm}

\* A bond that is the same one, no more pending than allowed
TameBond(b) ==
  /\ b \in BondType
  /\ b.peer = bond.peer /\ b.rec = bond.rec
  /\ b.valid = bond.valid /\ b.tombstone = bond.tombstone
  /\ b.pending => bond.pending \/ MayWrite

TamePc ==
  /\ pc'.at \in Writing => pc'.want \in proven
  /\ pc'.at \in Acting /\ pc'.saw = "waitRearm" => MayWrite

IInv == TypeOK /\ BondInvariant

TameStep ==
  /\ TameQueue(q') /\ TameBond(bond') /\ TamePc
  /\ link'.pairWin => link.pairWin
  /\ link'.burst => /\ link.burst /\ (link.fresh => link'.fresh)
                    /\ bond.persisted => bond'.persisted
  /\ link'.confirm # "none" => link.confirm # "none"
  /\ link'.confirm = "waitRearm" => bond.tombstone \/ bond.rec \in proven'
  /\ proven \subseteq proven'
  /\ nv' \in {nv, NoPeer} \cup proven

\* A tame step keeps everything the bond rests on.
LEMMA TameKeeps ==
  ASSUME IInv, TypeOK', TameStep
  PROVE  BondInvariant'
<1> USE DEF IInv, BondInvariant, TameStep
<1>1. Unstarted' /\ StartOnce'
  BY DEF Unstarted, StartOnce, TameQueue
<1>2. OpenWindow'
  BY DEF OpenWindow, TameBond
<1>3. RecordIsPeer'
  BY DEF RecordIsPeer, TameBond
<1>4. Tentative'
  BY DEF Tentative, TameBond, TamePc, MayWrite, Acting
<1>5. KnownBurst'
  BY DEF KnownBurst, TameBond, TypeOK, LinkType, BondType
<1>6. WriteIsProven'
  BY DEF WriteIsProven, TameBond, TameQueue, TamePc, MayWrite, Writing
<1>7. ConfirmBeforePersist'
  BY DEF ConfirmBeforePersist
<1> QED BY <1>1, <1>2, <1>3, <1>4, <1>5, <1>6, <1>7

\* The operations of the executor are tame, but for a persist not allowed.
LEMMA TameOps ==
  ASSUME NEW s, TameQueue(s)
  PROVE  /\ \A e \in Events \ {"START", "PERSIST"} :
              TameQueue(Post(s, e)) /\ TameQueue(PostDelayed(s, e))
         /\ \A E : TameQueue(Cancel(s, E))
         /\ \A t \in OneShots : TameQueue(Arm(s, t))
         /\ \A T \in SUBSET OneShots : TameQueue(Disarm(s, T))
         /\ \A g \in Grids : TameQueue(GridStart(s, g)) /\ TameQueue(GridStop(s, g))
         /\ TameQueue(GridStopAll(s))
         /\ TameQueue(Return(s))
         /\ \A b : MayWrite => TameQueue(ArmPersistQ(b, s))
<1> USE DEF TameQueue
<1>1. \A e \in Events \ {"START", "PERSIST"} : TameQueue(Post(s, e))
  BY QueueOps DEF Post, QueueType
<1>2. \A e \in Events \ {"START", "PERSIST"} : TameQueue(PostDelayed(s, e))
  BY <1>1, QueueOps DEF PostDelayed, QueueType
<1>3. \A E : TameQueue(Cancel(s, E))
  BY QueueOps DEF Cancel, QueueType
<1>4. \A t \in OneShots : TameQueue(Arm(s, t))
  BY QueueOps DEF Arm, QueueType
<1>5. \A T \in SUBSET OneShots : TameQueue(Disarm(s, T))
  BY QueueOps DEF Disarm, QueueType
<1>6. \A g \in Grids : TameQueue(GridStart(s, g)) /\ TameQueue(GridStop(s, g))
  BY QueueOps DEF GridStart, GridStop, QueueType
<1>7. TameQueue(GridStopAll(s))
  BY QueueOps DEF GridStopAll, QueueType
<1>8. TameQueue(Return(s))
  BY QueueOps DEF Return, QueueType
<1>9. \A b : MayWrite => TameQueue(ArmPersistQ(b, s))
  BY QueueMacros, EventNames DEF ArmPersistQ, Post, QueueType
<1> QED BY <1>1, <1>2, <1>3, <1>4, <1>5, <1>6, <1>7, <1>8, <1>9

\* So are the compound ones.
LEMMA TameMacros ==
  ASSUME NEW s, TameQueue(s)
  PROVE  /\ TameQueue(WatchdogTimer(s))
         /\ TameQueue(AbortBurstQ(s))
         /\ TameQueue(FreshPairQ(s))
         /\ TameQueue(Supervise(s))
         /\ TameQueue(HandGrid(s))
         /\ \A ok : TameQueue(Retry(s, ok))
<1>1. /\ {"EV10"} \in SUBSET OneShots /\ "EV10" \in OneShots /\ "BOOT" \in OneShots
      /\ "RESTART" \in Events \ {"START", "PERSIST"} /\ "POLL" \in Grids
  BY EventNames DEF OneShots, Grids
<1>2. TameQueue(WatchdogTimer(s))
  BY <1>1, TameOps DEF WatchdogTimer
<1>3. TameQueue(AbortBurstQ(s))
  BY TameOps DEF AbortBurstQ
<1>4. TameQueue(FreshPairQ(s))
  <2>1. TameQueue(Disarm(GridStopAll(s), {"EV10"}))
    BY <1>1, TameOps
  <2>2. TameQueue(Cancel(Disarm(GridStopAll(s), {"EV10"}),
                  {"PREP", "ACK", "POLL", "POST_RX", "CONFIRM"}))
    BY <2>1, TameOps
  <2> QED BY <1>1, <2>2, TameOps DEF FreshPairQ, AbortBurstQ
<1>5. TameQueue(Supervise(s))
  BY <1>1, TameOps DEF Supervise
<1>6. TameQueue(HandGrid(s))
  BY <1>1, TameOps DEF HandGrid
<1>7. \A ok : TameQueue(Retry(s, ok))
  BY <1>1, TameOps DEF Retry
<1> QED BY <1>2, <1>3, <1>4, <1>5, <1>6, <1>7

\* The helpers on the link's flags are tame.
LEMMA TameFlags ==
  ASSUME NEW l, TameLink(l)
  PROVE  /\ TameLink(WatchdogOn(l))
         /\ TameLink(CloseWindow(l))
         /\ TameLink(AbortBurst(l))
         /\ TameLink(FreshPair(l)) /\ ~FreshPair(l).burst
<1> USE DEF TameLink
<1>1. TameLink(WatchdogOn(l))
  <2>1. /\ WatchdogOn(l).pairWin = l.pairWin /\ WatchdogOn(l).burst = l.burst
        /\ WatchdogOn(l).fresh = l.fresh /\ WatchdogOn(l).confirm = l.confirm
    BY DEF WatchdogOn, LinkType
  <2> QED BY <2>1, LinkOps
<1>2. TameLink(CloseWindow(l))
  BY LinkOps DEF CloseWindow, LinkType
<1>3. TameLink(AbortBurst(l)) /\ ~AbortBurst(l).burst
  BY LinkOps DEF AbortBurst, LinkType
<1>4. /\ ForgetAttempt(l) \in LinkType
      /\ ForgetAttempt(l).confirm = "none" /\ ~ForgetAttempt(l).burst
  <2>1. AbortBurst(l) \in LinkType
    BY LinkOps
  <2> QED BY <1>3, <2>1 DEF ForgetAttempt, LinkType, Confirms
<1>5. TameLink(FreshPair(l)) /\ ~FreshPair(l).burst
  BY <1>4, LinkOps DEF FreshPair, LinkType
<1> QED BY <1>1, <1>2, <1>3, <1>5

\* Once RF_EVT_START has been handled, what is left of the queue is tame.
LEMMA TameStart ==
  ASSUME IInv, "START" \notin q.pend
  PROVE  /\ TameQueue(q)
         /\ \A e : TameQueue(Took(e)) /\ TameQueue(Return(Took(e)))
         /\ TameLink(link)
         /\ TameBond(bond)
         /\ MayWrite => TameBond(ArmPersist(bond))
<1>1. TameQueue(q)
  BY DEF IInv, BondInvariant, TypeOK, TameQueue, StartOnce, WriteIsProven
<1>2. \A e : TameQueue(Took(e))
  <2>1. \A e : Took(e) \in QueueType
    BY TookType DEF IInv, TypeOK
  <2>2. \A e : /\ Took(e).pend \cup Took(e).ev \subseteq q.pend \cup q.ev
               /\ Took(e).delayed = q.delayed
    BY DEF IInv, TypeOK, QueueType, Took, Current
  <2> QED BY <1>1, <2>1, <2>2 DEF TameQueue
<1>3. TameLink(link)
  BY DEF IInv, TypeOK, TameLink
<1>4. TameBond(bond)
  BY DEF IInv, TypeOK, TameBond
<1>5. MayWrite => TameBond(ArmPersist(bond))
  BY BondOps DEF IInv, TypeOK, TameBond, ArmPersist, BondType
<1> QED BY <1>1, <1>2, <1>3, <1>4, <1>5, TameOps

\* Before RF_EVT_START is handled nothing else of the task can run.
LEMMA StartFirst ==
  ASSUME IInv, Next, "START" \in q.pend
  PROVE  \/ Start \/ Quiesce \/ BondErase \/ TombstoneBond
         \/ QuiesceRequest \/ Ages \/ Reset
<1>1. /\ q.pend \subseteq {"START", "QUIESCE"}
      /\ q.ev = {} /\ q.delayed = {} /\ q.timers = {} /\ q.grid = "off"
      /\ link.state = "idle" /\ radio.mode = "off" /\ pc.at \in {"idle", "clear"}
  BY DEF IInv, BondInvariant, Unstarted
<1>2. \A e : Turn(e) => e \in {"START", "QUIESCE"}
  BY <1>1 DEF Turn, Current
<1>3. ~Receives /\ ~Sends /\ ~Timers /\ ~DiagIntervene /\ ~CompletionLost
  <2>1. ~Receives
    BY <1>1 DEF Receives, RxNoise, RxScanNoise, RxPairAccept, RxPairRekey,
                RxConnected, Received
  <2>2. ~Sends
    BY <1>1 DEF Sends, TxDoneBurst, TxDoneTombstone, TxDonePromote,
                TxDoneRekey, TxDonePoll, TxDoneStray, TxFail, Sent
  <2>3. ~Timers
    BY <1>1 DEF Timers, GridPosts, GridSends, OneShotFires, DelayFires
  <2>4. ~DiagIntervene
    BY <1>1 DEF DiagIntervene, Terminal
  <2>5. ~CompletionLost
    BY <1>1 DEF CompletionLost
  <2> QED BY <2>1, <2>2, <2>3, <2>4, <2>5
<1>4. Continues => TombstoneBond
  BY <1>1 DEF Continues, PersistAlready, PersistErase, PersistWrite,
       PersistReadback, BootWindowListen, ConfirmAct, RestartFinish,
       ReacquireTeardown, ReacquireScan, GiveupTeardown, GiveupClaim, GiveupCamp
<1>5. Handlers => Start \/ Quiesce
  <2>1. ~PersistSnapshot /\ ~CampTick /\ ~BootWindowStep /\ ~ConfirmClaim
    BY <1>2 DEF PersistSnapshot, CampTick, BootWindowStep, ConfirmClaim
  <2>2. ~RestartFallback /\ ~RestartDrop /\ ~RestartRearm /\ ~PostPollRx
        /\ ~PairPrep /\ ~SendPairAck /\ ~SendPoll /\ ~TxPair15 /\ ~TxPair15B
    BY <1>2 DEF RestartFallback, RestartDrop, RestartRearm, PostPollRx, PairPrep,
                SendPairAck, SendPoll, TxPair15, TxPair15B
  <2>3. ~TimeoutAlive /\ ~ReacquireFresh /\ ~ReacquireKeysUp /\ ~GiveupStart
    BY <1>2 DEF TimeoutAlive, ReacquireFresh, ReacquireKeysUp, GiveupStart, Lapsed
  <2> QED BY <2>1, <2>2, <2>3 DEF Handlers
<1> QED BY <1>3, <1>4, <1>5 DEF Next, Calls

\* A step that is tame part by part keeps the invariant.
LEMMA TameParts ==
  ASSUME IInv, TypeOK', TameQueue(q'), TameLink(link'), TameBond(bond'), TamePc,
         link'.burst => (bond.persisted => bond'.persisted),
         proven' = proven, nv' \in {nv, NoPeer} \cup proven
  PROVE  BondInvariant'
<1>1. link'.confirm = "waitRearm" => bond.tombstone \/ bond.rec \in proven
  BY DEF IInv, BondInvariant, Tentative, TameLink
<1>2. TameStep
  BY <1>1 DEF TameStep, TameLink
<1> QED BY <1>2, TameKeeps

\* Where a step leaves the program counter tame.
LEMMA TamePoints ==
  ASSUME IInv,
         \/ pc' = pc
         \/ pc' = [pc EXCEPT !.busy = pc'.busy]
         \/ pc'.at \notin Writing \cup Acting
  PROVE  TamePc
<1>1. pc.at \in Writing => pc.want \in proven
  BY DEF IInv, BondInvariant, WriteIsProven, Writing
<1>2. pc.at \in Acting /\ pc.saw = "waitRearm" => MayWrite
  BY DEF IInv, BondInvariant, Tentative, Acting, MayWrite
<1>3. pc \in PcType
  BY DEF IInv, TypeOK
<1> QED BY <1>1, <1>2, <1>3 DEF TamePc, PcType

\* Between two handlers nothing is being written or decided.
LEMMA IdlePoint == Idle.at \notin Writing \cup Acting
BY DEF Idle, Writing, Acting

-----------------------------------------------------------------------------
(* The actions, group by group *)

\* The persist task writes what was proven, or leaves the page blank.
LEMMA PersistKeeps ==
  ASSUME IInv, TypeOK', "START" \notin q.pend,
         \/ PersistSnapshot \/ PersistAlready \/ PersistErase
         \/ PersistWrite \/ PersistReadback \/ Quiesce
  PROVE  BondInvariant'
<1>a. /\ q \in QueueType /\ link \in LinkType /\ bond \in BondType
      /\ pc \in PcType
  BY DEF IInv, TypeOK
<1>b. /\ [bond EXCEPT !.pending = FALSE] \in BondType
      /\ TameBond([bond EXCEPT !.pending = FALSE])
      /\ TameBond([bond EXCEPT !.persisted = TRUE])
      /\ [bond EXCEPT !.pending = FALSE].persisted = bond.persisted
      /\ [bond EXCEPT !.persisted = TRUE].persisted = TRUE
  BY <1>a DEF TameBond, BondType
<1>c. QuiesceTail => TameQueue(q')
  BY DEF QuiesceTail, TameQueue, QueueType, Grids
<1>d. \A s, r : TameQueue(s) /\ PersistReturn(s, r) => TameQueue(q') /\ TamePc
  BY <1>c, TameOps, TamePoints, IdlePoint DEF PersistReturn
<1>e. pc.at \in Writing => pc.want \in proven
  BY DEF IInv, BondInvariant, WriteIsProven, Writing
<1>f. ~bond.tombstone /\ (bond.pending \/ "PERSIST" \in Current) => bond.rec \in proven
  BY DEF IInv, BondInvariant, WriteIsProven, Current
<1>1. CASE PersistSnapshot
  <2>1. TamePc
    <3>1. ~PersistSkips => bond.rec \in proven
      BY <1>1, <1>f DEF PersistSnapshot, PersistSkips, Turn
    <3>2. CASE PersistSkips
      BY <1>1, <3>2, TamePoints DEF PersistSnapshot
    <3>3. CASE ~PersistSkips
      BY <1>1, <1>a, <3>1, <3>3 DEF PersistSnapshot, TamePc, PcType, Goto, Acting
    <3> QED BY <3>2, <3>3
  <2>2. TameQueue(q')
    BY <1>1, TameStart DEF PersistSnapshot
  <2> QED BY <1>1, <1>b, <2>1, <2>2, TameStart, TameParts DEF PersistSnapshot
<1>2. CASE PersistAlready
  BY <1>2, <1>b, <1>d, TameStart, TameParts DEF PersistAlready
<1>3. CASE PersistErase
  <2>1. TameLink(link')
    <3>1. TameLink([link EXCEPT !.wd = FALSE, !.moved = FALSE])
      BY <1>a DEF TameLink, LinkType
    <3> QED BY <1>3, <3>1, TameStart DEF PersistErase
  <2>2. TameQueue(q')
    BY <1>3, TameStart, TameOps DEF PersistErase, OneShots
  <2>3. TamePc
    <3>1. pc'.at = "persist2" /\ pc'.want = pc.want
      BY <1>3, <1>a DEF PersistErase, Goto, PcType
    <3> QED BY <1>3, <1>e, <3>1 DEF PersistErase, TamePc, Writing, Acting
  <2> QED BY <1>3, <2>1, <2>2, <2>3, TameStart, TameParts DEF PersistErase
<1>4. CASE PersistWrite
  <2>1. TameLink(link')
    <3>1. TameLink([link EXCEPT !.recent = @ \/ ~Tmos])
      BY <1>a DEF TameLink, LinkType
    <3>2. TameLink([link EXCEPT !.ev10 = FALSE, !.state = "pairing"])
      BY <1>a DEF TameLink, LinkType
    <3> QED BY <1>4, <3>1, <3>2, TameFlags DEF PersistWrite
  <2>2. TameQueue(q')
    BY <1>4, TameStart, TameMacros DEF PersistWrite
  <2>3. pc.want \in proven
    BY <1>4, <1>e DEF PersistWrite, Writing
  <2>4. TamePc
    <3>1. pc'.at = "persist3" /\ pc'.want = pc.want
      BY <1>4, <1>a DEF PersistWrite, Goto, PcType
    <3> QED BY <2>3, <3>1 DEF TamePc, Acting
  <2>5. nv' \in {nv, NoPeer} \cup proven
    BY <1>4, <2>3 DEF PersistWrite
  <2> QED BY <1>4, <2>1, <2>2, <2>4, <2>5, TameStart, TameParts DEF PersistWrite
<1>5. CASE PersistReadback
  BY <1>5, <1>b, <1>d, TameStart, TameParts DEF PersistReadback
<1>6. CASE Quiesce
  <2>1. TameQueue(q')
    BY <1>6, <1>c, TameStart DEF Quiesce
  <2>2. TamePc
    <3>1. bond.pending /\ ~PersistSkips => bond.rec \in proven
      BY <1>f DEF PersistSkips
    <3>2. [Goto("persist1") EXCEPT !.want = bond.rec].at = "persist1"
          /\ [Goto("persist1") EXCEPT !.want = bond.rec].want = bond.rec
      BY <1>a DEF Goto, PcType
    <3>3. CASE bond.pending /\ ~PersistSkips
      BY <1>6, <3>1, <3>2, <3>3 DEF Quiesce, TamePc, Acting
    <3>4. CASE ~(bond.pending /\ ~PersistSkips)
      BY <1>6, <3>4, TamePoints DEF Quiesce
    <3> QED BY <3>3, <3>4
  <2> QED BY <1>6, <1>b, <2>1, <2>2, TameStart, TameParts DEF Quiesce
<1> QED BY <1>1, <1>2, <1>3, <1>4, <1>5, <1>6

\* The watchdog, the boot window and the confirm deadline let go, and the
\* deadline hands a confirmed pair over to the persist task.
LEMMA WindowKeeps ==
  ASSUME IInv, TypeOK', "START" \notin q.pend,
         \/ CampTick \/ BootWindowStep
         \/ BootWindowListen \/ ConfirmClaim \/ ConfirmAct
  PROVE  BondInvariant'
<1>a. /\ q \in QueueType /\ link \in LinkType /\ bond \in BondType
      /\ pc \in PcType
  BY DEF IInv, TypeOK
<1>b. /\ "RESTART" \in Events \ {"START", "PERSIST"}
      /\ "BOOT" \in OneShots /\ "EV10" \in OneShots
  BY EventNames DEF OneShots
<1>c. \A p \in Points \ (Writing \cup Acting) : Goto(p).at \notin Writing \cup Acting
  BY <1>a DEF Goto, PcType
<1>1. CASE CampTick
  <2>1. TameLink(link')
    <3>1. /\ TameLink([link EXCEPT !.wd = FALSE, !.moved = FALSE])
          /\ TameLink([link EXCEPT !.moved = FALSE])
      BY <1>a DEF TameLink, LinkType
    <3> QED BY <1>1, <3>1, TameStart DEF CampTick
  <2>2. TameQueue(q')
    <3>1. TameQueue(Return(WatchdogTimer(Took("BOOT"))))
      BY TameStart, TameOps, TameMacros
    <3>2. \A ok : TameQueue(Return(WatchdogTimer(
                    Retry(Cancel(Took("BOOT"), {"RESTART"}), ok))))
      BY TameStart, TameOps, TameMacros
    <3> QED BY <1>1, <3>1, <3>2, TameStart DEF CampTick
  <2> QED BY <1>1, <2>1, <2>2, TamePoints, TameStart, TameParts DEF CampTick
<1>2. CASE BootWindowStep
  <2>1. TameLink(link')
    <3>1. TameLink([link EXCEPT !.step = link.step + 1])
            \/ [link EXCEPT !.step = link.step + 1] \notin LinkType
      BY <1>a DEF TameLink, LinkType
    <3>2. link' \in LinkType
      BY DEF TypeOK
    <3> QED BY <1>2, <3>1, <3>2, TameStart, TameFlags DEF BootWindowStep
  <2>2. TamePc
    <3>1. pc' = pc \/ pc'.at \in {"bootclose", "bootpair", "bootsession"}
      BY <1>2, <1>a DEF BootWindowStep, Goto, PcType
    <3> QED BY <3>1, TamePoints DEF Writing, Acting
  <2>3. TameQueue(q')
    BY <1>2, TameStart DEF BootWindowStep
  <2> QED BY <1>2, <2>1, <2>2, <2>3, TameStart, TameParts DEF BootWindowStep
<1>3. CASE BootWindowListen
  <2>1. TameLink(link')
    BY <1>3, TameStart, TameFlags DEF BootWindowListen
  <2>2. TameQueue(q')
    <3>1. \A ok : TameQueue(Return(WatchdogTimer(Retry(q, ok))))
      BY TameStart, TameOps, TameMacros
    <3>2. TameQueue(Return(Arm(q, "BOOT")))
      BY <1>b, TameStart, TameOps
    <3> QED BY <1>3, <3>1, <3>2 DEF BootWindowListen
  <2>3. TamePc
    BY <1>3, TamePoints, IdlePoint DEF BootWindowListen
  <2> QED BY <1>3, <2>1, <2>2, <2>3, TameStart, TameParts DEF BootWindowListen
<1>4. CASE ConfirmClaim
  <2>1. TameLink(link')
    <3>1. /\ TameLink([link EXCEPT !.confirm = "none", !.state = "pairing",
                                   !.ev10 = FALSE])
          /\ TameLink([link EXCEPT !.confirm = "none"])
      BY <1>a DEF TameLink, LinkType, Confirms
    <3> QED BY <1>4, <3>1 DEF ConfirmClaim
  <2>2. TamePc
    <3>1. pc'.at = "confirm" /\ pc'.saw = link.confirm
      BY <1>4, <1>a DEF ConfirmClaim, Goto, PcType
    <3>2. link.confirm = "waitRearm" => MayWrite
      BY DEF IInv, BondInvariant, Tentative, MayWrite
    <3> QED BY <3>1, <3>2 DEF TamePc, Writing
  <2> QED BY <1>4, <2>1, <2>2, TameStart, TameParts DEF ConfirmClaim
<1>5. CASE ConfirmAct
  <2>1. TamePc
    BY <1>5, TamePoints, IdlePoint DEF ConfirmAct
  <2>2. CASE pc.saw = "waitRx"
    <3>1. TameBond([bond EXCEPT !.persisted = FALSE])
      BY <1>a DEF TameBond, BondType
    <3>2. TameQueue(Return(FreshPairQ(q)))
      BY TameStart, TameOps, TameMacros
    <3>3. TameLink(FreshPair(link)) /\ ~FreshPair(link).burst
      BY TameStart, TameFlags
    <3> QED BY <1>5, <2>1, <2>2, <3>1, <3>2, <3>3, TameParts DEF ConfirmAct
  <2>3. CASE pc.saw = "waitRearm"
    <3>1. MayWrite
      BY <1>5, <2>3 DEF ConfirmAct, IInv, BondInvariant, Tentative, MayWrite
    <3>2. TameBond(ArmPersist(bond))
      BY <3>1, TameStart
    <3>3. TameQueue(q')
      <4>1. TameQueue(Return(Supervise(ArmPersistQ(bond, q))))
            /\ TameQueue(Return(ArmPersistQ(bond, q)))
        BY <3>1, TameStart, TameOps, TameMacros
      <4> QED BY <1>5, <2>3, <4>1 DEF ConfirmAct
    <3>4. ArmPersist(bond).persisted = bond.persisted
      BY <1>a DEF ArmPersist, BondType
    <3> QED BY <1>5, <2>1, <2>3, <3>2, <3>3, <3>4, TameStart, TameParts
            DEF ConfirmAct
  <2>4. CASE pc.saw = "none"
    BY <1>5, <2>1, <2>4, TameStart, TameOps, TameParts DEF ConfirmAct
  <2> QED BY <1>5, <2>2, <2>3, <2>4 DEF ConfirmAct
<1> QED BY <1>1, <1>2, <1>3, <1>4, <1>5

\* The restart and the transmissions; a restart hands a confirmed pair over.
LEMMA RadioKeeps ==
  ASSUME IInv, TypeOK', "START" \notin q.pend,
         \/ RestartFallback \/ RestartDrop \/ RestartRearm \/ RestartFinish
         \/ PostPollRx \/ PairPrep \/ SendPairAck \/ SendPoll
         \/ TxPair15 \/ TxPair15B
  PROVE  BondInvariant'
<1>a. /\ q \in QueueType /\ link \in LinkType /\ bond \in BondType
      /\ pc \in PcType
  BY DEF IInv, TypeOK
<1>b. "PREP" \in Events \ {"START", "PERSIST"} /\ "ACK" \in Grids
  BY EventNames DEF Grids
<1>c. /\ TameLink(FreshPair(link)) /\ ~FreshPair(link).burst
      /\ \A e : TameQueue(Return(FreshPairQ(Took(e))))
  BY TameStart, TameFlags, TameOps, TameMacros
<1>1. CASE RestartFallback
  BY <1>1, <1>c, TamePoints, TameStart, TameParts DEF RestartFallback
<1>2. CASE RestartDrop
  BY <1>2, TamePoints, TameStart, TameParts DEF RestartDrop
<1>3. CASE RestartRearm
  <2>1. TamePc
    <3>1. pc'.at = "restart"
      BY <1>3, <1>a DEF RestartRearm, Goto, PcType
    <3> QED BY <3>1, TamePoints DEF Writing, Acting
  <2> QED BY <1>3, <2>1, TameStart, TameParts DEF RestartRearm
<1>4. CASE RestartFinish
  <2> DEFINE s1 == IF Unwatched(link) THEN WatchdogTimer(Retry(q, ~radio.failed))
                                      ELSE Retry(q, ~radio.failed)
             l1 == IF Unwatched(link) THEN WatchdogOn(link) ELSE link
             sure == /\ pc.saw = "waitRearm" /\ link.confirm = "waitRearm"
                     /\ ~radio.failed
  <2>1. TameQueue(s1)
    BY TameStart, TameMacros
  <2>2. TameLink(l1)
    BY TameStart, TameFlags
  <2>3. TameLink([l1 EXCEPT !.confirm = "none"])
    BY <2>2 DEF TameLink, LinkType, Confirms
  <2>4. link' \in {l1, [l1 EXCEPT !.confirm = "none"]}
    BY <1>4 DEF RestartFinish, Decided
  <2>5. TamePc
    BY <1>4, TamePoints, IdlePoint DEF RestartFinish, Decided
  <2>6. CASE sure
    <3>1. MayWrite
      BY <2>6 DEF IInv, BondInvariant, Tentative, MayWrite
    <3>2. TameBond(ArmPersist(bond)) /\ ArmPersist(bond).persisted = bond.persisted
      BY <1>a, <3>1, TameStart DEF ArmPersist, BondType
    <3>3. TameQueue(Return(Supervise(ArmPersistQ(bond, Cancel(s1, {"CONFIRM"})))))
      BY <2>1, <3>1, TameOps, TameMacros
    <3>4. /\ bond' = ArmPersist(bond)
          /\ q' = Return(Supervise(ArmPersistQ(bond, Cancel(s1, {"CONFIRM"}))))
      BY <1>4, <2>6 DEF RestartFinish, Decided
    <3> HIDE DEF s1, l1
    <3> QED BY <1>4, <2>2, <2>3, <2>4, <2>5, <3>2, <3>3, <3>4, TameParts
            DEF RestartFinish, Decided
  <2>7. CASE ~sure
    <3>1. TameQueue(Return(s1))
      BY <2>1, TameOps
    <3>2. bond' = bond /\ q' = Return(s1)
      BY <1>4, <2>7 DEF RestartFinish, Decided
    <3> HIDE DEF s1, l1
    <3> QED BY <1>4, <2>2, <2>3, <2>4, <2>5, <3>1, <3>2, TameStart, TameParts
            DEF RestartFinish, Decided
  <2> QED BY <2>6, <2>7
<1>5. CASE PostPollRx
  BY <1>5, TamePoints, TameStart, TameParts DEF PostPollRx
<1>6. CASE PairPrep
  <2>1. TameQueue(q')
    BY <1>6, <1>b, TameStart, TameOps DEF PairPrep
  <2> QED BY <1>6, <2>1, TamePoints, TameStart, TameParts DEF PairPrep
<1>7. CASE SendPairAck
  <2>1. TameQueue(q')
    BY <1>7, <1>b, TameStart, TameOps DEF SendPairAck
  <2> QED BY <1>7, <2>1, TamePoints, TameStart, TameParts DEF SendPairAck
<1>8. CASE SendPoll
  BY <1>8, TamePoints, TameStart, TameParts DEF SendPoll
<1>9. ASSUME NEW e, NEW aa, TxPair(e, aa)
      PROVE  /\ TameLink(link') /\ TameQueue(q')
             /\ link' = link \/ ~link'.burst
  BY <1>9, <1>c, TameStart DEF TxPair
<1>10. CASE TxPair15
  BY <1>10, <1>9, TamePoints, TameStart, TameParts DEF TxPair15
<1>11. CASE TxPair15B
  BY <1>11, <1>9, TamePoints, TameStart, TameParts DEF TxPair15B
<1> QED BY <1>1, <1>2, <1>3, <1>4, <1>5, <1>6, <1>7, <1>8, <1>10, <1>11

\* Supervision, re-acquire and give-up let go; the give-up hands a confirmed
\* pair over.
LEMMA TimeoutKeeps ==
  ASSUME IInv, TypeOK', "START" \notin q.pend,
         \/ TimeoutAlive \/ ReacquireFresh \/ ReacquireKeysUp
         \/ ReacquireTeardown \/ ReacquireScan
         \/ GiveupStart \/ GiveupTeardown \/ GiveupClaim \/ GiveupCamp
  PROVE  BondInvariant'
<1>a. /\ q \in QueueType /\ link \in LinkType /\ bond \in BondType
      /\ pc \in PcType
  BY DEF IInv, TypeOK
<1>b. /\ "PREP" \in Events \ {"START", "PERSIST"} /\ "POLL" \in Grids
      /\ "EV10" \in OneShots /\ OneShots \in SUBSET OneShots
  BY EventNames DEF Grids, OneShots
<1>1. CASE TimeoutAlive
  <2>1. TameQueue(Supervise(Took("TIMEOUT")))
    BY TameStart, TameMacros
  <2>2. TameQueue(q')
    BY <1>1, <2>1, TameStart, TameOps DEF TimeoutAlive
  <2> QED BY <1>1, <2>2, TamePoints, TameStart, TameParts DEF TimeoutAlive
<1>2. CASE ReacquireFresh
  <2>1. /\ TameLink(FreshPair(link)) /\ ~FreshPair(link).burst
        /\ TameQueue(Return(FreshPairQ(Took("TIMEOUT"))))
    BY TameStart, TameFlags, TameOps, TameMacros
  <2> QED BY <1>2, <2>1, TamePoints, TameStart, TameParts DEF ReacquireFresh
<1>3. CASE ReacquireKeysUp
  <2>1. TameLink([link EXCEPT !.state = "idle"])
    BY <1>a DEF TameLink, LinkType
  <2>2. pc'.at = "reacquire1"
    BY <1>3, <1>a DEF ReacquireKeysUp, Goto, PcType
  <2>3. TamePc
    BY <2>2, TamePoints DEF Writing, Acting
  <2> QED BY <1>3, <2>1, <2>3, TameStart, TameParts DEF ReacquireKeysUp
<1>4. CASE ReacquireTeardown
  <2>1. TameLink(link')
    <3>1. TameLink(CloseWindow(AbortBurst(link)))
      BY TameStart, TameFlags
    <3>2. \A l : TameLink(l) => TameLink([l EXCEPT !.state = "idle"])
      BY DEF TameLink, LinkType
    <3> QED BY <1>4, <3>1, <3>2 DEF ReacquireTeardown
  <2>2. TameQueue(q')
    BY <1>4, <1>b, TameStart, TameOps, TameMacros DEF ReacquireTeardown
  <2>3. pc'.at = "reacquire2"
    BY <1>4, <1>a DEF ReacquireTeardown, GoOn, PcType
  <2>4. TamePc
    BY <2>3, TamePoints DEF Writing, Acting
  <2> QED BY <1>4, <2>1, <2>2, <2>4, TameStart, TameParts DEF ReacquireTeardown
<1>5. CASE ReacquireScan
  <2>1. TameLink(link')
    BY <1>5, <1>a DEF ReacquireScan, TameLink, LinkType
  <2>2. TameQueue(q')
    BY <1>5, <1>b, TameStart, TameOps DEF ReacquireScan
  <2>3. TamePc
    BY <1>5, TamePoints, IdlePoint DEF ReacquireScan
  <2> QED BY <1>5, <2>1, <2>2, <2>3, TameStart, TameParts DEF ReacquireScan
<1>6. CASE GiveupStart
  <2>1. TameLink(link')
    <3>1. \A l : TameLink(l) => TameLink([l EXCEPT !.ev10 = FALSE, !.recent = FALSE])
      BY DEF TameLink, LinkType
    <3> QED BY <1>6, <3>1, TameStart, TameFlags DEF GiveupStart
  <2>2. pc'.at = "giveup1"
    BY <1>6, <1>a DEF GiveupStart, Goto, PcType
  <2>3. TamePc
    BY <2>2, TamePoints DEF Writing, Acting
  <2> QED BY <1>6, <2>1, <2>3, TameStart, TameParts DEF GiveupStart
<1>7. CASE GiveupTeardown
  <2>1. TameLink(link')
    <3>1. \A l : TameLink(l) => TameLink([l EXCEPT !.wd = FALSE, !.moved = FALSE])
      BY DEF TameLink, LinkType
    <3> QED BY <1>7, <3>1, TameStart, TameFlags DEF GiveupTeardown
  <2>2. TameQueue(q')
    BY <1>7, <1>b, TameStart, TameOps, TameMacros DEF GiveupTeardown
  <2>3. pc'.at = "giveup2"
    BY <1>7, <1>a DEF GiveupTeardown, GoOn, PcType
  <2>4. TamePc
    BY <2>3, TamePoints DEF Writing, Acting
  <2> QED BY <1>7, <2>1, <2>2, <2>4, TameStart, TameParts DEF GiveupTeardown
<1>8. CASE GiveupClaim
  <2>1. TameLink(link')
    BY <1>8, <1>a DEF GiveupClaim, TameLink, LinkType, Confirms
  <2>2. pc'.at = "giveup3" /\ pc'.saw = link.confirm
    BY <1>8, <1>a DEF GiveupClaim, GoOn, PcType
  <2>3. link.confirm = "waitRearm" => MayWrite
    BY DEF IInv, BondInvariant, Tentative, MayWrite
  <2>4. TamePc
    BY <2>2, <2>3 DEF TamePc, Writing
  <2> QED BY <1>8, <2>1, <2>4, TameStart, TameParts DEF GiveupClaim
<1>9. CASE GiveupCamp
  <2>1. TamePc
    BY <1>9, TamePoints, IdlePoint DEF GiveupCamp
  <2>2. CASE pc.saw = "waitRx"
    <3>1. /\ TameLink(FreshPair(link)) /\ ~FreshPair(link).burst
          /\ TameQueue(Return(FreshPairQ(q)))
      BY TameStart, TameFlags, TameOps, TameMacros
    <3> QED BY <1>9, <2>1, <2>2, <3>1, TameStart, TameParts DEF GiveupCamp
  <2>3. CASE pc.saw # "waitRx"
    <3>1. pc.saw = "waitRearm" => MayWrite
      BY <1>9 DEF GiveupCamp, IInv, BondInvariant, Tentative, MayWrite
    <3>2. TameLink(link')
      <4>1. TameLink([link EXCEPT !.state = "pairing"])
        BY <1>a DEF TameLink, LinkType
      <4> QED BY <1>9, <2>3, <4>1, TameFlags DEF GiveupCamp
    <3>3. TameBond(bond') /\ bond'.persisted = bond.persisted
      BY <1>9, <1>a, <2>3, <3>1, TameStart DEF GiveupCamp, ArmPersist, BondType
    <3>4. TameQueue(q')
      <4> DEFINE s == IF pc.saw = "waitRearm" THEN ArmPersistQ(bond, q) ELSE q
      <4>1. TameQueue(s)
        BY <3>1, TameStart, TameOps
      <4>2. \E ok : q' = Return(WatchdogTimer(Retry(Cancel(s, {"CONFIRM"}), ok)))
        BY <1>9, <2>3 DEF GiveupCamp
      <4> HIDE DEF s
      <4>3. \A ok : TameQueue(Return(WatchdogTimer(Retry(Cancel(s, {"CONFIRM"}), ok))))
        BY <4>1, TameOps, TameMacros
      <4> QED BY <4>2, <4>3
    <3> QED BY <1>9, <2>1, <3>2, <3>3, <3>4, TameParts DEF GiveupCamp
  <2> QED BY <2>2, <2>3
<1> QED BY <1>1, <1>2, <1>3, <1>4, <1>5, <1>6, <1>7, <1>8, <1>9

\* A completion leaves the program counter where it preempted it.
LEMMA PreemptsTame ==
  ASSUME IInv, Preempts
  PROVE  TamePc
<1>1. pc' = [pc EXCEPT !.busy = pc'.busy]
  BY DEF Preempts, IInv, TypeOK, PcType
<1> QED BY <1>1, TamePoints

\* The tame half of the sink: frames that lead nowhere or confirm the pair,
\* transmissions that promote nobody new
LEMMA SinkKeeps ==
  ASSUME IInv, TypeOK', "START" \notin q.pend,
         \/ RxNoise \/ RxScanNoise \/ RxPairRekey \/ RxConnected
         \/ TxDoneBurst \/ TxDoneTombstone \/ TxDoneRekey \/ TxDonePoll
         \/ TxDoneStray \/ TxFail
  PROVE  BondInvariant'
<1>a. /\ q \in QueueType /\ link \in LinkType /\ bond \in BondType
      /\ pc \in PcType
  BY DEF IInv, TypeOK
<1>b. TameLink([link EXCEPT !.moved = link.wd])
  BY <1>a DEF TameLink, LinkType
<1>c. /\ {"RESTART", "TX15B", "POST_RX", "PREP"} \subseteq Events \ {"START", "PERSIST"}
      /\ "ACK" \in Grids /\ "EV10" \in OneShots /\ {"EV10"} \in SUBSET OneShots
  BY EventNames DEF Grids, OneShots
<1>1. CASE RxNoise
  BY <1>1, <1>b, <1>c, PreemptsTame, TameStart, TameOps, TameParts
     DEF RxNoise, Received
<1>2. CASE RxScanNoise
  BY <1>2, <1>b, PreemptsTame, TameStart, TameParts DEF RxScanNoise, Received
<1>3. CASE RxPairRekey
  <2>1. TameQueue(q')
    BY <1>3, <1>c, TameStart, TameOps DEF RxPairRekey
  <2> QED BY <1>3, <1>b, <2>1, PreemptsTame, TameStart, TameParts
          DEF RxPairRekey, Received
<1>4. CASE RxConnected
  <2>1. PICK kind \in {"poll", "down", "up", "alien"} :
          /\ link' = [link EXCEPT !.recent = TRUE, !.heard = ~Tmos,
                        !.moved = link.wd,
                        !.confirm = IF @ = "waitRx" /\ ConfirmsPair(kind)
                                      THEN "waitRearm" ELSE @]
          /\ proven' = IF kind = "alien" THEN proven
                       ELSE proven \cup ({bond.peer} \ {NoPeer})
    BY <1>4 DEF RxConnected
  <2>2. /\ link'.pairWin = link.pairWin /\ link'.burst = link.burst
        /\ link'.fresh = link.fresh
        /\ link'.confirm = IF link.confirm = "waitRx" /\ ConfirmsPair(kind)
                             THEN "waitRearm" ELSE link.confirm
    BY <2>1, <1>a DEF LinkType
  <2>3. link'.confirm = "waitRearm" => bond.tombstone \/ bond.rec \in proven'
    <3>1. CASE link.confirm = "waitRx" /\ ConfirmsPair(kind) /\ ~bond.tombstone
      <4>1. bond.rec # NoPeer /\ bond.rec = bond.peer
        BY <3>1 DEF IInv, BondInvariant, Tentative, RecordIsPeer
      <4> QED BY <2>1, <3>1, <4>1 DEF ConfirmsPair
    <3>2. CASE link.confirm = "waitRearm" /\ ~bond.tombstone
      BY <2>1, <3>2 DEF IInv, BondInvariant, Tentative
    <3> QED BY <2>2, <3>1, <3>2
  <2>4. TameQueue(q')
    BY <1>4, <1>c, TameStart, TameOps DEF RxConnected
  <2>5. TamePc /\ bond' = bond /\ nv' = nv
    BY <1>4, PreemptsTame DEF RxConnected, Received
  <2>6. proven \subseteq proven'
    BY <2>1
  <2>7. TameStep
    BY <2>2, <2>3, <2>4, <2>5, <2>6, TameStart DEF TameStep
  <2> QED BY <2>7, TameKeeps
<1>5. CASE TxDoneBurst
  <2>1. TameLink(link') /\ TameQueue(q')
    BY <1>5, <1>a, <1>c, TameStart, TameOps DEF TxDoneBurst, TameLink, LinkType, TypeOK
  <2> QED BY <1>5, <2>1, PreemptsTame, TameStart, TameParts DEF TxDoneBurst, Sent
<1>6. CASE TxDoneTombstone
  <2>1. TameLink(link')
    <3>1. \A l : TameLink(l) => TameLink([l EXCEPT !.confirm = "none"])
      BY DEF TameLink, LinkType, Confirms
    <3>2. TameLink([link EXCEPT !.ev10 = FALSE, !.confirm = "none"])
      BY <1>a DEF TameLink, LinkType, Confirms
    <3> QED BY <1>6, <3>1, <3>2, TameStart, TameFlags DEF TxDoneTombstone
  <2>2. TameQueue(q')
    <3>1. TameQueue(Disarm(GridStop(q, "ACK"), {"EV10"}))
      BY <1>c, TameStart, TameOps
    <3>2. TameQueue(Cancel(Disarm(GridStop(q, "ACK"), {"EV10"}),
                           {"PREP", "ACK", "CONFIRM"}))
      BY <3>1, TameOps
    <3>3. TameQueue(Cancel(q, {"CONFIRM"}))
      BY TameStart, TameOps
    <3>4. "RESTART" \in Events \ {"START", "PERSIST"}
      BY <1>c
    <3>5. /\ TameQueue(Post(Cancel(q, {"CONFIRM"}), "RESTART"))
          /\ TameQueue(Post(Cancel(Disarm(GridStop(q, "ACK"), {"EV10"}),
                                   {"PREP", "ACK", "CONFIRM"}), "RESTART"))
      BY <3>2, <3>3, <3>4, TameOps
    <3> QED BY <1>6, <3>5 DEF TxDoneTombstone
  <2> QED BY <1>6, <2>1, <2>2, PreemptsTame, TameStart, TameParts
          DEF TxDoneTombstone, Sent
<1>7. CASE TxDoneRekey
  <2>1. TameLink(link')
    BY <1>7, <1>a DEF TxDoneRekey, TameLink, LinkType
  <2>2. TameQueue(q')
    BY <1>7, TameStart, TameOps, TameMacros DEF TxDoneRekey
  <2> QED BY <1>7, <2>1, <2>2, PreemptsTame, TameStart, TameParts
          DEF TxDoneRekey, Sent
<1>8. CASE TxDonePoll
  <2>1. TameQueue(q')
    BY <1>8, <1>c, TameStart, TameOps DEF TxDonePoll
  <2> QED BY <1>8, <2>1, PreemptsTame, TameStart, TameParts DEF TxDonePoll, Sent
<1>9. CASE TxDoneStray
  BY <1>9, <1>c, PreemptsTame, TameStart, TameOps, TameParts DEF TxDoneStray, Sent
<1>10. CASE TxFail
  <2>1. TameLink(link')
    <3>1. \A l, v : TameLink(l) /\ [l EXCEPT !.txfail = v] \in LinkType
                      => TameLink([l EXCEPT !.txfail = v])
      BY DEF TameLink, LinkType
    <3>2. link' \in LinkType
      BY DEF TypeOK
    <3> QED BY <1>10, <3>1, <3>2, TameStart, TameFlags DEF TxFail
  <2>2. TameQueue(q')
    BY <1>10, <1>c, TameStart, TameOps, TameMacros DEF TxFail
  <2> QED BY <1>10, <2>1, <2>2, PreemptsTame, TameStart, TameParts DEF TxFail, Sent
<1> QED BY <1>1, <1>2, <1>3, <1>4, <1>5, <1>6, <1>7, <1>8, <1>9, <1>10

\* Timers, the intervention and a lost completion
LEMMA TimersKeep ==
  ASSUME IInv, TypeOK', "START" \notin q.pend,
         Timers \/ DiagIntervene \/ CompletionLost
  PROVE  BondInvariant'
<1>a. /\ q \in QueueType /\ link \in LinkType
  BY DEF IInv, TypeOK
<1>b. /\ {"ACK", "POLL"} \subseteq Events \ {"START", "PERSIST"}
      /\ "halted" \in Grids
  BY EventNames DEF Grids
<1>c. TamePc \/ pc' # pc
  BY TamePoints
<1>1. CASE GridPosts
  BY <1>1, <1>b, <1>c, TameStart, TameOps, TameParts DEF GridPosts
<1>2. CASE GridSends
  BY <1>2, <1>c, TameStart, TameParts DEF GridSends
<1>3. ASSUME NEW t \in OneShots, OneShotFires(t) PROVE BondInvariant'
  <2>1. TameQueue([q EXCEPT !.timers = @ \ {t}])
    BY <1>a, TameStart DEF TameQueue, QueueType
  <2>2. Expiry[t] \in Events \ {"START", "PERSIST"}
    BY EventNames DEF OneShots, Expiry
  <2> QED BY <1>3, <1>c, <2>1, <2>2, TameStart, TameOps, TameParts
          DEF OneShotFires, Expires
<1>4. ASSUME NEW e \in Events, DelayFires(e) PROVE BondInvariant'
  <2>1. TameQueue([q EXCEPT !.delayed = @ \ {e}])
    BY <1>a, TameStart DEF TameQueue, QueueType
  <2>2. e \in Events \ {"START", "PERSIST"}
    BY <1>4 DEF DelayFires, IInv, BondInvariant, StartOnce, WriteIsProven
  <2> QED BY <1>4, <1>c, <2>1, <2>2, TameStart, TameOps, TameParts
          DEF DelayFires, Expires
<1>5. CASE DiagIntervene
  <2>1. TameLink(link')
    <3>1. TameLink([link EXCEPT !.moved = FALSE])
      BY <1>a DEF TameLink, LinkType
    <3> QED BY <1>5, <3>1, TameStart DEF DiagIntervene
  <2>2. TameQueue(q')
    <3>1. TameQueue(Cancel(q, {"RESTART"}))
      BY TameStart, TameOps
    <3>2. \A ok : TameQueue(Retry(Cancel(q, {"RESTART"}), ok))
      BY <3>1, TameMacros
    <3> QED BY <1>5, <3>1, <3>2 DEF DiagIntervene
  <2> QED BY <1>5, <1>c, <2>1, <2>2, TameStart, TameParts DEF DiagIntervene
<1>6. CASE CompletionLost
  BY <1>6, <1>c, TameStart, TameParts DEF CompletionLost
<1> QED BY <1>1, <1>2, <1>3, <1>4, <1>5, <1>6 DEF Timers

-----------------------------------------------------------------------------
(* The steps that are not tame *)

\* A boot, from whatever the DataFlash holds, satisfies the invariant.
LEMMA BondInit == Init => BondInvariant
<1> SUFFICES ASSUME Init PROVE BondInvariant
  OBVIOUS
<1>1. /\ q.pend = {"START"} /\ q.ev = {} /\ q.delayed = {} /\ q.timers = {}
      /\ q.grid = "off" /\ pc.at = "idle" /\ radio.mode = "off" /\ ~quiesced
  BY DEF Init, BootQueue, Idle, BootRadio
<1>2. /\ link.state = "idle" /\ ~link.ev10 /\ ~link.burst /\ ~link.pairWin
      /\ link.confirm = "none"
      /\ bond.rec = NoPeer /\ ~bond.pending
  BY DEF Init, BootLink, BootBond
<1>3. nv # NoPeer => nv \in proven
  BY DEF Init
<1> QED BY <1>1, <1>2, <1>3
        DEF BondInvariant, Unstarted, StartOnce, OpenWindow, RecordIsPeer,
            Tentative, KnownBurst, WriteIsProven, ConfirmBeforePersist

\* So does a reset, from any state.
LEMMA ResetKeeps ==
  ASSUME Reset
  PROVE  BondInvariant'
<1>1. /\ q'.pend = {"START"} /\ q'.ev = {} /\ q'.delayed = {} /\ q'.timers = {}
      /\ q'.grid = "off" /\ pc'.at = "idle" /\ radio'.mode = "off" /\ ~quiesced'
  BY DEF Reset, BootQueue, Idle, BootRadio
<1>2. /\ link'.state = "idle" /\ ~link'.ev10 /\ ~link'.burst /\ ~link'.pairWin
      /\ link'.confirm = "none"
      /\ bond'.rec = NoPeer /\ ~bond'.pending
  BY DEF Reset, BootLink, BootBond
<1>3. nv' # NoPeer => nv' \in proven'
  BY DEF Reset
<1> QED BY <1>1, <1>2, <1>3
        DEF BondInvariant, Unstarted, StartOnce, OpenWindow, RecordIsPeer,
            Tentative, KnownBurst, WriteIsProven, ConfirmBeforePersist

\* Silence changes no flag the bond rests on.
LEMMA AgesKeeps ==
  ASSUME IInv, Ages
  PROVE  BondInvariant'
<1>1. /\ link'.state = link.state /\ link'.ev10 = link.ev10
      /\ link'.burst = link.burst /\ link'.fresh = link.fresh
      /\ link'.pairWin = link.pairWin /\ link'.confirm = link.confirm
  BY DEF Ages, IInv, TypeOK, LinkType
<1>2. UNCHANGED <<bond, nv, q, radio, pc, quiesced, proven>>
  BY DEF Ages
<1> QED BY <1>1, <1>2
        DEF IInv, BondInvariant, Unstarted, StartOnce, OpenWindow, RecordIsPeer,
            Tentative, KnownBurst, WriteIsProven, ConfirmBeforePersist

\* Erasing the record and raising the tombstone leave nothing to confirm.
LEMMA ClearKeeps ==
  ASSUME IInv, BondErase \/ TombstoneBond
  PROVE  BondInvariant'
<1>a. q \in QueueType /\ bond \in BondType /\ pc \in PcType
  BY DEF IInv, TypeOK
<1>1. CASE BondErase
  <2>1. pc'.at = "clear" /\ pc.at = "idle"
    BY <1>1, <1>a DEF BondErase, Foreground, Goto, PcType
  <2>2. nv' = NoPeer /\ UNCHANGED <<link, bond, q, radio, quiesced, proven>>
    BY <1>1 DEF BondErase
  <2> QED BY <2>1, <2>2
          DEF IInv, BondInvariant, Unstarted, StartOnce, OpenWindow, RecordIsPeer,
              Tentative, KnownBurst, WriteIsProven, ConfirmBeforePersist
<1>2. CASE TombstoneBond
  <2>1. bond'.tombstone /\ bond'.rec = bond.rec /\ ~bond'.pending
    BY <1>2, <1>a DEF TombstoneBond, ClearBond, BondType
  <2>2. /\ q'.pend = q.pend \ {"PERSIST"} /\ q'.delayed = q.delayed \ {"PERSIST"}
        /\ q'.ev = q.ev /\ q'.timers = q.timers /\ q'.grid = q.grid
    BY <1>2, <1>a DEF TombstoneBond, Cancel, QueueType
  <2>3. pc'.at = "idle"
    BY <1>2 DEF TombstoneBond, Idle
  <2>4. UNCHANGED <<link, nv, radio, quiesced, proven>>
    BY <1>2 DEF TombstoneBond
  <2> QED BY <2>1, <2>2, <2>3, <2>4
          DEF IInv, BondInvariant, Unstarted, StartOnce, OpenWindow, RecordIsPeer,
              Tentative, KnownBurst, WriteIsProven, ConfirmBeforePersist
<1> QED BY <1>1, <1>2

\* A reboot request posts RF_EVT_QUIESCE, which may wait beside RF_EVT_START.
LEMMA RequestKeeps ==
  ASSUME IInv, QuiesceRequest
  PROVE  BondInvariant'
<1>1. /\ q'.pend = q.pend \cup {"QUIESCE"} /\ q'.delayed = q.delayed
      /\ q'.ev = q.ev /\ q'.timers = q.timers /\ q'.grid = q.grid
  BY DEF QuiesceRequest, Post, IInv, TypeOK, QueueType
<1>2. UNCHANGED <<link, bond, nv, radio, pc, quiesced, proven>>
  BY DEF QuiesceRequest
<1> QED BY <1>1, <1>2
        DEF IInv, BondInvariant, Unstarted, StartOnce, OpenWindow, RecordIsPeer,
            Tentative, KnownBurst, WriteIsProven, ConfirmBeforePersist

\* RF_EVT_START opens the window with nothing decided.
LEMMA StartKeeps ==
  ASSUME IInv, Start
  PROVE  BondInvariant'
<1>a. q \in QueueType /\ link \in LinkType
  BY DEF IInv, TypeOK
<1>1. "START" \in q.pend /\ q.ev = {}
  BY DEF Start, Turn, Current, IInv, BondInvariant, StartOnce, Unstarted
<1>2. /\ q.pend \subseteq {"START", "QUIESCE"} /\ q.delayed = {}
      /\ ~link.burst /\ bond.rec = NoPeer /\ ~bond.pending
      /\ pc.at \in {"idle", "clear"}
  BY <1>1 DEF IInv, BondInvariant, Unstarted
<1> DEFINE Clean(s) ==
      /\ s \in QueueType
      /\ \A e \in {"START", "PERSIST"} : e \notin s.pend \cup s.ev \cup s.delayed
<1>3. Clean(q')
  <2>1. Clean(Cancel(Took("START"), {"CONFIRM"}))
    <3>1. Cancel(Took("START"), {"CONFIRM"}) \in QueueType
      BY <1>a, TookType, QueueOps
    <3>2. /\ Took("START").pend = {} /\ Took("START").ev = q.pend \ {"START"}
          /\ Took("START").delayed = {} /\ Took("START") \in QueueType
      BY <1>a, <1>1, <1>2, TookType DEF Took, Current, QueueType
    <3>3. /\ Cancel(Took("START"), {"CONFIRM"}).pend = {}
          /\ Cancel(Took("START"), {"CONFIRM"}).ev = q.pend \ {"START"}
          /\ Cancel(Took("START"), {"CONFIRM"}).delayed = {}
      BY <3>2 DEF Cancel, QueueType
    <3> QED BY <1>2, <3>1, <3>3
  <2>2. \A s, ok : Clean(s) => Clean(Retry(s, ok))
    <3> SUFFICES ASSUME NEW s, NEW ok, Clean(s) PROVE Clean(PostDelayed(s, "RESTART"))
      BY DEF Retry
    <3>1. PostDelayed(s, "RESTART") \in QueueType
      BY QueueOps, EventNames
    <3>2. /\ PostDelayed(s, "RESTART").pend \subseteq s.pend \cup {"RESTART"}
          /\ PostDelayed(s, "RESTART").ev = s.ev
          /\ PostDelayed(s, "RESTART").delayed \subseteq s.delayed \cup {"RESTART"}
      BY DEF PostDelayed, Post, QueueType
    <3> QED BY <3>1, <3>2
  <2>3. \A s : Clean(s) => Clean(Return(Arm(s, "BOOT")))
    <3> SUFFICES ASSUME NEW s, Clean(s) PROVE Clean(Return(Arm(s, "BOOT")))
      OBVIOUS
    <3>1. /\ Arm(s, "BOOT") \in QueueType
          /\ Arm(s, "BOOT").pend = s.pend /\ Arm(s, "BOOT").ev = s.ev
          /\ Arm(s, "BOOT").delayed = s.delayed
      BY QueueOps DEF Arm, QueueType, OneShots
    <3>2. /\ Return(Arm(s, "BOOT")) \in QueueType
          /\ Return(Arm(s, "BOOT")).pend \subseteq s.pend \cup s.ev
          /\ Return(Arm(s, "BOOT")).ev \subseteq s.ev
          /\ Return(Arm(s, "BOOT")).delayed = s.delayed
      BY <3>1, QueueOps DEF Return, QueueType
    <3> QED BY <3>2
  <2>4. \E ok : q' = Return(Arm(Retry(Cancel(Took("START"), {"CONFIRM"}), ok), "BOOT"))
    BY DEF Start
  <2> HIDE DEF Clean
  <2> QED BY <2>1, <2>2, <2>3, <2>4
<1>4. ~link'.burst /\ link'.confirm = "none"
  BY <1>a, <1>2 DEF Start, WatchdogOn, LinkType
<1>5. UNCHANGED <<bond, nv, pc, proven>>
  BY DEF Start
<1> QED BY <1>2, <1>3, <1>4, <1>5
        DEF IInv, BondInvariant, Unstarted, StartOnce, OpenWindow, RecordIsPeer,
            Tentative, KnownBurst, WriteIsProven, ConfirmBeforePersist

\* A reboot before RF_EVT_START is handled has nothing to write.
LEMMA EarlyQuiesceKeeps ==
  ASSUME IInv, Quiesce, "START" \in q.pend
  PROVE  BondInvariant'
<1>1. /\ ~bond.pending /\ bond.rec = NoPeer /\ link.confirm = "none"
      /\ ~link.burst /\ pc.at \in {"idle", "clear"}
  BY DEF IInv, BondInvariant, Unstarted
<1>2. /\ q'.pend = {} /\ q'.ev = {} /\ q'.delayed = {}
      /\ UNCHANGED <<link, nv, pc, proven>>
  BY <1>1 DEF Quiesce, QuiesceTail
<1>3. bond'.rec = bond.rec /\ ~bond'.pending
  BY DEF Quiesce, IInv, TypeOK, BondType
<1> QED BY <1>1, <1>2, <1>3
        DEF IInv, BondInvariant, Unstarted, StartOnce, OpenWindow, RecordIsPeer,
            Tentative, KnownBurst, WriteIsProven, ConfirmBeforePersist

\* Where a completion preempts a handler, the handler's own view is kept.
LEMMA PreemptsView ==
  ASSUME IInv, Preempts
  PROVE  pc'.at = pc.at /\ pc'.saw = pc.saw /\ pc'.want = pc.want
BY DEF Preempts, IInv, TypeOK, PcType

\* The accept gate: a keyboard other than the recorded one is let in only
\* while nothing is recorded.
LEMMA AcceptKeeps ==
  ASSUME IInv, RxPairAccept, "START" \notin q.pend
  PROVE  BondInvariant'
<1>a. q \in QueueType /\ bond \in BondType /\ link \in LinkType
  BY DEF IInv, TypeOK
<1>1. PICK k \in Keyboards, near \in BOOLEAN :
        /\ PairGate(k, near)
        /\ bond' = [bond EXCEPT !.peer = k, !.persisted = KnownDurable(k)]
        /\ link' = [CloseWindow(link) EXCEPT !.fresh = ~KnownDurable(k),
                      !.wd = FALSE, !.moved = FALSE, !.burst = TRUE, !.idx = 0]
  BY DEF RxPairAccept
<1>2. /\ bond'.peer = k /\ k # NoPeer /\ bond'.persisted = KnownDurable(k)
      /\ bond'.rec = bond.rec /\ bond'.valid = bond.valid
      /\ bond'.pending = bond.pending /\ bond'.tombstone = bond.tombstone
      /\ ~bond.tombstone
  BY <1>1, <1>a, NoPeerAssumption DEF BondType, PairGate
<1>3. /\ ~link'.pairWin /\ link'.fresh = ~KnownDurable(k)
      /\ link'.confirm = link.confirm
  BY <1>1, <1>a DEF CloseWindow, LinkType
<1>4. bond.rec # NoPeer => bond.valid /\ bond.rec = k
  BY <1>1, <1>2 DEF PairGate, IInv, BondInvariant, RecordIsPeer, OpenWindow
<1>5. /\ "START" \notin q'.pend \cup q'.ev \cup q'.delayed
      /\ "PERSIST" \notin q'.delayed
      /\ "PERSIST" \in q'.pend \cup q'.ev => "PERSIST" \in q.pend \cup q.ev
  <2>1. TameQueue(Disarm(q, {"BOOT"}))
    BY TameStart, TameOps DEF OneShots
  <2>2. /\ Disarm(q, {"BOOT"}).pend \subseteq q.pend
        /\ Disarm(q, {"BOOT"}).ev = q.ev
        /\ Disarm(q, {"BOOT"}).delayed = q.delayed
    BY <1>a DEF Disarm, QueueType
  <2>3. \A s \in QueueType :
          /\ Post(s, "TX15").pend = s.pend \cup {"TX15"}
          /\ Post(s, "TX15").ev = s.ev /\ Post(s, "TX15").delayed = s.delayed
          /\ PostDelayed(s, "TX15").pend \subseteq s.pend \cup {"TX15"}
          /\ PostDelayed(s, "TX15").ev = s.ev
          /\ PostDelayed(s, "TX15").delayed \subseteq s.delayed \cup {"TX15"}
    BY DEF Post, PostDelayed, QueueType
  <2>4. \/ q' = Post(Disarm(q, {"BOOT"}), "TX15")
        \/ q' = PostDelayed(Disarm(q, {"BOOT"}), "TX15")
    BY DEF RxPairAccept
  <2>5. /\ q'.pend \subseteq q.pend \cup {"TX15"} /\ q'.ev = q.ev
        /\ q'.delayed \subseteq q.delayed \cup {"TX15"}
    BY <2>1, <2>2, <2>3, <2>4 DEF TameQueue
  <2> QED BY <2>5 DEF IInv, BondInvariant, StartOnce, WriteIsProven
<1>6. pc'.at = pc.at /\ pc'.saw = pc.saw /\ pc'.want = pc.want
  BY PreemptsView DEF RxPairAccept, Received
<1>7. UNCHANGED <<nv, proven>>
  BY DEF RxPairAccept
<1>8. Unstarted' /\ StartOnce' /\ OpenWindow'
  BY <1>3, <1>5 DEF Unstarted, StartOnce, OpenWindow
<1>9. RecordIsPeer' /\ KnownBurst'
  BY <1>2, <1>3, <1>4 DEF RecordIsPeer, KnownBurst
<1>10. Tentative' /\ WriteIsProven' /\ ConfirmBeforePersist'
  BY <1>2, <1>3, <1>5, <1>6, <1>7
     DEF IInv, BondInvariant, Tentative, WriteIsProven, ConfirmBeforePersist
<1> QED BY <1>8, <1>9, <1>10 DEF BondInvariant

\* The promotion: the record becomes the peer's, and what was owed to the
\* old record was owed to the same keyboard.
LEMMA PromoteKeeps ==
  ASSUME IInv, TypeOK', TxDonePromote, "START" \notin q.pend
  PROVE  BondInvariant'
<1>a. q \in QueueType /\ bond \in BondType /\ link \in LinkType
  BY DEF IInv, TypeOK
<1>1. link.burst /\ ~bond.tombstone /\ bond.peer # NoPeer
      /\ (link.fresh \/ bond.persisted)
  BY DEF TxDonePromote, MayPromote, IInv, BondInvariant, KnownBurst
<1>2. CommitRam(bond) = [bond EXCEPT !.rec = bond.peer, !.valid = TRUE]
  BY <1>1 DEF CommitRam
<1>3. ~link.fresh => ArmPersist(CommitRam(bond)) = CommitRam(bond)
                     /\ \A s : ArmPersistQ(CommitRam(bond), s) = s
  BY <1>1, <1>2, <1>a DEF ArmPersist, ArmPersistQ, MustPersist, BondType
<1>4. /\ bond'.rec = bond.peer /\ bond'.valid /\ bond'.peer = bond.peer
      /\ bond'.tombstone = bond.tombstone /\ bond'.pending = bond.pending
  <2>1. bond' = CommitRam(bond)
    <3>1. bond' = CommitRam(bond) \/ (~link.fresh /\ bond' = ArmPersist(CommitRam(bond)))
      BY DEF TxDonePromote
    <3> QED BY <1>3, <3>1
  <2> QED BY <1>2, <1>a, <2>1 DEF BondType
<1>5. /\ ~link'.burst /\ link'.pairWin = link.pairWin
      /\ link'.confirm \in {"none", "waitRx"}
  BY <1>a DEF TxDonePromote, AbortBurst, LinkType
<1>6. bond.rec \in proven => bond.rec = bond.peer
  BY <1>1, NoPeerAssumption DEF IInv, TypeOK, BondInvariant, RecordIsPeer
<1>7. TameQueue(q')
  <2>1. TameQueue(GridStart(q, "POLL"))
    BY TameStart, TameOps DEF Grids
  <2>2. "CONFIRM" \in Events \ {"START", "PERSIST"}
    BY EventNames
  <2>3. /\ TameQueue(Supervise(PostDelayed(GridStart(q, "POLL"), "CONFIRM")))
        /\ TameQueue(Supervise(GridStart(q, "POLL")))
    BY <2>1, <2>2, TameOps, TameMacros
  <2> QED BY <1>3, <2>3 DEF TxDonePromote
<1>8. bond.pending \/ "PERSIST" \in q'.pend \cup q'.ev => bond.rec \in proven
  BY <1>1, <1>7 DEF TameQueue, MayWrite, IInv, BondInvariant, WriteIsProven
<1>9. pc'.at = pc.at /\ pc'.saw = pc.saw /\ pc'.want = pc.want
  BY PreemptsView DEF TxDonePromote, Sent
<1>10. UNCHANGED <<nv, proven>>
  BY DEF TxDonePromote
<1>11. Unstarted' /\ StartOnce' /\ KnownBurst' /\ RecordIsPeer'
  BY <1>4, <1>5, <1>7
     DEF Unstarted, StartOnce, KnownBurst, RecordIsPeer, TameQueue
<1>12. OpenWindow'
  BY <1>1, <1>5 DEF IInv, BondInvariant, OpenWindow
<1>13. Tentative'
  BY <1>1, <1>4, <1>5, <1>6, <1>9, <1>10 DEF IInv, BondInvariant, Tentative
<1>14. WriteIsProven' /\ ConfirmBeforePersist'
  BY <1>1, <1>4, <1>6, <1>7, <1>8, <1>9, <1>10
     DEF IInv, BondInvariant, WriteIsProven, ConfirmBeforePersist, TameQueue
<1> QED BY <1>11, <1>12, <1>13, <1>14 DEF BondInvariant

-----------------------------------------------------------------------------
(* The induction *)

\* Every step keeps the invariant.
LEMMA BondStep ==
  ASSUME IInv, TypeOK', Next
  PROVE  BondInvariant'
<1>1. CASE "START" \in q.pend
  BY <1>1, StartFirst, StartKeeps, EarlyQuiesceKeeps, ClearKeeps, RequestKeeps,
     AgesKeeps, ResetKeeps
<1>2. CASE "START" \notin q.pend
  <2>1. CASE Handlers
    <3>1. ~Start
      BY <1>2 DEF Start, Turn, Current, IInv, BondInvariant, StartOnce
    <3> QED BY <1>2, <2>1, <3>1, PersistKeeps, WindowKeeps, RadioKeeps, TimeoutKeeps
            DEF Handlers
  <2>2. CASE Continues
    BY <1>2, <2>2, PersistKeeps, WindowKeeps, RadioKeeps, TimeoutKeeps, ClearKeeps
       DEF Continues
  <2>3. CASE Receives
    BY <1>2, <2>3, SinkKeeps, AcceptKeeps DEF Receives
  <2>4. CASE Sends
    BY <1>2, <2>4, SinkKeeps, PromoteKeeps DEF Sends
  <2>5. CASE Timers \/ CompletionLost
    BY <1>2, <2>5, TimersKeep
  <2>6. CASE Calls
    BY <1>2, <2>6, ClearKeeps, RequestKeeps, TimersKeep DEF Calls
  <2>7. CASE Ages \/ Reset
    BY <2>7, AgesKeeps, ResetKeeps
  <2> QED BY <2>1, <2>2, <2>3, <2>4, <2>5, <2>6, <2>7 DEF Next
<1> QED BY <1>1, <1>2

\* BondInvariant holds in every reachable state, for any number of keyboards,
\* either executor, any window length, any commands and any faults.
THEOREM BondInvariantHolds == Spec => []BondInvariant
<1>1. Init => BondInvariant
  BY BondInit
<1>2. TypeOK /\ TypeOK' /\ BondInvariant /\ [Next]_vars => BondInvariant'
  <2> SUFFICES ASSUME TypeOK, TypeOK', BondInvariant, [Next]_vars
               PROVE  BondInvariant'
    OBVIOUS
  <2>1. IInv
    BY DEF IInv
  <2>2. CASE Next
    BY <2>1, <2>2, BondStep
  <2>3. CASE UNCHANGED vars
    BY <2>3 DEF vars, BondInvariant, Unstarted, StartOnce, OpenWindow,
                RecordIsPeer, Tentative, KnownBurst, WriteIsProven,
                ConfirmBeforePersist
  <2> QED BY <2>2, <2>3
<1> QED BY <1>1, <1>2, TypeCorrect, PTL DEF Spec

\* A keyboard's record is in DataFlash only if that keyboard was heard on the
\* session address: confirm before persist (rf_arm_bond_persist and the paths
\* that call it).
THEOREM ConfirmBeforePersistHolds == Spec => []ConfirmBeforePersist
<1>1. BondInvariant => ConfirmBeforePersist
  BY DEF BondInvariant
<1> QED BY <1>1, BondInvariantHolds, PTL

-----------------------------------------------------------------------------
(***************************************************************************)
(* What BondClear and the boot window promise: a bonded dongle changes     *)
(* keyboards only inside the window (WindowLock), after a tombstone no     *)
(* record is written and no keyboard connects (TombstoneFinal), and the    *)
(* durability flag is never stale (PersistedMeansStored).                  *)
(*                                                                         *)
(* Each step that matters is looked at from three sides: what it does to   *)
(* the peer, to the state of the link, and to the cleared record.          *)
(***************************************************************************)

\* The record stays erased: the tombstone never finds a write under way, and
\* BondClear is between its two halves only with the page blank.
Cleared == /\ bond.tombstone => nv = NoPeer /\ pc.at \notin Writing
           /\ pc.at = "clear" => nv = NoPeer

-----------------------------------------------------------------------------
(* The peer and the tombstone *)

\* Whose bond it is, and whether it was cleared, are what they were.
Same(b) == b.peer = bond.peer /\ b.tombstone = bond.tombstone

\* Arming, committing and marking a record leave both alone.
LEMMA SameOps ==
  ASSUME bond \in BondType
  PROVE  /\ Same(bond)
         /\ Same(ArmPersist(bond))
         /\ Same(CommitRam(bond))
         /\ Same(ArmPersist(CommitRam(bond)))
         /\ \A v \in BOOLEAN : /\ Same([bond EXCEPT !.pending = v])
                               /\ Same([bond EXCEPT !.persisted = v])
BY DEF BondType, Same, ArmPersist, MustPersist, CommitRam

\* Only an accepted beacon, RF_TombstoneBond and a reset change either.
LEMMA SameStep ==
  ASSUME TypeOK, Next, ~RxPairAccept, ~TombstoneBond, ~Reset
  PROVE  Same(bond')
<1>a. bond \in BondType
  BY DEF TypeOK
<1>b. UNCHANGED bond => Same(bond')
  BY DEF Same
<1>c. TRUE \in BOOLEAN /\ FALSE \in BOOLEAN
  OBVIOUS
<1>1. CASE Handlers
  <2>1. CASE PersistSnapshot \/ Quiesce
    BY <2>1, <1>a, <1>c, SameOps DEF PersistSnapshot, Quiesce
  <2>2. CASE Start \/ CampTick \/ BootWindowStep \/ ConfirmClaim
    BY <2>2, <1>b DEF Start, CampTick, BootWindowStep, ConfirmClaim
  <2>3. CASE RestartFallback \/ RestartDrop \/ RestartRearm \/ PostPollRx \/ PairPrep
    BY <2>3, <1>b DEF RestartFallback, RestartDrop, RestartRearm, PostPollRx, PairPrep
  <2>4. CASE SendPairAck \/ SendPoll \/ TxPair15 \/ TxPair15B
    BY <2>4, <1>b DEF SendPairAck, SendPoll, TxPair15, TxPair15B
  <2>5. CASE TimeoutAlive \/ ReacquireFresh \/ ReacquireKeysUp \/ GiveupStart
    BY <2>5, <1>b DEF TimeoutAlive, ReacquireFresh, ReacquireKeysUp, GiveupStart
  <2> QED BY <1>1, <2>1, <2>2, <2>3, <2>4, <2>5 DEF Handlers
<1>2. CASE Continues
  <2>1. CASE PersistAlready \/ PersistReadback
    BY <2>1, <1>a, <1>c, SameOps DEF PersistAlready, PersistReadback
  <2>2. CASE PersistErase \/ PersistWrite \/ BootWindowListen
    BY <2>2, <1>b DEF PersistErase, PersistWrite, BootWindowListen
  <2>3. CASE ConfirmAct
    BY <2>3, <1>a, <1>c, SameOps DEF ConfirmAct
  <2>4. CASE RestartFinish
    BY <2>4, <1>a, SameOps DEF RestartFinish
  <2>5. CASE ReacquireTeardown \/ ReacquireScan \/ GiveupTeardown \/ GiveupClaim
    BY <2>5, <1>b DEF ReacquireTeardown, ReacquireScan, GiveupTeardown, GiveupClaim
  <2>6. CASE GiveupCamp
    BY <2>6, <1>a, SameOps DEF GiveupCamp
  <2> QED BY <1>2, <2>1, <2>2, <2>3, <2>4, <2>5, <2>6 DEF Continues
<1>3. CASE Receives
  BY <1>3, <1>b DEF Receives, RxNoise, RxScanNoise, RxPairRekey, RxConnected
<1>4. CASE Sends
  <2>1. CASE TxDonePromote
    BY <2>1, <1>a, SameOps DEF TxDonePromote
  <2> QED BY <1>4, <2>1, <1>b DEF Sends, TxDoneBurst, TxDoneTombstone, TxDoneRekey,
                            TxDonePoll, TxDoneStray, TxFail
<1>5. CASE Timers \/ Calls \/ Ages \/ CompletionLost
  BY <1>5, <1>b DEF Timers, GridPosts, GridSends, OneShotFires, DelayFires, Calls,
              BondErase, QuiesceRequest, DiagIntervene, Ages, CompletionLost
<1> QED BY <1>1, <1>2, <1>3, <1>4, <1>5 DEF Next

\* A beacon accepted by a bonded dongle outside the window is its own
\* keyboard's: the gate (rf_phy_event_sink's LEN-10 branch) asks for both.
LEMMA AcceptStep ==
  ASSUME TypeOK, RxPairAccept, bond.valid, ~link.pairWin
  PROVE  bond'.peer = bond.peer
<1>1. PICK k \in Keyboards, near \in BOOLEAN :
         /\ PairGate(k, near)
         /\ bond' = [bond EXCEPT !.peer = k, !.persisted = KnownDurable(k)]
  BY DEF RxPairAccept
<1>2. bond.peer = k
  BY <1>1 DEF PairGate
<1>3. bond'.peer = k
  BY <1>1 DEF TypeOK, BondType
<1> QED BY <1>2, <1>3

\* Outside the boot window a bonded dongle never changes keyboards, whatever
\* beacons it hears and however near.
THEOREM WindowLockHolds == Spec => WindowLock
<1>1. TypeOK /\ [Next]_vars
        => [bond.valid /\ bond'.valid /\ bond.peer # NoPeer /\ ~link.pairWin
              => bond'.peer = bond.peer \/ Reset]_vars
  <2>1. TypeOK /\ TombstoneBond => ~bond'.valid
    BY DEF TombstoneBond, ClearBond, TypeOK, BondType
  <2> QED BY <2>1, SameStep, AcceptStep DEF Same, vars
<1> QED BY <1>1, TypeCorrect, PTL DEF Spec, WindowLock

-----------------------------------------------------------------------------
(* The tombstone *)

\* Steps that neither write the page nor start or leave a write or a clear
Elsewhere == /\ ~TombstoneBond /\ ~Reset /\ ~BondErase
             /\ ~PersistSnapshot /\ ~Quiesce /\ ~PersistAlready /\ ~PersistErase
             /\ ~PersistWrite /\ ~PersistReadback

\* They leave the page alone.
LEMMA PageStep ==
  ASSUME Next, Elsewhere
  PROVE  nv' = nv
<1>e. Elsewhere
  OBVIOUS
<1>1. CASE Handlers
  BY <1>e, <1>1 DEF Elsewhere, Handlers, Start, CampTick, BootWindowStep,
     ConfirmClaim, RestartFallback, RestartDrop, RestartRearm, PostPollRx,
     PairPrep, SendPairAck, SendPoll, TxPair15, TxPair15B, TimeoutAlive,
     ReacquireFresh, ReacquireKeysUp, GiveupStart
<1>2. CASE Continues
  BY <1>e, <1>2 DEF Elsewhere, Continues, BootWindowListen, ConfirmAct,
     RestartFinish, ReacquireTeardown, ReacquireScan, GiveupTeardown,
     GiveupClaim, GiveupCamp
<1>3. CASE Receives \/ Sends
  BY <1>3 DEF Receives, Sends, RxNoise, RxScanNoise, RxPairAccept,
     RxPairRekey, RxConnected, TxDoneBurst, TxDoneTombstone,
     TxDonePromote, TxDoneRekey, TxDonePoll, TxDoneStray, TxFail
<1>4. CASE Timers \/ Calls \/ Ages \/ CompletionLost
  BY <1>e, <1>4 DEF Elsewhere, Timers, GridPosts, GridSends, OneShotFires, DelayFires,
     Calls, QuiesceRequest, DiagIntervene, Ages, CompletionLost
<1>5. ~Reset
  BY <1>e DEF Elsewhere
<1> QED BY <1>1, <1>2, <1>3, <1>4, <1>5 DEF Next

\* They neither begin nor end a write or a clear.
LEMMA PointStep ==
  ASSUME TypeOK, Next, Elsewhere
  PROVE  \/ pc'.at = pc.at /\ pc'.want = pc.want
         \/ pc'.at \notin Writing \cup {"clear"} /\ pc.at \notin Writing \cup {"clear"}
<1>e. Elsewhere
  OBVIOUS
<1>a. pc \in PcType
  BY DEF TypeOK
<1> USE DEF Turn, Writing
<1>1. CASE Start \/ CampTick \/ RestartFallback \/ RestartDrop
           \/ PostPollRx \/ PairPrep \/ SendPairAck \/ SendPoll
           \/ TxPair15 \/ TxPair15B \/ TimeoutAlive \/ ReacquireFresh
  BY <1>1 DEF Start, CampTick, RestartFallback, RestartDrop, PostPollRx,
     PairPrep, SendPairAck, SendPoll, TxPair15, TxPair15B, TimeoutAlive,
     ReacquireFresh, Lapsed
<1>2. CASE BootWindowStep
  <2>1. Goto("bootclose").at = "bootclose" /\ Goto("bootpair").at = "bootpair"
        /\ Goto("bootsession").at = "bootsession"
    BY <1>a DEF PcType, Goto
  <2> QED BY <1>2, <2>1 DEF BootWindowStep
<1>3. CASE ConfirmClaim \/ RestartRearm
  BY <1>3, <1>a DEF ConfirmClaim, RestartRearm, PcType, Goto
<1>4. CASE ReacquireKeysUp \/ GiveupStart
  BY <1>4, <1>a DEF ReacquireKeysUp, Lapsed, GiveupStart, PcType, Goto
<1>5. CASE ReacquireTeardown \/ GiveupTeardown \/ GiveupClaim
  BY <1>5, <1>a DEF ReacquireTeardown, GiveupTeardown, GiveupClaim, PcType, GoOn
<1>6. CASE BootWindowListen \/ ConfirmAct \/ RestartFinish \/ ReacquireScan
           \/ GiveupCamp
  BY <1>6 DEF BootWindowListen, ConfirmAct, RestartFinish, ReacquireScan,
              GiveupCamp, Idle
<1>7. CASE Receives \/ Sends
  <2>1. Preempts => pc'.at = pc.at /\ pc'.want = pc.want
    BY <1>a DEF Preempts, PcType
  <2>2. Preempts
    BY <1>7 DEF Receives, Sends, RxNoise, RxScanNoise, RxPairAccept,
       RxPairRekey, RxConnected, TxDoneBurst, TxDoneTombstone,
       TxDonePromote, TxDoneRekey, TxDonePoll, TxDoneStray, TxFail,
       Received, Sent
  <2> QED BY <2>1, <2>2
<1>8. CASE Timers \/ Calls \/ Ages \/ CompletionLost
  BY <1>e, <1>8 DEF Elsewhere, Timers, GridPosts, GridSends, OneShotFires, DelayFires,
     Expires, Calls, QuiesceRequest, DiagIntervene, Ages, CompletionLost
<1> QED BY <1>e, <1>1, <1>2, <1>3, <1>4, <1>5, <1>6, <1>7, <1>8
        DEF Next, Handlers, Continues, Elsewhere

\* Cleared is inductive: a write starts only from a record without a tombstone
\* (rf_persist_bond_task returns early), and the page is blank before the
\* tombstone is set.
LEMMA ClearedStep ==
  ASSUME TypeOK, Next, Cleared
  PROVE  Cleared'
<1>a. pc \in PcType /\ bond \in BondType
  BY DEF TypeOK
<1>1. CASE TombstoneBond
  <2>1. nv' = NoPeer /\ pc'.at = "idle"
    BY <1>1, <1>a DEF TombstoneBond, Cleared, PcType, Idle, Goto
  <2> QED BY <2>1 DEF Cleared, Writing
<1>2. CASE Reset
  <2>1. bond'.tombstone = FALSE /\ pc'.at = "idle"
    BY <1>2, <1>a DEF Reset, BootBond, PcType, Idle, Goto
  <2> QED BY <2>1 DEF Cleared
<1>3. CASE BondErase
  <2>1. nv' = NoPeer /\ pc'.at = "clear"
    BY <1>3, <1>a DEF BondErase, PcType, Idle, Goto
  <2> QED BY <2>1 DEF Cleared, Writing
<1>4. CASE PersistSnapshot \/ Quiesce
  <2>1. bond'.tombstone = bond.tombstone /\ nv' = nv
    BY <1>4, <1>a DEF PersistSnapshot, Quiesce, BondType
  <2>2. pc'.at # "clear" \/ pc' = pc
    BY <1>4, <1>a DEF PersistSnapshot, Quiesce, PcType, Idle, Goto
  <2>3. bond.tombstone => pc' = pc
    BY <1>4 DEF PersistSnapshot, Quiesce, PersistSkips
  <2> QED BY <2>1, <2>2, <2>3 DEF Cleared
<1>5. CASE PersistAlready \/ PersistErase \/ PersistWrite \/ PersistReadback
  <2>1. pc.at \in Writing /\ ~bond.tombstone
    BY <1>5 DEF PersistAlready, PersistErase, PersistWrite, PersistReadback,
                Writing, Cleared
  <2>2. pc'.at # "clear"
    <3>1. CASE PersistAlready \/ PersistReadback
      BY <3>1 DEF PersistAlready, PersistReadback, PersistReturn, Idle
    <3>2. CASE PersistErase
      BY <3>2, <1>a DEF PersistErase, PcType, Goto
    <3>3. CASE PersistWrite
      BY <3>3, <1>a DEF PersistWrite, PcType, Goto
    <3> QED BY <1>5, <3>1, <3>2, <3>3
  <2>3. bond'.tombstone = bond.tombstone
    BY <1>5, <1>a DEF PersistAlready, PersistErase, PersistWrite,
                      PersistReadback, BondType
  <2> QED BY <2>1, <2>2, <2>3 DEF Cleared, Writing
<1>6. ASSUME ~TombstoneBond, ~Reset, ~BondErase, ~PersistSnapshot, ~Quiesce,
             ~PersistAlready, ~PersistErase, ~PersistWrite, ~PersistReadback
      PROVE  Cleared'
  <2>1. bond'.tombstone = bond.tombstone
    <3>1. CASE RxPairAccept
      BY <3>1, <1>a DEF RxPairAccept, BondType
    <3> QED BY <1>6, <3>1, SameStep DEF Same
  <2>2. nv' = nv
    BY <1>6, PageStep DEF Elsewhere
  <2>3. pc'.at = pc.at \/ pc'.at \notin Writing \cup {"clear"}
    BY <1>6, PointStep DEF Elsewhere
  <2> QED BY <2>1, <2>2, <2>3 DEF Cleared
<1> QED BY <1>1, <1>2, <1>3, <1>4, <1>5, <1>6

\* Only the two promotions connect.
LEMMA ConnectStep ==
  ASSUME TypeOK, Next, ~TxDonePromote, ~TxDoneRekey, link'.state = "connected"
  PROVE  link.state = "connected"
<1>a. link \in LinkType
  BY DEF TypeOK
<1> USE DEF LinkType, FreshPair, ForgetAttempt, AbortBurst, CloseWindow,
            WatchdogOn, Decided
<1>1. CASE Handlers
  <2>1. CASE PersistSnapshot \/ Quiesce \/ ConfirmClaim
    BY <2>1, <1>a DEF PersistSnapshot, Quiesce, ConfirmClaim
  <2>2. CASE Start \/ CampTick \/ BootWindowStep
    BY <2>2, <1>a DEF Start, CampTick, BootWindowStep
  <2>3. CASE RestartFallback \/ RestartDrop \/ RestartRearm \/ PostPollRx \/ PairPrep
    BY <2>3, <1>a DEF RestartFallback, RestartDrop, RestartRearm, PostPollRx, PairPrep
  <2>4. CASE SendPairAck \/ SendPoll \/ TxPair15 \/ TxPair15B
    BY <2>4, <1>a DEF SendPairAck, SendPoll, TxPair15, TxPair15B, TxPair
  <2>5. CASE TimeoutAlive \/ ReacquireFresh \/ ReacquireKeysUp \/ GiveupStart
    BY <2>5, <1>a DEF TimeoutAlive, ReacquireFresh, ReacquireKeysUp, GiveupStart
  <2> QED BY <1>1, <2>1, <2>2, <2>3, <2>4, <2>5 DEF Handlers
<1>2. CASE Continues
  <2>1. CASE PersistAlready \/ PersistErase \/ PersistWrite \/ PersistReadback
    BY <2>1, <1>a DEF PersistAlready, PersistErase, PersistWrite, PersistReadback
  <2>2. CASE BootWindowListen \/ ConfirmAct \/ RestartFinish
    BY <2>2, <1>a DEF BootWindowListen, ConfirmAct, RestartFinish
  <2>3. CASE ReacquireTeardown \/ ReacquireScan \/ TombstoneBond
    BY <2>3, <1>a DEF ReacquireTeardown, ReacquireScan, TombstoneBond
  <2>4. CASE GiveupTeardown \/ GiveupClaim \/ GiveupCamp
    BY <2>4, <1>a DEF GiveupTeardown, GiveupClaim, GiveupCamp
  <2> QED BY <1>2, <2>1, <2>2, <2>3, <2>4 DEF Continues
<1>3. CASE Receives
  BY <1>3, <1>a DEF Receives, RxNoise, RxScanNoise, RxPairAccept, RxPairRekey,
                    RxConnected
<1>4. CASE Sends
  BY <1>4, <1>a DEF Sends, TxDoneBurst, TxDoneTombstone, TxDonePoll,
     TxDoneStray, TxFail
<1>5. CASE Timers \/ Calls \/ Ages \/ CompletionLost
  BY <1>5, <1>a DEF Timers, GridPosts, GridSends, OneShotFires, DelayFires,
     Calls, BondErase, QuiesceRequest, DiagIntervene, Ages, CompletionLost
<1>6. CASE Reset
  BY <1>6 DEF Reset, BootLink
<1> QED BY <1>1, <1>2, <1>3, <1>4, <1>5, <1>6 DEF Next

\* The page stays blank between BondClear and the next record, for ever after
\* the tombstone.
THEOREM ClearedHolds == Spec => []Cleared
<1>1. Init => Cleared
  BY DEF Init, Cleared, BootBond, Idle
<1>2. TypeOK /\ Cleared /\ [Next]_vars => Cleared'
  BY ClearedStep DEF vars, Cleared
<1> QED BY <1>1, <1>2, TypeCorrect, PTL DEF Spec

\* After BondClear nothing rewrites the record and no keyboard becomes
\* connected before a reboot.
THEOREM TombstoneFinalHolds == Spec => TombstoneFinal
<1>1. TypeOK /\ Cleared /\ Cleared' /\ [Next]_vars
        => [bond.tombstone /\ bond'.tombstone =>
              /\ nv' = NoPeer
              /\ link'.state = "connected" => link.state = "connected"]_vars
  BY ConnectStep DEF Cleared, vars, TxDonePromote, TxDoneRekey, MayPromote
<1> QED BY <1>1, ClearedHolds, TypeCorrect, PTL DEF Spec, TombstoneFinal

-----------------------------------------------------------------------------
(* The durability flag *)

\* What is being written is the committed record, not yet marked durable.
Stored == pc.at \in Writing => /\ pc.want = bond.rec /\ bond.rec # NoPeer
                              /\ ~bond.tombstone /\ ~bond.persisted

\* The committed record is the same, and nothing becomes durable.
Lowers(b) == b.rec = bond.rec /\ (b.persisted => bond.persisted)

LEMMA LowersOps ==
  ASSUME bond \in BondType
  PROVE  /\ Lowers(bond)
         /\ Lowers(ArmPersist(bond))
         /\ Lowers([bond EXCEPT !.pending = FALSE])
         /\ Lowers([bond EXCEPT !.persisted = FALSE])
BY DEF BondType, Lowers, ArmPersist, MustPersist

\* Only an accepted beacon, a promotion, the tombstone, the reset and a
\* verified write do otherwise.
LEMMA LowersStep ==
  ASSUME TypeOK, Next, ~RxPairAccept, ~TombstoneBond, ~Reset, ~TxDonePromote,
         ~PersistAlready, ~PersistReadback
  PROVE  Lowers(bond')
<1>a. bond \in BondType
  BY DEF TypeOK
<1>b. UNCHANGED bond => Lowers(bond')
  BY DEF Lowers
<1>1. CASE Handlers
  <2>1. CASE PersistSnapshot \/ Quiesce
    BY <2>1, <1>a, LowersOps DEF PersistSnapshot, Quiesce
  <2>2. CASE Start \/ CampTick \/ BootWindowStep \/ ConfirmClaim
    BY <2>2, <1>b DEF Start, CampTick, BootWindowStep, ConfirmClaim
  <2>3. CASE RestartFallback \/ RestartDrop \/ RestartRearm \/ PostPollRx \/ PairPrep
    BY <2>3, <1>b DEF RestartFallback, RestartDrop, RestartRearm, PostPollRx, PairPrep
  <2>4. CASE SendPairAck \/ SendPoll \/ TxPair15 \/ TxPair15B
    BY <2>4, <1>b DEF SendPairAck, SendPoll, TxPair15, TxPair15B
  <2>5. CASE TimeoutAlive \/ ReacquireFresh \/ ReacquireKeysUp \/ GiveupStart
    BY <2>5, <1>b DEF TimeoutAlive, ReacquireFresh, ReacquireKeysUp, GiveupStart
  <2> QED BY <1>1, <2>1, <2>2, <2>3, <2>4, <2>5 DEF Handlers
<1>2. CASE Continues
  <2>1. CASE PersistErase \/ PersistWrite \/ BootWindowListen
    BY <2>1, <1>b DEF PersistErase, PersistWrite, BootWindowListen
  <2>2. CASE ConfirmAct
    BY <2>2, <1>a, LowersOps DEF ConfirmAct
  <2>3. CASE RestartFinish
    BY <2>3, <1>a, LowersOps DEF RestartFinish
  <2>4. CASE ReacquireTeardown \/ ReacquireScan \/ GiveupTeardown \/ GiveupClaim
    BY <2>4, <1>b DEF ReacquireTeardown, ReacquireScan, GiveupTeardown, GiveupClaim
  <2>5. CASE GiveupCamp
    BY <2>5, <1>a, LowersOps DEF GiveupCamp
  <2> QED BY <1>2, <2>1, <2>2, <2>3, <2>4, <2>5 DEF Continues
<1>3. CASE Receives \/ Sends
  BY <1>3, <1>b DEF Receives, RxNoise, RxScanNoise, RxPairRekey, RxConnected,
     Sends, TxDoneBurst, TxDoneTombstone, TxDoneRekey, TxDonePoll, TxDoneStray, TxFail
<1>4. CASE Timers \/ Calls \/ Ages \/ CompletionLost
  BY <1>4, <1>b DEF Timers, GridPosts, GridSends, OneShotFires, DelayFires, Calls,
              BondErase, QuiesceRequest, DiagIntervene, Ages, CompletionLost
<1> QED BY <1>1, <1>2, <1>3, <1>4 DEF Next

\* No step leaves the flag set over another page, or a write under way of
\* anything but the committed record.
LEMMA StoredStep ==
  ASSUME TypeOK, BondInvariant, Next, PersistedMeansStored, Stored
  PROVE  PersistedMeansStored' /\ Stored'
<1>a. pc \in PcType /\ bond \in BondType
  BY DEF TypeOK
<1>b. RecordIsPeer /\ WriteIsProven /\ OpenWindow
  BY DEF BondInvariant
<1>c. proven \subseteq Keyboards
  BY DEF TypeOK
<1>1. CASE Reset
  BY <1>1 DEF Reset, BootBond, Idle, PersistedMeansStored, Stored, Writing
<1>2. CASE TombstoneBond
  BY <1>2, <1>a DEF TombstoneBond, ClearBond, BondType, Idle, PersistedMeansStored,
                    Stored, Writing
<1>3. CASE BondErase
  <2>1. pc'.at = "clear"
    BY <1>3, <1>a DEF BondErase, PcType, Goto
  <2> QED BY <2>1 DEF PersistedMeansStored, Stored, Writing
<1>4. CASE PersistSnapshot \/ Quiesce
  <2>1. /\ bond'.rec = bond.rec /\ bond'.persisted = bond.persisted
        /\ bond'.peer = bond.peer /\ bond'.tombstone = bond.tombstone
        /\ nv' = nv /\ pc.at = "idle"
    BY <1>4, <1>a DEF PersistSnapshot, Quiesce, BondType, Turn
  <2>2. \/ pc' = pc
        \/ /\ pc' = [Goto("persist1") EXCEPT !.want = bond.rec] /\ ~PersistSkips
           /\ bond.pending \/ "PERSIST" \in q.pend \cup q.ev
    BY <1>4 DEF PersistSnapshot, Quiesce, Turn, Current
  <2>3. pc'.at \in Writing =>
          /\ pc'.want = bond.rec /\ bond.rec \in proven
          /\ ~bond.tombstone /\ ~bond.persisted
    BY <1>a, <1>b, <2>1, <2>2 DEF PcType, Goto, PersistSkips, WriteIsProven, Writing
  <2> QED BY <1>c, <2>1, <2>3, NoPeerAssumption DEF PersistedMeansStored, Stored
<1>5. CASE PersistAlready \/ PersistReadback
  <2>1. /\ pc.at \in Writing /\ pc'.at = "idle" /\ nv' = nv
        /\ bond'.peer = bond.peer
        /\ bond'.persisted => nv = pc.want
    BY <1>5, <1>a DEF PersistAlready, PersistReadback, PersistReturn, Idle, Writing,
                      BondType, Stored
  <2>2. pc.want = bond.peer
    BY <1>b, <2>1 DEF Stored, RecordIsPeer
  <2> QED BY <2>1, <2>2 DEF PersistedMeansStored, Stored, Writing
<1>6. CASE PersistErase \/ PersistWrite
  <2>1. pc.at \in Writing /\ bond' = bond
    BY <1>6 DEF PersistErase, PersistWrite, Writing
  <2>2. pc'.at \in Writing /\ pc'.want = pc.want
    BY <1>6, <1>a DEF PersistErase, PersistWrite, Writing, PcType, Goto
  <2> QED BY <2>1, <2>2 DEF PersistedMeansStored, Stored
<1>7. CASE RxPairAccept
  <2>1. PICK k \in Keyboards, near \in BOOLEAN :
          /\ PairGate(k, near)
          /\ bond' = [bond EXCEPT !.peer = k, !.persisted = KnownDurable(k)]
    BY <1>7 DEF RxPairAccept
  <2>2. /\ bond'.rec = bond.rec /\ bond'.tombstone = bond.tombstone
        /\ bond'.persisted => bond.persisted /\ bond'.peer = bond.peer
    BY <1>a, <2>1 DEF BondType, KnownDurable
  <2>3. pc'.at = pc.at /\ pc'.want = pc.want /\ nv' = nv
    BY <1>7, <1>a DEF RxPairAccept, Received, Preempts, PcType
  <2> QED BY <2>2, <2>3 DEF PersistedMeansStored, Stored
<1>8. CASE TxDonePromote
  <2>1. ~bond.tombstone /\ bond' \in {CommitRam(bond), ArmPersist(CommitRam(bond))}
    BY <1>8 DEF TxDonePromote, MayPromote
  <2>2. /\ bond'.peer = bond.peer /\ bond'.persisted = bond.persisted
        /\ bond'.tombstone = bond.tombstone /\ bond'.rec = bond.peer
    BY <1>a, <2>1 DEF BondType, CommitRam, ArmPersist
  <2>3. pc'.at = pc.at /\ pc'.want = pc.want /\ nv' = nv
    BY <1>8, <1>a DEF TxDonePromote, Sent, Preempts, PcType
  <2> QED BY <1>b, <2>1, <2>2, <2>3 DEF PersistedMeansStored, Stored, RecordIsPeer
<1>9. CASE Elsewhere /\ ~RxPairAccept /\ ~TxDonePromote
  <2>1. Lowers(bond') /\ Same(bond')
    BY <1>9, LowersStep, SameStep DEF Elsewhere
  <2>2. nv' = nv
    BY <1>9, PageStep
  <2>3. \/ pc'.at = pc.at /\ pc'.want = pc.want
        \/ pc'.at \notin Writing \cup {"clear"} /\ pc.at \notin Writing \cup {"clear"}
    BY <1>9, PointStep
  <2> QED BY <2>1, <2>2, <2>3 DEF PersistedMeansStored, Stored, Lowers, Same
<1> QED BY <1>1, <1>2, <1>3, <1>4, <1>5, <1>6, <1>7, <1>8, <1>9 DEF Elsewhere

\* rf_bond_persisted is never stale: outside the erase half of BondClear, while
\* it is set the DataFlash record is the RAM peer's, through every accept,
\* re-pair, failed or torn write, and reset.
THEOREM PersistedMeansStoredHolds == Spec => []PersistedMeansStored
<1>1. Init => PersistedMeansStored /\ Stored
  BY DEF Init, PersistedMeansStored, Stored, BootBond, Idle, Writing
<1>2. TypeOK /\ BondInvariant /\ (PersistedMeansStored /\ Stored) /\ [Next]_vars
        => (PersistedMeansStored /\ Stored)'
  BY StoredStep DEF vars, PersistedMeansStored, Stored
<1> QED BY <1>1, <1>2, TypeCorrect, BondInvariantHolds, PTL DEF Spec
=============================================================================
