----------------------------- MODULE KeyChannel -----------------------------
(***************************************************************************)
(* What the EP1 report queue promises (firmware/common/src/usb_device.c):  *)
(* the keyboard states offered to it reach the host in the order they were *)
(* offered, each once.  Only two things are ever lost: a state equal to    *)
(* the newest one, and, when the queue is full, the newest one itself,     *)
(* which the state that follows it replaces.  A bus reset forgets          *)
(* everything, and the host starts again with no key held.                 *)
(***************************************************************************)
EXTENDS Naturals, Sequences

CONSTANTS
  Keys,     \* keyboard states with a key down
  Up,       \* the state with every key up
  Slots     \* DONGLE_EP1_QUEUE_SLOTS

VARIABLES
  chan,     \* states the host has still to see, oldest first
  seen      \* the state the host saw last

States == Keys \cup {Up}

Init == chan = <<>> /\ seen = Up

\* One entry more, while there is room for it
Accept(k) == Len(chan) < Slots /\ chan' = Append(chan, k)

\* The newest entry gives way; the entry the host is collecting never does,
\* so one of the slots may be taken by a state the host has already seen.
Coalesce(k) ==
  /\ Len(chan) >= Slots - 1
  /\ chan' = [chan EXCEPT ![Len(chan)] = k]

Offer == \E k \in States : (Accept(k) \/ Coalesce(k)) /\ UNCHANGED seen

Collect == chan # <<>> /\ seen' = Head(chan) /\ chan' = Tail(chan)

Forget == chan' = <<>> /\ seen' = Up

Next == Offer \/ Collect \/ Forget

Spec == Init /\ [][Next]_<<chan, seen>>
=============================================================================
