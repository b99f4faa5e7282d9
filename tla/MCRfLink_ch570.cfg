CONSTANTS
  Tmos = FALSE
  Keyboards = {k1}
  NoPeer = NoPeer
  BootSteps = 2
  MaxFaults = 0
  Commands = {"clear"}
SPECIFICATION Spec
INVARIANT ConfirmBeforePersist
INVARIANT DeadlineInvariant
INVARIANT PollsRun
