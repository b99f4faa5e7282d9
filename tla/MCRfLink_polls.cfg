CONSTANTS
  Tmos = TRUE
  Keyboards = {k1}
  NoPeer = NoPeer
  BootSteps = 2
  MaxFaults = 0
  Commands = {}
SPECIFICATION Spec
INVARIANT PollsRun
