CONSTANTS
  Slots = {0, 1, 2}
  Cadence = {0, 1}
  None = None
  Mod = 68
  HwMod = 4
  MinDelta = 2
  Delays = {1, 5}
  Periods = {2}
  Nudges = {1}
  Runaway = 3
  MaxWait = 2
  MaxLate = 2
SPECIFICATION Spec
INVARIANT NeverEarly
INVARIANT Covered
PROPERTY ClockContinuous
