CONSTANTS
  Bits = {e1}
  Units = {1, 2}
  Mod = 32
  Unit = 2
  DueWindow = 1
  Floor = 2
  Cap = 2
  SuspendCap = 6
  HaltMin = 4
  HaltLead = 1
  HaltGuard = 2
  Backstop = 7
  Empty = Empty
  OtherTasks = 2
  MaxSkew = 1
  MaxLate = 1
SPECIFICATION Spec
INVARIANT NoSleepOverWork TimersCovered
