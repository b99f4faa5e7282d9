CONSTANTS
  Tmos = TRUE
  Keyboards = {k1, k2}
  NoPeer = NoPeer
  BootSteps = 2
  MaxFaults = 0
  Commands = {"clear", "quiesce"}
SPECIFICATION Spec
SYMMETRY KeyboardSymmetry
INVARIANT TypeOK
INVARIANT BondInvariant
INVARIANT PendingHasEvent
INVARIANT LinkSupervised
INVARIANT WindowTicks
INVARIANT BurstDriven
INVARIANT NoStuckKey
INVARIANT QuiesceSilent
PROPERTY WindowLock
PROPERTY TombstoneFinal
