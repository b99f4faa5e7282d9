CONSTANTS
  QuiesceTicks = 2
  DrainTicks = 2
SPECIFICATION Spec
INVARIANT IapInvariant
PROPERTY RebootHappens
CHECK_DEADLOCK FALSE
