CONSTANTS
  Deferred = TRUE
  Keys = {a}
  Up = Up
  Others = {}
  Slots = 2
  Halts = {1}
  Detaches = FALSE
SPECIFICATION FairSpec
INVARIANT KeysSettle
PROPERTY WakeAnswered
PROPERTY Drains
