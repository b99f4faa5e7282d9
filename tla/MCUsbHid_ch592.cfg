CONSTANTS
  Deferred = FALSE
  Keys = {a, b}
  Up = Up
  Others = {2}
  Slots = 2
  Halts = {1, 2}
  Detaches = FALSE
SPECIFICATION Spec
SYMMETRY KeySymmetry
INVARIANT TypeOK
INVARIANT KeysSettle
INVARIANT OthersSettle
INVARIANT QueueArmed
INVARIANT HeadInFlight
INVARIANT WakeOnce
PROPERTY WakeAsked
PROPERTY DeliversInOrder
