CONSTANTS
  Deferred = FALSE
  Keys = {a}
  Up = Up
  Others = {2}
  Slots = 2
  Halts = {}
  Detaches = FALSE
SPECIFICATION Spec
INVARIANT NewestSurvives
