CONSTANTS
  Tmos = TRUE
  Keyboards = {k1}
  NoPeer = NoPeer
  BootSteps = 2
  MaxFaults = 1
  Commands = {"clear"}
SPECIFICATION Spec
INVARIANT PersistedMeansStored
INVARIANT ConfirmHasDeadline
INVARIANT CampWatched
