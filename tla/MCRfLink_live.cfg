CONSTANTS
  Tmos = TRUE
  Keyboards = {k1}
  NoPeer = NoPeer
  BootSteps = 2
  MaxFaults = 0
  Commands = {"clear", "diag"}
SPECIFICATION FairSpec
PROPERTY LapseNoticed
PROPERTY ScanEnds
PROPERTY WindowCloses
PROPERTY ConfirmSettles
PROPERTY ProvenKept
PROPERTY CampHeals
