SPECIFICATION MCSpec
CONSTANTS
  HalfRange = 4
  Infinity = 2
  Programs <- MCPrograms
  Upgrade = "Printer"
  MaxSteps = 60
  MaxRestarts = 1
INVARIANTS ProgramTypeOK OnTrack
PROPERTIES SavedReadsBack WholeSnapshotOnly
CHECK_DEADLOCK FALSE
