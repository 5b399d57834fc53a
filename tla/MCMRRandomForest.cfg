SPECIFICATION Spec
CONSTANTS
  InputFiles <- MCInputFiles
  N = 3
  TRAINING_COUNT = 2
  MaxSetups = 2
  Ranges <- MCRanges
  SLICE_COUNT = 2
  MaxAttempts = 2
  MaxJobs = 2
INVARIANTS
  RowsSound
PROPERTIES
  ModelSafe
  ProgramsEnd
