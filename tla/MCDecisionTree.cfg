SPECIFICATION Spec
CONSTANTS
  TrainingLists <- MCTrainingLists
  FeatureLists <- AllFeatures
  TestInstances <- MCTestInstances
INVARIANTS
  TreeSound
  SplitsBest
  MisroutedOnlyByTies
PROPERTIES
  WorkEnds
