SPECIFICATION Spec
CONSTANTS
  TrainingLists <- MCTrainingLists
  FeatureLists <- AllFeatures
  TestInstances <- MCTestInstances
INVARIANTS
  GroupedIntoOwnSubset
