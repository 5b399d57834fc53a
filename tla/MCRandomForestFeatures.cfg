SPECIFICATION Spec
CONSTANTS
  Files <- MCFiles
  TreeCounts = {2}
  FeaturePairs <- TwoFeaturePairs
  TOTAL_INSTANCES = 5
INVARIANTS
  FeatureIdxIsOwn
