SPECIFICATION Spec
CONSTANTS
  Files <- MCFiles
  TreeCounts = {0, 1, 2, 3}
  FeaturePairs <- OneFeaturePair
  TOTAL_INSTANCES = 5
INVARIANTS
  ForestSound
