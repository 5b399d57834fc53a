SPECIFICATION Spec
CONSTANTS
  Runs = {c1, c2}
  Rfids = {1, 3}
  TreeCounts = {0, 2}
  label <- MCLabel
  LIMIT = 4
  TRAIN_COUNT = 2
  TEST_COUNT = 2
INVARIANTS
  PrecisionIsShare
