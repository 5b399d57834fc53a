SPECIFICATION Spec
CONSTANTS
  Runs = {c1, c2}
  Rfids = {1, 3}
  TreeCounts = {0, 2}
  label <- MCLabel
  LIMIT = 3
  TRAIN_COUNT = 2
  TEST_COUNT = 1
INVARIANTS
  RowSound
