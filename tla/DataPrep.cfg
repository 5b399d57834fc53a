\* Files of a few lines over three minutes and three prices, one of them zero.
SPECIFICATION Spec
CONSTANTS
  Slots = {0, 1, 2}
  Bids = {0, 1, 2}
  MAX_VALUE = 9
  MaxLines = 5
  null = null
INVARIANTS
  TypeOK
  OutputFaithful
  OutputComplete
