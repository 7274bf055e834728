CONSTANTS
  SubgroupOrder = 3
  Cofactor = 2
  Message = {1, 2}
  MAX_NUM_OF_KEYS = 2
  MaxList = 2
SPECIFICATION SignatureSpec
INVARIANT ChargedAsDocumented
CHECK_DEADLOCK FALSE
