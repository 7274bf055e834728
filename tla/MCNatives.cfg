CONSTANTS
  t1 = t1
  t2 = t2
  TxnHash = {t1, t2}
  \* TableNatives
  k1 = k1
  v1 = v1
  v2 = v2
  NoValue = NoValue
  Key = {k1}
  Value = {v1, v2}
  MaxTables = 2
  \* AggregatorV1
  Limit = {2}
  Amount = {1, 2}
  MaxAggregators = 2
  MaxCalls = 3
  \* AggregatorV2
  a1 = a1
  s1 = s1
  Aggregator = {a1}
  Snapshot = {s1}
  MaxValues = {1, 2}
  Inputs = {1, 2}
  Lengths = {1, 3}
  DERIVED_STRING_INPUT_MAX_LENGTH = 2
  MaxV2Calls = 3
  \* TransactionContext
  x1 = x1
  a = a
  b = b
  payload = payload
  NoContext = NoContext
  Script = {x1}
  Address = {a, b}
  Payload = {payload}
  Byte = 2
  CounterBytes = 2
  MaxAuids = 2
  \* EventNatives
  c = c
  m = m
  n = n
  Creator = {c}
  Module = {m, n}
  MaxHandles = 2
  MaxEvents = 2
  \* CryptoAlgebra
  Features <- MCFeatures
  R = 3
  Q = 7
  GtGenerator = 2
  Integer = {5}
  size_of <- MCsize_of
  MEMORY_LIMIT_IN_BYTES = 7
  MaxAlgebraSessions = 1
  \* RistrettoPoints
  L = 3
  HighBit = 4
  NUM_POINTS_LIMIT = 3
  \* SignatureNatives
  SubgroupOrder = 3
  Cofactor = 2
  Message = {1, 2}
  MAX_NUM_OF_KEYS = 2
  MaxList = 2
SYMMETRY Symmetry
SPECIFICATION MCSpec
INVARIANTS
  TableTypeOK
  ChangeSetFits
  LengthsCount
  MergesLikePlain
  CountersMatchStructs
  DelayedLikePlain
  IdentifiersAreFresh
  StreamsAreNumbered
  ElementsMatchTypes
  PointsLikeValues
  AcceptedMeansSigned
PROPERTY ImplementsStore
CHECK_DEADLOCK FALSE
