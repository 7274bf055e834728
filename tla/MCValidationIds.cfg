\* The ids that the comments of agent_validation call globally unique.
SPECIFICATION Spec
CONSTANTS
  a1 = a1
  a2 = a2
  Addresses <- MCAddresses
  Agents = {a1}
  DataHashes = {d1}
  Ttls <- MCTtls
  Scores <- MCScores
  MAX_TTL_SECS = 1
  MICRO_CONVERSION_FACTOR = 2
  Timestamps <- MCTimestamps
CHECK_DEADLOCK FALSE
INVARIANT RequestIdsGloballyUnique
