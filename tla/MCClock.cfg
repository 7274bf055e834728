\* Validation requests: two addresses, one data hash, three seconds.  Delegated
\* keys: two accounts, one key, transactions of up to three calls.
SPECIFICATION MCSpec
CONSTANTS
  a1 = a1
  a2 = a2
  Addresses <- MCAddresses
  Agents = {a1}
  DataHashes = {d1}
  Ttls <- MCTtls
  Scores <- MCScores
  MAX_TTL_SECS = 1
  MICRO_CONVERSION_FACTOR = 2
  Timestamps <- MCClockTimestamps
  Accounts <- MCAddresses
  DelegationKeys = {k1}
  NoLimiter = NoLimiter
  Unlimited = Unlimited
  Limiters <- MCLimiters
  Expirations = {1, 4}
  Amounts = {1}
  MaxFees = {0, 2}
  Refunds = {0, 1}
  MaxCalls = 3
  MaxStorages = 3
  U256_MAX = 2
  MAX_U64 = 6
CHECK_DEADLOCK FALSE
INVARIANTS TypeOK RecordsMatchIds ReopenedWithinTheSecond
  DelegationTypeOK RevocationIsFinal SpentWithinGrants LimiterLikeWindows
PROPERTIES UnanswerableIsPermanent ImplementsLifecycle
