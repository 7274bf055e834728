\* One agent, two accounts, three NFTs, three responses.
SPECIFICATION MCSpec
CONSTANTS
  owner = owner
  client = client
  agent1 = agent1
  n1 = n1
  n2 = n2
  n3 = n3
  r1 = r1
  r2 = r2
  r3 = r3
  Accounts <- MCAccounts
  ObjectAddresses <- MCObjects
  AgentAddresses = {agent1}
  ReputationAddresses <- MCReputations
  ResponseAddresses <- MCResponses
  BURN_ADDRESS = burn_address
  MAXIMUM_OBJECT_NESTING = 8
  MICRO_CONVERSION_FACTOR = 1
  Timestamps = {1}
  EmptyUri = ""
  MetadataUris <- MCUris
  FileUris <- MCUris
  Domains = {"domain"}
  Clients <- MCAccounts
  NewOwners = {client}
  Candidates <- MCAccounts
  IndexLimits = {1, 2}
  Expiries <- MCExpiries
  MaxEpochs = 2
  Scores <- MCScores
  MAX_RESPONSES = 2
  Deployer = owner
SYMMETRY AddressSymmetry
CHECK_DEADLOCK FALSE
INVARIANTS TypeOK QuotaLedger RateLimited ResponsesNumbered
