\* What a comment of create_agent_internal says of the owners of an agent, in
\* the instance of MCAgentFramework.
SPECIFICATION FrameworkSpec
CONSTANTS
  alice = alice
  bob = bob
  agent1 = agent1
  nft1 = nft1
  response1 = response1
  asset1 = asset1
  Accounts <- MCAccounts
  ObjectAddresses <- MCObjects
  AgentAddresses = {agent1}
  ReputationAddresses = {nft1}
  ResponseAddresses = {response1}
  AssetAddresses = {asset1}
  BURN_ADDRESS = burn_address
  MAXIMUM_OBJECT_NESTING = 8
  MICRO_CONVERSION_FACTOR = 1
  Timestamps = {}
  EmptyUri = ""
  MetadataUris = {"card"}
  FileUris = {"file"}
  Domains = {}
  Clients = {bob}
  NewOwners = {bob}
  Candidates = {}
  IndexLimits = {1}
  Expiries = {1}
  MaxEpochs = 1
  Scores = {100}
  MAX_RESPONSES = 1
  Deployer = alice
CHECK_DEADLOCK FALSE
INVARIANT OwnershipConsistent
