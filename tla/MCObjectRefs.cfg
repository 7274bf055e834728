\* Refs of two objects; every graph of owners of three.
SPECIFICATION MCSpec
CONSTANTS
  alice = alice
  bob = bob
  o1 = o1
  o2 = o2
  o3 = o3
  Accounts <- MCAccounts
  ObjectAddresses <- MCObjects
  UniqueAddresses = {o1}
  BURN_ADDRESS = burn_address
  MAXIMUM_OBJECT_NESTING = 2
  MaxStoredRefs = 2
  MaxLinearRefs = 1
SYMMETRY AccountSymmetry
CHECK_DEADLOCK FALSE
INVARIANTS TypeOK TransferAuthority
PROPERTIES PinnedObjectsStay UntransferableStays
