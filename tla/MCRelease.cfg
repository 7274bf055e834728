CONSTANTS
  core = core
  token = token
  a = a
  b = b
  o = o
  k = k
  m1 = m1
  n = n
  p = p
  q = q
  v1 = v1
  v2 = v2
  M = M
  N = N
  f1 = f1
  g1 = g1
  h = h
  rnd = rnd
  s = s
  t = t
  \* CodePublishing
  Account = {a, b}
  CodeObject = {o}
  Exempt = {core, token}
  CoreModule <- MCCoreModule
  owner_of <- MCowner_of
  Permitted = {a, b, core, token}
  Publication <- MCPublication
  NoRequest = NoRequest
  NoSession = NoSession
  AnyModule = AnyModule
  MaxUpgrades = 1
  \* ChunkedPublish
  Build = {v1, v2}
  publication <- MCpublication
  UploadObject = o
  ModuleOrder <- MCModuleOrder
  MaxPartSize = 3
  MaxChunkSize = 3
  MaxFaults = 2
  NoStagingArea = NoStagingArea
  \* PackageBuild
  default_bytecode <- MCdefault_bytecode
  languages_of <- MClanguages_of
  LatestLanguage = "latest"
  VERSION_MAX = 9
  NoPackage = NoPackage
  \* ReleaseBundle
  Sources <- MCSources
  CustomOptions <- MCCustomOptions
  IdOrder <- MCIdOrder
  ChunkSize = 2
  NoBundle = NoBundle
  \* ExtendedChecks
  Models <- MCModels
  FunOrder <- MCFunOrder
  RandomnessFun = rnd
SPECIFICATION MCSpec
INVARIANTS
  RegistryMatchesModules
  ImportsAreProtected
  PublishedWhole
  
  RandomnessChecked
  AcceptedIsMarked
PROPERTIES
  ImmutableStays
  UploadCompletes
  ReleaseCompletes
CHECK_DEADLOCK FALSE
