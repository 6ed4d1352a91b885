SPECIFICATION FairSpec
CONSTANTS
  builtin = builtin
  custom = custom
  ub = ub
  uc = uc
  x = x
  z = z
  periodic = periodic
  script = script
  NoAccount = NoAccount
  NoUri = NoUri
  NoId = NoId
  Ids = {builtin, custom}
  Supported = {builtin}
  Hired = {builtin}
  Accounts = {x, z}
  Valid = {x}
  Given = {x}
  Uris = {ub, uc}
  Document <- Documents
  Deployed <- Before
  Catalog <- Inventory
  Syncers = {periodic, script}
  Periodic = periodic
  Process <- Processes
  MaxOutages = 1
  MaxChanges = 2
INVARIANT PayeeIsVerified
INVARIANT RegisteredIsOnChain
PROPERTY RegistryIsMirrored
