CONSTANTS
  EpConns = {"c1", "c2"}
  EpWidth = 2
  EpMax = 1
  EpMaxFaults = 1
  EpMaxSec = 2
  EpMaxTarget = 2
  EpFaults = {"file", "revoke", "landed", "bind", "vault", "crash"}
  AuditMax = 3
  AuditFaults = {"write", "torn", "seal", "sync", "crash", "crashClear", "shorten", "edit", "restore", "unseal"}
  AuditLimit = 2
  CatItems = 2
  CatNames = {n1, n2}
  CatConns = {"c1"}
  CatKinds = {"api", "ssh"}
  CatMaxVer = 2
  CatFaults = {"vault", "index", "rollback", "landed", "crash"}
  AccConns = {"c1", "c2"}
  AccMaxGen = 3
  AccFaults = {"file", "index", "crash"}
  IdTtl = 1
  IdRecovery = 1
  IdRefresh = 1
  IdSupTtl = 2
  IdMaxSup = 1
  IdMaxKey = 3
  IdMaxTime = 2
  IdFaults = {"persist", "file", "landed", "crash", "lose", "setback"}
  KcMaxVal = 3
  KcFaults = {"marker", "lost", "copy", "cleanup", "remove"}
  FvIds = {"i1", "i2"}
  FvKeys = {"A", "B"}
  FvMaxVal = 3
  FvFaults = {"failed", "landed", "lost"}
  SlFiles = {"f1", "f2"}
  SlMaxStarts = 3
  SlFaults = {"write", "crash", "unkey", "touch", "newer"}
SPECIFICATION StorageSpec
INVARIANTS AuditSound CatalogSound AccessSound EndpointsSound IdentitySound KeychainSound FileVaultSound IntegritySound
PROPERTIES CatNoLostEdit AccOneValue
VIEW StorageView
SYMMETRY StorageSymm
CHECK_DEADLOCK FALSE
