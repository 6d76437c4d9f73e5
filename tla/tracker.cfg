CONSTANTS
  Catalogs <- AllCatalogs
  Configs <- AllConfigs
  Faults = {"list", "key", "link"}
SPECIFICATION Spec
INVARIANT KeysFound
INVARIANT KeysAreRecent
