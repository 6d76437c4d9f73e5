CONSTANTS
  Catalogs <- AllCatalogs
  Configs <- QualifiedConfigs
  Faults = {}
SPECIFICATION Spec
INVARIANT OwnKeysOnly
