SPECIFICATION Spec
CONSTANTS
  None = None
  Raise = Raise
  Caller = {c1, c2}
  v1 = v1
  v2 = v2
  v3 = v3
  Vault = {v1, v2, v3}
  Environments <- MCEnvironments
  Items <- MCItems
  Paths <- MCPaths
  Sections <- MCSections
INVARIANTS
  TypeOK
  CachedStoreIsValidated
  AsksKnownVault
  LookupIsExact
  FieldsAreExact
