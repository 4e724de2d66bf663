SPECIFICATION RegistrySpec
CONSTANTS
  MaxObjects = 3
  MaxRenamed = 1
  Weighted = {2}
INVARIANT ExistingIsFound
CHECK_DEADLOCK FALSE
