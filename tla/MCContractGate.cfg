SPECIFICATION GateSpec
CONSTANTS
  Routes <- MCRoutes
  Reads <- MCReads
  PathOf <- MCPathOf
  PrefixOf <- MCPrefixOf
  Schemas = {"Page", "Create"}
  Fields = {"items"}
  Kinds = {"object", "array"}
  Refusals = {"not_found"}
  Began <- MCBegan
  MaxEdits = 3
  Unsaid = Unsaid
\* The branch has been edited and merged as often as the bounds allow.
CHECK_DEADLOCK FALSE
INVARIANTS
  
  RedSmokeIsExplained
