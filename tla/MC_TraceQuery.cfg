CONSTANTS
  Queries <- MC_Queries
  Whitespace <- MC_Whitespace
  Lower <- MC_Lower
SPECIFICATION Spec
INVARIANTS
  ExecutesExactlyReads
