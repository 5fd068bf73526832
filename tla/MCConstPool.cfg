SPECIFICATION Spec
CONSTANTS
  None = 0
  EmptyStr = 1
  Shorty <- MCShorty
  UShortMax = 100
  DexFiles <- MCDexFiles
  Collected <- Popped
  LookedUp <- Written
  Whole <- Fitting
INVARIANTS
  TypeOK
  LookupsHit
  IdItemsExact
  PoolsStaySorted
  IdItemsOrdered
  NoSpareConstants
