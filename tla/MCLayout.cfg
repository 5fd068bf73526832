SPECIFICATION Spec
CONSTANTS
  DataLists <- MCDataLists
  Crc <- MCCrc
  UlebLimit = 268435456
INVARIANTS
  TypeOK
  ReferencesReach
  OffsetsAgree
  NoDuplicates
  FreedOnce
  MapExact
