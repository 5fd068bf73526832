SPECIFICATION SpecRename
CONSTANTS
  None = 0
  EmptyStr = 1
  Shorty <- MCShorty
  DexFiles <- AnnotatedDexFiles
  RenameTables <- MCRenameTables
INVARIANTS
  AllVisited
