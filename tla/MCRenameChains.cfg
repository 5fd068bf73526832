SPECIFICATION SpecRename
CONSTANTS
  None = 0
  EmptyStr = 1
  Shorty <- MCShorty
  DexFiles <- MCDexFiles
  RenameTables <- MCRenameTables
INVARIANTS
  RenamedAsDocumented
