SPECIFICATION WrapperSpec
CONSTANTS
  NULL = NULL
  DebugCap = 2
  FreeValue <- MCFreeValue
  ReadValue <- MCReadValue
  EmptyTexts <- MCEmptyTexts
  DexFiles <- MCDexFiles
INVARIANTS
  TypeOK
  NoCrash
  FailureReleasesAll
  OnlyTablesRemain
  MembersDelivered
  TypeOKWrapper
  WrittenAsRead
  CopyReleased
