SPECIFICATION WrapperSpec
CONSTANTS
  NULL = NULL
  DebugCap = 2
  FreeValue <- MCFreeValue
  ReadValue <- MCReadValue
  EmptyTexts <- MCEmptyTexts
  DexFiles <- BadDebugFiles
INVARIANTS
  NoCrash
