SPECIFICATION SpecCodec
CONSTANTS
  Base <- MCBase
  BitOr <- MCBitOr
  Formats <- MCFormats
  LebBits = 3
  UintBits = 8
  ByteBits = 3
  MaxDepth = 2
  Items <- MCItems
  SetIndexes <- MCSetIndexes
  Registers <- MCRegisters
  Counts <- MCCounts
  Specials <- MCSpecials
  Junk <- MCJunk
  MaxEdits = 2
INVARIANTS
  TypeOKCodec
  WrittenIsRead
PROPERTIES
  RegisterSpec
