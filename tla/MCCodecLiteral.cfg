SPECIFICATION SpecCodec
CONSTANTS
  Base <- MCBase
  BitOr <- MCBitOr
  Formats <- MCFormats
  LebBits = 3
  UintBits = 8
  ByteBits = 3
  MaxDepth = 2
  Items <- LiteralItems
  SetIndexes <- LiteralIndexes
  Registers <- MCRegisters
  Counts <- MCCounts
  Specials <- MCSpecials
  Junk <- MCJunk
  MaxEdits = 2
PROPERTY SetsRegister
