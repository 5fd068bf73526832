SPECIFICATION SpecOdex
CONSTANTS
  WordBits = 16
  Descs <- MCDescs
  Hash <- MCHash
  DescOff <- MCDescOff
  class_off = 128
  ClassLists <- MCClassLists
  Inputs <- MCInputs
  Foreign <- MCForeign
  Places <- MCPlaces
  Values <- MCValues
INVARIANTS
  TypeOKOdex
  Findable
  ReadsBack
PROPERTIES
  LookupSpec
  Termination
