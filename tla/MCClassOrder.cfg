SPECIFICATION Spec
CONSTANTS
  a = a
  b = b
  c = c
  e = e
  none = none
  Types <- MCTypes
  NoType = none
  ClassLists <- MCClassLists
INVARIANTS
  TypeOK
  StackFits
  ParentsFirst
  WrittenOnce
  AllWritten
PROPERTIES
  Termination
  EmissionSpec
