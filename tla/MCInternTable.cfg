SPECIFICATION Spec
CONSTANTS
  Text = {"a", "b", "c", "d", "e", "f"}
  NoText = NoText
  Hash <- MCHash
  MinCapacity = 2
INVARIANTS
  TypeOK
  Canonical
  Findable
  FreeSlot
  NoNestedGrowth
PROPERTIES
  ImplementsInternSpec
