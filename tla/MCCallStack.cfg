SPECIFICATION Spec
CONSTANTS
  Chunk = {"main", "f", "g"}
  Main = "main"
  slots <- MCslots
  params <- MCparams
  returns <- MCreturns
  Value = {v, w}
  NaN = NaN
  MaxFrames = 3
  MaxStack = 7
INVARIANTS
  TypeOK
  Tiled
  CallersFrozen
PROPERTY
  ReturnIsLocal
