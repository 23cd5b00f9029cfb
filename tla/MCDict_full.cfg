SPECIFICATION Spec
CONSTANTS
  Key = {"a", "b", "zero", "+0.0", "-0.0", "NaN float"}
  BadKey = {"nil", "list"}
  Unhashable = {"list"}
  Value = {"v", "w"}
  NaN = NaN
  Hash <- MCHash
  Equal <- MCEqual
  MinCapacity = 2
  Literals = {0, 1, 3}
  MaxCapacity = 8
INVARIANT FullDictRefuses
