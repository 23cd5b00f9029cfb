SPECIFICATION Spec
CONSTANTS
  Reg = {r1, r2, r3}
  Scalar = {x, y}
  NaN = NaN
  Positions <- MCPositions
  Times <- MCTimes
  FixedSizes <- MCFixedSizes
  MinCapacity = 1
  MaxLists = 3
  MaxLength = 2
SYMMETRY MCSymmetry
PROPERTY ConcatContract
