------------------------------- MODULE MCList -------------------------------
EXTENDS List

MCPositions == {-1, 0, 2}
MCTimes == {0, 1}
MCFixedSizes == {-1, 1}

\* Registers are only compared for being the same, scalars never.
MCSymmetry == Permutations(Reg) \cup Permutations(Scalar)
=============================================================================
