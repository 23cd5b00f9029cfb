----------------------------- MODULE MCCallStack -----------------------------
EXTENDS CallStack

\* A main script of two registers; f has one, which takes its argument and gives
\* its result; g has three, two of them for arguments and results.  In a stack of
\* 7 registers there is room for main and any three calls of f, so the frames run
\* out first, but not for main and g and g.
MCslots == [c \in Chunk |-> CASE c = "main" -> 2 [] c = "f" -> 1 [] OTHER -> 3]
MCparams == [c \in Chunk |-> CASE c = "main" -> 0 [] c = "f" -> 1 [] OTHER -> 2]
MCreturns == MCparams
=============================================================================
