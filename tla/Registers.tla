------------------------------ MODULE Registers ------------------------------
(***************************************************************************)
(* The registers of a program: the compiler (src/src/backend/compiler.c)   *)
(* hands them out and the interpreter (src/src/vm/vm.c) computes in them.  *)
(***************************************************************************)
EXTENDS Integers, Sequences

CONSTANT MaxRegs            \* REG_POOL_MAX = M_MAXVARS: 256

ASSUME MaxRegsAssumption == MaxRegs \in Nat \ {0}

\* The n registers from start on.
Run(start, n) == start .. start + n - 1

\* The registers of the variables of a symbol table.
Locals(symbols) == {symbols[k].reg : k \in DOMAIN symbols}

\* The symbols up to the k-th survive the end of a scope, those of the scope, the
\* ones deeper than depth, do not.
Survives(symbols, k, depth) ==
  /\ k > 0 => symbols[k].depth <= depth
  /\ \A j \in k + 1 .. Len(symbols) : symbols[j].depth > depth

=============================================================================
