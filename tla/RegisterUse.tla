----------------------------- MODULE RegisterUse -----------------------------
(***************************************************************************)
(* The bounds of the programs that use the compiler's registers.           *)
(***************************************************************************)
EXTENDS Registers

CONSTANTS Runs,     \* the numbers of registers asked for at once
          Depths,   \* the initial scope depth: symbols_init leaves it undefined
          MaxScopes \* how deep the scopes of a program are nested

ASSUME RunsAssumption == Runs \subseteq Nat \ {0}
ASSUME DepthsAssumption == Depths \subseteq Int
ASSUME MaxScopesAssumption == MaxScopes \in Nat

=============================================================================
