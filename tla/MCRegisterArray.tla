--------------------------- MODULE MCRegisterArray ---------------------------
(***************************************************************************)
(* Six registers; runs of one to three, those that an operand, a unary and *)
(* a binary or index expression ask for.                                *)
(* Two nested scopes.                                                      *)
(***************************************************************************)
EXTENDS RegisterArray

MCRuns == 1 .. 3

\* symbols_init leaves the depth as malloc did: it need not be 0.
MCDepths == {-1, 0}

=============================================================================
