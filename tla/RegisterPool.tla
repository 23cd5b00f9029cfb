---------------------------- MODULE RegisterPool ----------------------------
(***************************************************************************)
(* Who owns which register while the compiler runs: temporaries, held by   *)
(* the calls of compiler_expr and compiler_stmt that are under way;        *)
(* variables, held by the symbol table; and the pool of free registers.    *)
(* The operations are alloc_regs, free_temp_reg, free_regs_block,          *)
(* symbol_define, begin_scope and end_scope of src/src/backend/compiler.c, *)
(* and the callers' part of the bargain is that they free what they hold.  *)
(***************************************************************************)
EXTENDS RegisterUse

VARIABLES free,         \* C->free_regs
          next_reg,     \* C->next_reg
          symbols,      \* C->symbol: the variables in scope, innermost last
          scope_depth,  \* C->symbol.scope_depth
          scopes,       \* the scopes begun and not ended
          held,         \* the temporaries
          exited        \* compilerError has ended the process

vars == <<free, next_reg, symbols, scope_depth, scopes, held, exited>>

-----------------------------------------------------------------------------

Init == /\ free = {}
        /\ next_reg = 0
        /\ symbols = <<>>
        /\ scope_depth \in Depths
        /\ scopes = 0
        /\ held = {}
        /\ exited = FALSE

\* The registers at which a run of n free ones starts.
Starts(n) == {r \in free : Run(r, n) \subseteq free}

Fits(n) == next_reg + n <= MaxRegs

\* The first run of free registers is taken...
TakeRun(n, start) == /\ start \in Starts(n)
                     /\ \A r \in Starts(n) : start <= r
                     /\ free' = free \ Run(start, n)
                     /\ UNCHANGED next_reg

\* ...and registers never used only when there is none.
TakeFresh(n, start) == /\ Starts(n) = {}
                       /\ Fits(n)
                       /\ start = next_reg
                       /\ next_reg' = next_reg + n
                       /\ UNCHANGED free

Take(n, start) == ~exited /\ (TakeRun(n, start) \/ TakeFresh(n, start))

\* alloc_regs and alloc_reg.
Alloc(n, start) == /\ Take(n, start)
                   /\ held' = held \cup Run(start, n)
                   /\ UNCHANGED <<symbols, scope_depth, scopes, exited>>

\* symbol_define.
Define(start) == /\ Take(1, start)
                 /\ symbols' = Append(symbols, [reg |-> start, depth |-> scope_depth])
                 /\ UNCHANGED <<scope_depth, scopes, held, exited>>

\* "Register limit exceeded"
LimitExceeded(n) ==
  /\ ~exited
  /\ Starts(n) = {}
  /\ ~Fits(n)
  /\ exited' = TRUE
  /\ UNCHANGED <<free, next_reg, symbols, scope_depth, scopes, held>>

\* free_temp_reg on each of S: a variable's register stays where it is.
Free(S) == /\ ~exited
           /\ free' = free \cup (S \ Locals(symbols))
           /\ held' = held \ S
           /\ UNCHANGED <<next_reg, symbols, scope_depth, scopes, exited>>

BeginScope == /\ ~exited
              /\ scopes < MaxScopes
              /\ scopes' = scopes + 1
              /\ scope_depth' = scope_depth + 1
              /\ UNCHANGED <<free, next_reg, symbols, held, exited>>

\* end_scope, after which k symbols are left: the registers of the others are
\* free, for no symbol has them.
EndScope(k) ==
  /\ ~exited
  /\ scopes > 0
  /\ scopes' = scopes - 1
  /\ scope_depth' = scope_depth - 1
  /\ Survives(symbols, k, scope_depth - 1)
  /\ symbols' = SubSeq(symbols, 1, k)
  /\ free' = free \cup (Locals(symbols) \ Locals(SubSeq(symbols, 1, k)))
  /\ UNCHANGED <<next_reg, held, exited>>

Next == \/ \E n \in Runs, start \in 0 .. MaxRegs - 1 : Alloc(n, start)
        \/ \E start \in 0 .. MaxRegs - 1 : Define(start)
        \/ \E n \in Runs \cup {1} : LimitExceeded(n)
        \/ \E S \in SUBSET (held \cup Locals(symbols)) : Free(S)
        \/ BeginScope
        \/ \E k \in 0 .. Len(symbols) : EndScope(k)

Spec == Init /\ [][Next]_vars

-----------------------------------------------------------------------------

Register == 0 .. MaxRegs - 1

\* The types of the state; no register reaches MaxRegs (alloc_regs's limit).
TypeOK == /\ free \subseteq Register
          /\ next_reg \in 0 .. MaxRegs
          /\ symbols \in Seq([reg : Register, depth : Int])
          /\ scope_depth \in Int
          /\ scopes \in 0 .. MaxScopes
          /\ held \subseteq Register
          /\ exited \in BOOLEAN

\* Every register used so far has exactly one owner: a temporary is never handed
\* out again while it is held, a variable's register never goes to the pool, and
\* none is lost.
OneOwner ==
  /\ free \cup held \cup Locals(symbols) = 0 .. next_reg - 1
  /\ free \cap held = {}
  /\ free \cap Locals(symbols) = {}
  /\ held \cap Locals(symbols) = {}
  /\ \A j, k \in DOMAIN symbols : symbols[j].reg = symbols[k].reg => j = k

=============================================================================
