---------------------------- MODULE RegisterArray ----------------------------
(***************************************************************************)
(* The register pool as src/src/backend/compiler.c keeps it: free_regs, a  *)
(* sorted array that alloc_regs searches for consecutive registers and     *)
(* free_temp_reg inserts into, with the symbol table, whose variables hold *)
(* the other registers.  held is what the calls of compiler_expr and       *)
(* compiler_stmt under way have been given and not yet freed.              *)
(***************************************************************************)
EXTENDS RegisterUse

VARIABLES free_regs,    \* C->free_regs[0 .. free_count - 1]
          next_reg,     \* C->next_reg
          symbols,      \* C->symbol: the variables in scope, innermost last
          scope_depth,  \* C->symbol.scope_depth
          scopes,       \* the scopes begun and not ended
          held,         \* the temporaries
          exited        \* compilerError has ended the process

vars == <<free_regs, next_reg, symbols, scope_depth, scopes, held, exited>>

Elements(s) == {s[i] : i \in DOMAIN s}

-----------------------------------------------------------------------------

Init == /\ free_regs = <<>>
        /\ next_reg = 0
        /\ symbols = <<>>
        /\ scope_depth \in Depths
        /\ scopes = 0
        /\ held = {}
        /\ exited = FALSE

\* Mutant: the last run is missed.
RunsAt_OffByOne(n) == {i \in 1 .. Len(free_regs) - n :
                         \A j \in 1 .. n - 1 : free_regs[i + j] = free_regs[i] + j}

\* The places of the array at which n consecutive registers start.
RunsAt(n) == {i \in 1 .. Len(free_regs) - n + 1 :
                \A j \in 1 .. n - 1 : free_regs[i + j] = free_regs[i] + j}

\* alloc_regs takes the first run out of the array...
AllocRun(n, start) ==
  \E i \in RunsAt(n) :
    /\ \A k \in RunsAt(n) : i <= k
    /\ start = free_regs[i]
    /\ free_regs' = SubSeq(free_regs, 1, i - 1)
                    \o SubSeq(free_regs, i + n, Len(free_regs))
    /\ UNCHANGED next_reg

\* Mutant: one register too many.
Fits_OffByOne(n) == next_reg + n <= MaxRegs + 1

Fits(n) == next_reg + n <= MaxRegs

\* s without its elements in regs.
Without(s, regs) ==
  LET kept[i \in 0 .. Len(s)] ==
        IF i = 0 THEN <<>>
        ELSE IF s[i] \in regs THEN kept[i - 1] ELSE Append(kept[i - 1], s[i])
  IN  kept[Len(s)]

\* ...and registers never used when there is none.
AllocFresh(n, start) ==
  /\ RunsAt(n) = {}
  /\ Fits(n)
  /\ start = next_reg
  /\ free_regs' = Without(free_regs, Run(start, n))
  /\ next_reg' = start + n

\* start is what alloc_regs returns.
AllocRegs(n, start) == /\ ~exited
                       /\ AllocRun(n, start) \/ AllocFresh(n, start)

Alloc(n, start) == /\ AllocRegs(n, start)
                   /\ held' = held \cup Run(start, n)
                   /\ UNCHANGED <<symbols, scope_depth, scopes, exited>>

LimitExceeded(n) == /\ ~exited
                    /\ RunsAt(n) = {}
                    /\ ~Fits(n)
                    /\ exited' = TRUE
                    /\ UNCHANGED <<free_regs, next_reg, symbols, scope_depth, scopes, held>>

\* symbol_define, for the variables of compiler_stmt's STMT_VAR.
Define(start) == /\ AllocRegs(1, start)
                 /\ symbols' = Append(symbols, [reg |-> start, depth |-> scope_depth])
                 /\ UNCHANGED <<scope_depth, scopes, held, exited>>

-----------------------------------------------------------------------------

\* The number of elements of the sorted array s that come before reg.
Before(s, reg) == CHOOSE i \in 0 .. Len(s) :
                    /\ i = Len(s) \/ s[i + 1] >= reg
                    /\ \A j \in 1 .. i : s[j] < reg

\* Mutant: as a stack.
Inserted_AtEnd(s, reg) == Append(s, reg)

Inserted(s, reg) == SubSeq(s, 1, Before(s, reg)) \o <<reg>>
                    \o SubSeq(s, Before(s, reg) + 1, Len(s))

\* free_temp_reg with the symbols syms: a variable's register stays the
\* variable's, and a register is not inserted twice.
Freed(s, syms, reg) == IF \/ reg \in Locals(syms)
                          \/ Len(s) >= MaxRegs
                          \/ reg \in Elements(s)
                       THEN s
                       ELSE Inserted(s, reg)

\* free_temp_reg, or free_expr_reg on a register that is not kept: what is freed
\* is a temporary, or the register of a variable that stands for its value.
FreeTemp(reg) == /\ ~exited
                 /\ reg \in held \cup Locals(symbols)
                 /\ free_regs' = Freed(free_regs, symbols, reg)
                 /\ held' = held \ {reg}
                 /\ UNCHANGED <<next_reg, symbols, scope_depth, scopes, exited>>

\* free_temp_reg on n registers from start on.
FreedRun(s, syms, start, n) ==
  LET after[i \in 0 .. n] == IF i = 0 THEN s ELSE Freed(after[i - 1], syms, start + i - 1)
  IN  after[n]

\* free_regs_block, on the temporaries that a list literal was built in.
FreeBlock(start, n) == /\ ~exited
                       /\ Run(start, n) \subseteq held
                       /\ free_regs' = FreedRun(free_regs, symbols, start, n)
                       /\ held' = held \ Run(start, n)
                       /\ UNCHANGED <<next_reg, symbols, scope_depth, scopes, exited>>

BeginScope == /\ ~exited
              /\ scopes < MaxScopes
              /\ scopes' = scopes + 1
              /\ scope_depth' = scope_depth + 1
              /\ UNCHANGED <<free_regs, next_reg, symbols, held, exited>>

\* Mutant: a register is freed before its symbol is dropped.
FreedScope_First(s, syms, kept) ==
  LET after[i \in 0 .. Len(syms) - kept] ==
        IF i = 0 THEN s
        ELSE Freed(after[i - 1], SubSeq(syms, 1, Len(syms) - i + 1), syms[Len(syms) - i + 1].reg)
  IN  after[Len(syms) - kept]
\* The loop of end_scope: it drops the symbols after the first kept of syms one by
\* one, the last first, and frees the register of each once its symbol is dropped.
FreedScope(s, syms, kept) ==
  LET after[i \in 0 .. Len(syms) - kept] ==
        IF i = 0 THEN s
        ELSE Freed(after[i - 1], SubSeq(syms, 1, Len(syms) - i), syms[Len(syms) - i + 1].reg)
  IN  after[Len(syms) - kept]

\* end_scope, after which kept symbols are left.
EndScope(kept) == /\ ~exited
                  /\ scopes > 0
                  /\ scopes' = scopes - 1
                  /\ scope_depth' = scope_depth - 1
                  /\ Survives(symbols, kept, scope_depth - 1)
                  /\ symbols' = SubSeq(symbols, 1, kept)
                  /\ free_regs' = FreedScope(free_regs, symbols, kept)
                  /\ UNCHANGED <<next_reg, held, exited>>

-----------------------------------------------------------------------------

Next == \/ \E n \in Runs, start \in 0 .. MaxRegs - 1 : Alloc(n, start)
        \/ \E n \in Runs \cup {1} : LimitExceeded(n)
        \/ \E start \in 0 .. MaxRegs - 1 : Define(start)
        \/ \E reg \in held \cup Locals(symbols) : FreeTemp(reg)
        \/ \E n \in Runs, start \in held : FreeBlock(start, n)
        \/ BeginScope
        \/ \E kept \in 0 .. Len(symbols) : EndScope(kept)

Spec == Init /\ [][Next]_vars

-----------------------------------------------------------------------------

\* The array holds registers in use before, the symbols their registers.
TypeOK == /\ free_regs \in Seq(0 .. MaxRegs - 1)
          /\ next_reg \in 0 .. MaxRegs
          /\ symbols \in Seq([reg : 0 .. MaxRegs - 1, depth : Int])
          /\ scope_depth \in Int
          /\ scopes \in 0 .. MaxScopes
          /\ held \subseteq 0 .. MaxRegs - 1
          /\ exited \in BOOLEAN

\* free_regs stays sorted, without duplicates, whatever the order in which
\* registers come back: alloc_regs finds consecutive registers only in
\* consecutive places.
Sorted == \A i, j \in DOMAIN free_regs : i < j => free_regs[i] < free_regs[j]

\* Every register used so far has exactly one owner, the array, a temporary's
\* holder or a variable: none is handed out while it holds a value, and none is
\* lost, however the scopes end and the temporaries are freed.
OneOwner ==
  /\ Elements(free_regs) \cup held \cup Locals(symbols) = 0 .. next_reg - 1
  /\ Elements(free_regs) \cap (held \cup Locals(symbols)) = {}
  /\ held \cap Locals(symbols) = {}
  /\ \A j, k \in DOMAIN symbols : symbols[j].reg = symbols[k].reg => j = k

Pool == INSTANCE RegisterPool WITH free <- Elements(free_regs)

\* The array implements a set of free registers from which the first run is
\* taken: alloc_regs takes new registers only if no run is free.
ImplementsRegisterPool == Pool!Spec

=============================================================================
