------------------------------ MODULE Compiler ------------------------------
(***************************************************************************)
(* The compiler of src/src/backend/compiler.c: a walk over the syntax tree *)
(* of a program that emits IR.  The struct Compiler is a record that the   *)
(* walk threads through, with the result of the last compiler_expr in r;   *)
(* compilerError, which exits, sets exited, and the walk changes nothing   *)
(* that matters from then on.  free is the set of the array free_regs,     *)
(* which module RegisterArray shows to be sorted.                          *)
(*                                                                         *)
(* An expression is a record with a field e: "lit" (value), "name" (name), *)
(* "bin" (op, left, right), "index" (left, right), "un" (op, right), "fix" *)
(* (target, op, pre), "list" (capacity, items, closed), "dict" (fixed,     *)
(* entries, closed) or "error".  A statement has a field s: see Stmt.  An  *)
(* op is the type of its token.                                            *)
(***************************************************************************)
EXTENDS Registers, Values, SequencesExt, FiniteSetsExt

REG_INVALID == -1

\* compiler_init.  symbols_init leaves the depth undefined; only differences of
\* depths are ever used.  wild: an element before the first of an array was read.
compiler_init == [ir |-> <<>>, constants |-> <<>>, symbols |-> <<>>, depth |-> 0,
                  free |-> {}, next |-> 0, exited |-> FALSE, wild |-> FALSE,
                  r |-> REG_INVALID]

Returns(C, reg) == [C EXCEPT !.r = reg]
Exits(C) == [C EXCEPT !.exited = TRUE]

Emit(C, op, x, y, z) ==
  [C EXCEPT !.ir = Append(@, [op |-> op, a |-> x, b |-> y, c |-> z])]

Current(C) == Len(C.ir)

\* A jump to be patched; its position, counted from 0, is the result.
EmitJump(C, op, reg) == Returns(Emit(C, op, reg, -1, 0), Current(C))
Patch(C, pos, target) == [C EXCEPT !.ir[pos + 1].b = target]
PatchHere(C, pos) == Patch(C, pos, Current(C))

\* const_add, and the instruction that loads the constant.
LoadConst(C, reg, v) ==
  LET D == IF Contains(C.constants, v) THEN C
           ELSE [C EXCEPT !.constants = Append(@, v)]
  IN Emit(D, "LOADK", reg, SelectInSeq(D.constants, LAMBDA k : k = v) - 1, 0)

-----------------------------------------------------------------------------
(* Registers: module RegisterPool is about them.                             *)

Alloc(C, n) ==
  LET starts == {reg \in C.free : Run(reg, n) \subseteq C.free}
  IN IF starts # {}
     THEN [C EXCEPT !.free = @ \ Run(Min(starts), n), !.r = Min(starts)]
     ELSE IF C.next + n <= MaxRegs THEN [C EXCEPT !.next = @ + n, !.r = C.next]
     ELSE Exits(C)

Free(C, regs) ==
  [C EXCEPT !.free = @ \cup (regs \ (Locals(C.symbols) \cup {REG_INVALID}))]

Into(C, target) == IF target > -1 THEN Returns(C, target) ELSE Alloc(C, 1)

Define(C, name, isConst) ==
  LET D == Alloc(C, 1)
  IN [D EXCEPT !.symbols = Append(@, [name |-> name, reg |-> D.r,
                                      depth |-> D.depth, isConst |-> isConst])]

\* Mutant: the outermost variable of that name.
Resolve_First(C, name) ==
  C.symbols[Min({k \in DOMAIN C.symbols : C.symbols[k].name = name})]

Declared(C, name) == \E k \in DOMAIN C.symbols : C.symbols[k].name = name
Resolve(C, name) ==
  C.symbols[Max({k \in DOMAIN C.symbols : C.symbols[k].name = name})]
\* Mutant: a constant is protected only by the scope it is in.
Assignable_FromInside(C, name) ==
  Declared(C, name) /\ (Resolve(C, name).depth = C.depth => ~Resolve(C, name).isConst)
Assignable(C, name) == Declared(C, name) /\ ~Resolve(C, name).isConst

BeginScope(C) == [C EXCEPT !.depth = @ + 1]

\* Mutant: the registers of the scope's variables are lost.
EndScope_Leak(C) ==
  LET n == Max({0} \cup {k \in DOMAIN C.symbols : C.symbols[k].depth < C.depth})
  IN [C EXCEPT !.depth = @ - 1, !.symbols = SubSeq(@, 1, n)]

EndScope(C) ==
  LET n == Max({0} \cup {k \in DOMAIN C.symbols : C.symbols[k].depth < C.depth})
      D == [C EXCEPT !.depth = @ - 1, !.symbols = SubSeq(@, 1, n)]
  IN Free(D, Locals(C.symbols) \ Locals(D.symbols))

-----------------------------------------------------------------------------
(* Expressions.  With a target the result goes there; without one it goes to *)
(* a register of its own or, a name, stays in the variable's.                *)

RECURSIVE Expr(_, _, _)

\* A string without its first and its last character, which are the quotes of a text but
\* letters of a key that is a name: if it has one letter, the length wraps around.  The
\* texts of numbers are abstracted to their values.
token_to_value(value) ==
  IF value[1] \notin {"text", "key"} THEN value
  ELSE IF Len(value[2]) = 1 THEN Endless
  ELSE StringV(Front(Tail(value[2])))

BinaryOp == [M_PLUS |-> "ADD", M_MINUS |-> "SUB", M_STAR |-> "MUL", M_SLASH |-> "DIV",
             M_FLOOR_DIV |-> "IDIV", M_CONCAT |-> "CONCAT", M_MOD |-> "MOD", M_POW |-> "POW",
             M_LT |-> "LT", M_LTE |-> "LTE", M_GT |-> "GT", M_GTE |-> "GTE",
             M_EQ |-> "EQ", M_NEQ |-> "NEQ", M_OR |-> "OR", M_AND |-> "AND"]
UnaryOp == [M_MINUS |-> "UNM", M_NOT |-> "NOT"]
FixOp(type) == IF type = "M_INC" THEN "ADD" ELSE "SUB"
Flag(b) == IF b THEN 1 ELSE 0

Name(C, name, target) ==
  IF ~Declared(C, name) THEN Exits(C)
  ELSE LET reg == Resolve(C, name).reg
       IN IF target > -1 THEN Returns(Emit(C, "MOVE", target, reg, 0), target)
          ELSE Returns(C, reg)

\* EXPR_BINARY and EXPR_INDEX: with a target, the operands may be variables.
OfTwo(C, op, left, right, target) ==
  IF target > -1
  THEN LET L == Expr(C, left, -1)
           D == Expr(L, right, -1)
       IN Returns(Free(Emit(D, op, target, L.r, D.r), {L.r, D.r} \ {target}), target)
  ELSE LET A == Alloc(C, 3)
           L == Expr(A, left, A.r + 1)
           D == Expr(L, right, A.r + 2)
       IN Returns(Free(Emit(D, op, A.r, A.r + 1, A.r + 2), Run(A.r + 1, 2)), A.r)

OfOne(C, op, right, target) ==
  IF target > -1
  THEN LET D == Expr(C, right, -1)
       IN Returns(Free(Emit(D, op, target, D.r, 0), {D.r} \ {target}), target)
  ELSE LET A == Alloc(C, 2)
           D == Expr(A, right, A.r + 1)
       IN Returns(Free(Emit(D, op, A.r, A.r + 1, 0), {A.r + 1}), A.r)

\* name++, name--, ++name and --name.
Fix(C, expr, op, pre, target) ==
  IF expr.e # "name" \/ ~Assignable(C, expr.name) THEN Exits(C)
  ELSE LET reg == Resolve(C, expr.name).reg
           T == Into(C, target)
           O == IF pre THEN Returns(C, reg) ELSE Emit(T, "MOVE", T.r, reg, 0)
           A == Alloc(O, 1)
           D == Free(Emit(LoadConst(A, A.r, IntV(1)), op, reg, reg, A.r), {A.r})
       IN IF pre /\ target > -1 /\ target # reg
          THEN Returns(Emit(D, "MOVE", target, reg, 0), target)
          ELSE Returns(D, O.r)

ListOf(C, capacity, items, target) ==
  LET T == Into(C, target)
      K == IF capacity = <<>> THEN Returns(T, -1) ELSE Expr(T, capacity[1], -1)
      D == Free(Emit(K, "CREATE_LIST", T.r, K.r, Flag(capacity # <<>>)), {K.r} \ {T.r})
      A == Alloc(D, Len(items))
      E == FoldLeftDomain(LAMBDA X, k : Expr(X, items[k], A.r + k - 1), A, items)
  IN Returns(IF items = <<>> THEN D
             ELSE Free(Emit(E, "PUSH_LIST", T.r, A.r, Len(items)), Run(A.r, Len(items))),
             T.r)

Entry(C, reg, entry) ==
  LET K == Expr(C, entry.key, -1)
      V == Expr(K, entry.value, -1)
  IN Free(Emit(V, "SET_INDEX", reg, K.r, V.r), {K.r, V.r} \ {reg})

DictOf(C, entries, fixed, target) ==
  LET T == Into(C, target)
      D == Emit(T, "CREATE_DICT", T.r, Len(entries), Flag(fixed))
  IN Returns(FoldLeft(LAMBDA X, entry : Entry(X, T.r, entry), D, entries), T.r)

Expr(C, expr, target) ==
  IF C.exited THEN C
  ELSE CASE expr.e = "lit" -> LET T == Into(C, target)
                              IN LoadConst(T, T.r, token_to_value(expr.value))
         [] expr.e = "name" -> Name(C, expr.name, target)
         [] expr.e = "bin" -> OfTwo(C, BinaryOp[expr.op], expr.left, expr.right, target)
         [] expr.e = "index" -> OfTwo(C, "GET_INDEX", expr.left, expr.right, target)
         [] expr.e = "un" -> OfOne(C, UnaryOp[expr.op], expr.right, target)
         [] expr.e = "fix" -> Fix(C, expr.target, FixOp(expr.op), expr.pre, target)
         [] expr.e = "list" -> ListOf(C, expr.capacity, expr.items, target)
         [] expr.e = "dict" -> DictOf(C, expr.entries, expr.fixed, target)
         [] expr.e = "error" -> Exits(C)

-----------------------------------------------------------------------------
(* Statements: "var" (names, values, isConst), "block" (body), "if" (cond,   *)
(* then, else), "while" (cond, loop), "for" (from, to, step, loop), "expr"   *)
(* (expr), "assign" (targets, values), "compound" (target, op, value) and    *)
(* "error".  An else and a step are sequences of at most one statement.      *)

RECURSIVE Stmt(_, _)

\* Mutant: a variable without a value is left as it is.
ValueInto_Skipped(C, values, k, reg) ==
  IF k \in DOMAIN values THEN Expr(C, values[k], reg) ELSE C

\* The missing values of a declaration or an assignment are NaN.
ValueInto(C, values, k, reg) ==
  IF k \in DOMAIN values THEN Expr(C, values[k], reg) ELSE LoadConst(C, reg, NaN)

\* The location of a missing value is that of the last one there is: where there is
\* none, of what stands before the array.
Var(C, names, values, isConst) ==
  IF isConst /\ Len(values) < Len(names) THEN Exits(C)
  ELSE FoldLeftDomain(LAMBDA X, k : LET D == Define(X, names[k], isConst)
                                    IN ValueInto(D, values, k, D.r),
                      [C EXCEPT !.wild = @ \/ values = <<>>], names)

SetElement(C, isName, coll, index, value) ==
  Free(Emit(C, "SET_INDEX", coll, index, value),
       (IF isName THEN {} ELSE {coll}) \cup ({index, value} \ {coll}))

\* An assignment to an element.  A collection that is a variable's is used where it
\* is, and stays there.
Put(C, index, value) ==
  LET L == Expr(C, index.left, -1)
      I == Expr(L, index.right, -1)
      V == Expr(I, value, -1)
  IN SetElement(V, index.left.e = "name", L.r, I.r, V.r)

\* An element without a value is compiled from a null pointer.
AssignTo(C, target, values, k) ==
  IF target.e = "index"
  THEN IF k \in DOMAIN values THEN Put(C, target, values[k]) ELSE Exits(C)
  ELSE IF target.e # "name" \/ ~Assignable(C, target.name) THEN Exits(C)
  ELSE ValueInto(C, values, k, Resolve(C, target.name).reg)

Assign(C, targets, values) ==
  FoldLeftDomain(LAMBDA X, k : AssignTo(X, targets[k], values, k), C, targets)

UpdateWith(C, name, op, value) ==
  IF ~Assignable(C, name) THEN Exits(C)
  ELSE LET reg == Resolve(C, name).reg
       IN Free(Emit(C, op, reg, reg, value), {value} \ {reg})

CompoundOp == [M_PLUS_ASSING |-> "ADD", M_MINUS_ASSING |-> "SUB", M_STAR_ASSING |-> "MUL",
               M_SLASH_ASSING |-> "DIV", M_FLOOR_DIV_ASSING |-> "IDIV",
               M_CONCAT_ASSING |-> "CONCAT", M_POW_ASSING |-> "POW", M_MOD_ASSING |-> "MOD"]

\* A target that is no name is taken for one, and not found.
Compound(C, target, op, value) ==
  LET V == Expr(C, value, -1)
  IN IF target.e # "name" THEN Exits(V) ELSE UpdateWith(V, target.name, op, V.r)

Block(C, body) == EndScope(FoldLeft(LAMBDA X, st : Stmt(X, st), BeginScope(C), body))

\* After a condition: a jump to be patched that is taken when it is false.
JumpUnless(C) == Free(EmitJump(C, "JUMP_IF_FALSE", C.r), {C.r})
Unless(C, cond) == JumpUnless(Expr(C, cond, -1))

\* The branches of an if, whose jump is the last instruction.
Else(C, jump, else) ==
  IF else = <<>> THEN PatchHere(C, jump)
  ELSE LET J == PatchHere(EmitJump(C, "JUMP", 0), jump)
       IN PatchHere(Stmt(J, else[1]), J.r)
Branches(C, then, else) == Else(Stmt(C, then), C.r, else)

If(C, st) == Branches(Unless(C, st.cond), st.then, st.else)

\* The end of a loop whose condition starts at start and leaves it by jump.
Repeat(C, start, jump) == PatchHere(Emit(C, "JUMP", 0, start, 0), jump)

While(C, st) == LET U == Unless(C, st.cond)
                IN Repeat(Stmt(U, st.loop), Current(C), U.r)

\* A for without a step adds 1 to the register that its first instruction sets.
Stepped(C, first) == C.ir[first + 1].a

\* Mutant: a for without a step does not count.
Step_None(C, step, first) == FoldLeft(LAMBDA X, st : Stmt(X, st), C, step)

Step(C, step, first) ==
  IF step # <<>> THEN Stmt(C, step[1])
  ELSE LET A == Alloc(C, 1)
           D == LoadConst(A, A.r, IntV(1))
       IN Free(Emit(D, "ADD", Stepped(C, first), Stepped(C, first), A.r), {A.r})

Loop(C, first, start, st) ==
  LET U == Unless(C, st.to)
  IN Repeat(Step(Stmt(U, st.loop), st.step, first), start, U.r)

For(C, st) ==
  LET F == Stmt(BeginScope(C), st.from)
  IN EndScope(Loop(F, Current(C), Current(F), st))

Stmt(C, st) ==
  IF C.exited THEN C
  ELSE CASE st.s = "var" -> Var(C, st.names, st.values, st.isConst)
         [] st.s = "block" -> Block(C, st.body)
         [] st.s = "if" -> If(C, st)
         [] st.s = "while" -> While(C, st)
         [] st.s = "for" -> For(C, st)
         [] st.s = "expr" -> LET D == Expr(C, st.expr, -1) IN Free(D, {D.r})
         [] st.s = "assign" -> Assign(C, st.targets, st.values)
         [] st.s = "compound" -> Compound(C, st.target, CompoundOp[st.op], st.value)
         [] st.s = "error" -> Exits(C)

=============================================================================
