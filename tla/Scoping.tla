------------------------------- MODULE Scoping -------------------------------
(***************************************************************************)
(* Which programs are well formed: every name is declared before it is     *)
(* used, in a block or a for that has not ended, nothing changes a         *)
(* constant, and what changes is a name or an element.  The reference for  *)
(* what the compiler rejects; it knows no symbol table and no order of the *)
(* walk.  The syntax tree is that of module Compiler.                      *)
(***************************************************************************)
EXTENDS Integers, SequencesExt

\* scope: the declarations that can be seen, innermost last.
Declares(st) == IF st.s = "var"
                THEN [k \in DOMAIN st.names |-> [name |-> st.names[k], isConst |-> st.isConst]]
                ELSE <<>>
Seen(scope, name) == {k \in DOMAIN scope : scope[k].name = name}
Readable(scope, name) == Seen(scope, name) # {}
Changeable(scope, name) == Readable(scope, name) /\ ~scope[Max(Seen(scope, name))].isConst

RECURSIVE Reads(_), Changes(_)

Parts(expr) == CASE expr.e \in {"bin", "index"} -> {expr.left, expr.right}
                 [] expr.e = "un" -> {expr.right}
                 [] expr.e = "list" -> Range(expr.items) \cup Range(expr.capacity)
                 [] expr.e = "dict" -> {entry.key : entry \in Range(expr.entries)}
                                       \cup {entry.value : entry \in Range(expr.entries)}
                 [] OTHER -> {}

\* The names an expression reads, and what it changes.
Reads(expr) == IF expr.e = "name" THEN {expr.name}
               ELSE UNION {Reads(part) : part \in Parts(expr)}
Changes(expr) == IF expr.e = "fix" THEN {expr.target}
                 ELSE UNION {Changes(part) : part \in Parts(expr)}

IsChangeable(scope, expr) == expr.e = "name" /\ Changeable(scope, expr.name)
Fits(scope, expr) == /\ \A name \in Reads(expr) : Readable(scope, name)
                     /\ \A target \in Changes(expr) : IsChangeable(scope, target)

-----------------------------------------------------------------------------

RECURSIVE WellScoped(_, _), StmtFits(_, _)

\* A value may read the variables that stand before its own.
VarFits(scope, st) ==
  /\ st.isConst => Len(st.values) >= Len(st.names)
  /\ \A k \in DOMAIN st.names \cap DOMAIN st.values :
       Fits(scope \o SubSeq(Declares(st), 1, k - 1), st.values[k])

\* An element must be given a value; a variable without one is made NaN.
AssignFits(scope, st) ==
  \A k \in DOMAIN st.targets :
    /\ IF st.targets[k].e = "index"
       THEN k \in DOMAIN st.values /\ Fits(scope, st.targets[k])
       ELSE IsChangeable(scope, st.targets[k])
    /\ k \in DOMAIN st.values => Fits(scope, st.values[k])

StmtFits(scope, st) ==
  CASE st.s = "var" -> VarFits(scope, st)
    [] st.s = "assign" -> AssignFits(scope, st)
    [] st.s = "compound" -> IsChangeable(scope, st.target) /\ Fits(scope, st.value)
    [] st.s = "expr" -> Fits(scope, st.expr)
    [] st.s = "block" -> WellScoped(scope, st.body)
    [] st.s = "if" -> /\ Fits(scope, st.cond)
                      /\ WellScoped(scope, <<st.then>>)
                      /\ WellScoped(scope, st.else)
    [] st.s = "while" -> Fits(scope, st.cond) /\ WellScoped(scope, <<st.loop>>)
    [] st.s = "for" -> LET inside == scope \o Declares(st.from)
                       IN /\ StmtFits(scope, st.from)
                          /\ Fits(inside, st.to)
                          /\ WellScoped(inside, <<st.loop>>)
                          /\ WellScoped(inside, st.step)

WellScoped(scope, body) ==
  body = <<>> \/ /\ StmtFits(scope, Head(body))
                 /\ WellScoped(scope \o Declares(Head(body)), Tail(body))

WellFormed(program) == WellScoped(<<>>, program)

-----------------------------------------------------------------------------
(* The most registers in a row that any part of a program may ask for: two    *)
(* operands and a result, or the items of a list.                            *)

RECURSIVE Width(_), Widest(_)

Width(expr) == Max({3} \cup {Width(part) : part \in Parts(expr)}
                       \cup (IF expr.e = "list" THEN {Len(expr.items)} ELSE {}))

Exprs(st) == CASE st.s \in {"var", "assign"} -> st.values
               [] st.s = "compound" -> <<st.value>>
               [] st.s = "expr" -> <<st.expr>>
               [] st.s \in {"if", "while"} -> <<st.cond>>
               [] st.s = "for" -> <<st.to>>
               [] st.s = "block" -> <<>>
Nested(st) == CASE st.s = "if" -> <<st.then>> \o st.else
                [] st.s = "while" -> <<st.loop>>
                [] st.s = "for" -> <<st.from, st.loop>> \o st.step
                [] st.s = "block" -> st.body
                [] OTHER -> <<>>
Widest(body) == Max({3} \cup UNION {{Width(expr) : expr \in Range(Exprs(st))}
                                   \cup {Widest(Nested(st))} : st \in Range(body)})

=============================================================================
