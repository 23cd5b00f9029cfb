------------------------------- MODULE Grammar -------------------------------
(***************************************************************************)
(* How a program is written: the tokens of a syntax tree, with no more     *)
(* parentheses and semicolons than it takes for them to be read back as    *)
(* that tree.  This is the reference that module Parser is compared with;  *)
(* it says how tightly operators bind in a table of its own.               *)
(***************************************************************************)
EXTENDS Integers, SequencesExt

Tok(type) == [type |-> type, text |-> <<>>]
Of(type) == <<Tok(type)>>
Identifier(name) == <<[type |-> "M_V_IDENTIFIER", text |-> name]>>

LiteralType(value) == CASE value[1] = "text" -> "M_V_STRING"
                        [] value[1] = "float" -> "M_V_FLOAT"
                        [] value[1] = "bool" -> IF value[2] THEN "M_V_TRUE" ELSE "M_V_FALSE"
                        [] value[1] = "nil" -> "M_V_NIL"
                        [] OTHER -> "M_V_INT"
Literal(value) == <<[type |-> LiteralType(value), text |-> value]>>

\* "or" binds loosest; what needs no parentheses anywhere is Atomic.
Binds(op) == CASE op = "M_OR" -> 1
               [] op = "M_AND" -> 2
               [] op \in {"M_EQ", "M_NEQ"} -> 3
               [] op \in {"M_LT", "M_LTE", "M_GT", "M_GTE"} -> 4
               [] op = "M_CONCAT" -> 5
               [] op \in {"M_PLUS", "M_MINUS"} -> 6
               [] op \in {"M_STAR", "M_SLASH", "M_FLOOR_DIV", "M_MOD"} -> 7
               [] op = "M_POW" -> 8
Before == 9
After == 10
Atomic == 11
Strength(expr) == CASE expr.e = "bin" -> Binds(expr.op)
                    [] expr.e = "un" \/ (expr.e = "fix" /\ expr.pre) -> Before
                    [] expr.e \in {"fix", "index"} -> After
                    [] OTHER -> Atomic
RightAssociative(op) == op = "M_POW"

\* The parts, with a comma between them.
Listed(parts) == FoldLeft(LAMBDA all, part : IF all = <<>> THEN part
                                             ELSE all \o Of("M_COMMA") \o part, <<>>, parts)
Enclosed(open, tokens, close) == Of(open) \o tokens \o Of(close)

RECURSIVE ExprTokens(_, _)
Loosest(expr) == ExprTokens(expr, 0)
ListTokens(exprs) == Listed([k \in DOMAIN exprs |-> Loosest(exprs[k])])

\* A key that is a name may be written as one.
KeyTokens(key) == IF key.e = "lit" /\ key.value[1] = "key" THEN Identifier(key.value[2])
                  ELSE Enclosed("M_LBRAKET", Loosest(key), "M_RBRAKET")
EntryTokens(entry) == KeyTokens(entry.key) \o Of("M_ASSING") \o Loosest(entry.value)
FixedTokens(capacity) == Of("M_FIXED") \o Enclosed("M_LPAREN", ListTokens(capacity), "M_RPAREN")

Bare(expr) ==
  CASE expr.e = "lit" -> Literal(expr.value)
    [] expr.e = "name" -> Identifier(expr.name)
    [] expr.e = "bin" ->
         ExprTokens(expr.left, Binds(expr.op) + (IF RightAssociative(expr.op) THEN 1 ELSE 0))
         \o Of(expr.op) \o
         ExprTokens(expr.right, Binds(expr.op) + (IF RightAssociative(expr.op) THEN 0 ELSE 1))
    [] expr.e = "un" -> Of(expr.op) \o ExprTokens(expr.right, Before)
    [] expr.e = "fix" -> IF expr.pre THEN Of(expr.op) \o ExprTokens(expr.target, Before)
                         ELSE ExprTokens(expr.target, After) \o Of(expr.op)
    [] expr.e = "index" -> ExprTokens(expr.left, After)
                           \o Enclosed("M_LBRAKET", Loosest(expr.right), "M_RBRAKET")
    [] expr.e = "list" -> (IF expr.capacity = <<>> THEN <<>> ELSE FixedTokens(expr.capacity))
                          \o Enclosed("M_LBRAKET", ListTokens(expr.items), "M_RBRAKET")
    [] expr.e = "dict" -> (IF expr.fixed THEN FixedTokens(<<>>) ELSE <<>>)
                          \o Enclosed("M_LBRACE",
                                      Listed([k \in DOMAIN expr.entries |->
                                                EntryTokens(expr.entries[k])]),
                                      IF expr.closed THEN "M_RBRACE" ELSE "M_RBRAKET")
    [] expr.e = "error" -> Of("M_ERROR")

\* An expression where one that binds less than least needs parentheses.
ExprTokens(expr, least) == IF Strength(expr) >= least THEN Bare(expr)
                           ELSE Enclosed("M_LPAREN", Bare(expr), "M_RPAREN")

-----------------------------------------------------------------------------

\* After an expression: what could go on with it is kept from it by a semicolon.
MayGoOn == {"M_INC", "M_DEC", "M_LPAREN", "M_LBRAKET", "M_MINUS"}
Then(tokens, more) == IF more # <<>> /\ more[1].type \in MayGoOn
                      THEN tokens \o Of("M_SEMICOLON") \o more ELSE tokens \o more

\* The statement ends in an expression.
RECURSIVE Ends(_)
Ends(st) == CASE st.s = "var" -> st.values # <<>>
              [] st.s \in {"expr", "assign", "compound"} -> TRUE
              [] st.s = "if" -> Ends(IF st.else = <<>> THEN st.then ELSE st.else[1])
              [] st.s \in {"while", "for"} -> Ends(st.loop)
              [] OTHER -> FALSE

NameTokens(names) == Listed([k \in DOMAIN names |-> Identifier(names[k])])
ValueTokens(values) ==
  IF values = <<>> THEN <<>> ELSE Of("M_ASSING") \o ListTokens(values)

RECURSIVE StmtTokens(_)

StmtsTokens(body) ==
  FoldRight(LAMBDA st, more : IF Ends(st) THEN Then(StmtTokens(st), more)
                              ELSE StmtTokens(st) \o more, body, <<>>)

ElseTokens(else) == IF else[1].s = "if"
                    THEN Of("M_ELSEIF") \o Tail(StmtTokens(else[1]))
                    ELSE Of("M_ELSE") \o StmtTokens(else[1])

StmtTokens(st) ==
  CASE st.s = "var" -> Of(IF st.isConst THEN "M_CONST" ELSE "M_VAR")
                       \o NameTokens(st.names) \o ValueTokens(st.values)
    [] st.s = "assign" -> ListTokens(st.targets) \o ValueTokens(st.values)
    [] st.s = "compound" -> Loosest(st.target) \o Of(st.op) \o Loosest(st.value)
    [] st.s = "expr" -> Loosest(st.expr)
    [] st.s = "block" -> Enclosed("M_LBRACE", StmtsTokens(st.body), "M_RBRACE")
    [] st.s = "if" -> Of("M_IF") \o Then(Loosest(st.cond), StmtTokens(st.then))
                      \o (IF st.else = <<>> THEN <<>> ELSE ElseTokens(st.else))
    [] st.s = "while" -> Of("M_WHILE") \o Then(Loosest(st.cond), StmtTokens(st.loop))
    [] st.s = "for" -> Of("M_FOR") \o Tail(StmtTokens(st.from)) \o Of("M_COMMA")
                       \o Then(Loosest(st.to), IF st.step = <<>> THEN StmtTokens(st.loop)
                                               ELSE Of("M_COMMA") \o StmtsTokens(st.step \o <<st.loop>>))
    [] st.s = "error" -> Of("M_ERROR")

\* Of two trees that the parser makes of no text, this is the text of another: an if
\* that would take the else of the one around it, and a for without a step whose body
\* would be taken for one.
TokensOf(program) == StmtsTokens(program) \o Of("M_EOF")

=============================================================================
