-------------------------------- MODULE Parser --------------------------------
(***************************************************************************)
(* The parser of src/src/frontend/parser.c, a function for each of its      *)
(* functions.  The struct Parser is a record that they thread through, with *)
(* what the last of them returned in node.  Of a location only whether its  *)
(* end is known is kept: the end of a literal that was not closed is {0}.   *)
(*                                                                         *)
(* A token is a record of type and text.  The trees are those of module     *)
(* Compiler, their operators the types of the tokens.                       *)
(***************************************************************************)
EXTENDS Integers, SequencesExt

CONSTANTS MaxNames,     \* names, targets and values of a statement: 8
          MaxItems,     \* items of a list or a dictionary: 256
          MaxBlock,     \* statements of a block: 64
          MaxProgram    \* statements of a program: 1024

advance(P) ==
  LET n == IF P.pos + 1 < Len(P.Tokens) THEN P.pos + 1 ELSE P.pos
  IN [P EXCEPT !.previous = P.current, !.pos = n, !.current = P.Tokens[n + 1]]

\* reported: something was printed; overrun: the functions that wrote past one of
\* their arrays; asserted: an assert failed.
NoToken == [type |-> "none", text |-> <<>>]
parser_init(tokens) ==
  advance([Tokens |-> tokens, pos |-> -1, current |-> NoToken, previous |-> NoToken,
           hadError |-> FALSE, reported |-> FALSE, overrun |-> {}, asserted |-> FALSE,
           exited |-> FALSE, node |-> [s |-> "none"]])

Sees(P, type) == P.current.type = type
After(P, type) == P.previous.type = type
Node(P, node) == [P EXCEPT !.node = node]

\* Past a token that may be left out.
match(P, type) == IF Sees(P, type) THEN advance(P) ELSE P

syntaxError(P) == [P EXCEPT !.reported = TRUE]
Error(P) == [P EXCEPT !.reported = TRUE, !.hadError = TRUE]

\* Mutant: whatever is there is taken.
consume_Any(P, type) == advance(P)
consume(P, type) == IF Sees(P, type) THEN advance(P) ELSE Error(P)

\* The array of function, of size cells, has been given its n-th.
Stored(P, function, n, size) ==
  IF n > size THEN [P EXCEPT !.overrun = @ \cup {function}] ELSE P

is_expr_terminator(type) ==
  type \in {"M_EOF", "M_RBRACE", "M_RPAREN", "M_COMMA", "M_SEMICOLON"}
is_statement_start(type) ==
  type \in {"M_VAR", "M_CONST", "M_IF", "M_WHILE", "M_FOR", "M_LBRACE", "M_RBRACE", "M_EOF"}

RECURSIVE sync_expression(_), sync_statement(_)
sync_expression(P) ==
  IF is_expr_terminator(P.current.type) THEN P ELSE sync_expression(advance(P))
sync_statement(P) ==
  IF is_statement_start(P.current.type) THEN P ELSE sync_statement(advance(P))

\* An item or a target may be followed by a comma, or end with a semicolon.
Continues(P) == Sees(P, "M_COMMA") \/ After(P, "M_SEMICOLON")

-----------------------------------------------------------------------------
(* The ends of locations.                                                    *)

RECURSIVE EndKnown(_)
EndKnown(expr) == CASE expr.e \in {"bin", "index", "un"} -> EndKnown(expr.right)
                    [] expr.e = "fix" -> EndKnown(expr.target)
                    [] expr.e \in {"list", "dict"} -> expr.closed
                    [] OTHER -> TRUE

RECURSIVE StmtEndKnown(_)
StmtEndKnown(st) ==
  CASE st.s = "var" -> st.values # <<>> => EndKnown(Last(st.values))
    [] st.s = "assign" -> EndKnown(Last(st.values))
    [] st.s = "compound" -> EndKnown(st.value)
    [] st.s = "expr" -> EndKnown(st.expr)
    [] st.s = "error" -> st.known
    [] st.s = "if" -> StmtEndKnown(IF st.else = <<>> THEN st.then ELSE st.else[1])
    [] st.s \in {"while", "for"} -> StmtEndKnown(st.loop)
    [] st.s = "block" -> TRUE

-----------------------------------------------------------------------------
(* Expressions: the table of rules, and what its entries call.               *)

Literals == {"M_V_INT", "M_V_FLOAT", "M_V_STRING", "M_V_TRUE", "M_V_FALSE", "M_V_NIL"}

\* The operators that may follow an operand, from PREC_OR to PREC_ACCESS.
Levels == <<{"M_OR"}, {"M_AND"}, {"M_EQ", "M_NEQ"}, {"M_LT", "M_LTE", "M_GT", "M_GTE"},
            {"M_CONCAT"}, {"M_PLUS", "M_MINUS"},
            {"M_STAR", "M_SLASH", "M_FLOOR_DIV", "M_MOD"}, {"M_POW"},
            {}, {"M_INC", "M_DEC"}, {"M_LPAREN", "M_LBRAKET"}>>
PREC_NONE == 0
PREC_UNARY == 9
Infix == UNION {Levels[k] : k \in DOMAIN Levels}
PrecedenceOf(type) == CHOOSE k \in DOMAIN Levels : type \in Levels[k]

RECURSIVE parser_precedence(_, _)

ErrorExpr == [e |-> "error"]
parser_expr_error(P) == sync_expression(Node(P, ErrorExpr))

\* The semicolon belongs to the expression, wherever the expression stands.
parser_expression(P) == match(parser_precedence(P, PREC_NONE), "M_SEMICOLON")

parser_literal(P) == Node(P, [e |-> "lit", value |-> P.previous.text])
parser_identifier(P) == Node(P, [e |-> "name", name |-> P.previous.text])

\* R: after the right operand.
new_binary(R, left, op) ==
  IF R.node = ErrorExpr THEN R
  ELSE IF left = ErrorExpr THEN Node(R, left)
  ELSE Node(R, [e |-> "bin", op |-> op, left |-> left, right |-> R.node])

\* Mutant: every operator associates to the right.
parser_binary_Right(P, op) == new_binary(parser_precedence(P, PrecedenceOf(op)), P.node, op)
parser_binary(P, op) ==
  new_binary(parser_precedence(P, IF op = "M_POW" THEN PrecedenceOf(op)
                                  ELSE PrecedenceOf(op) + 1), P.node, op)

new_unary(R, op) == Node(R, [e |-> "un", op |-> op, right |-> R.node])
parser_unary(P, op) == new_unary(parser_precedence(P, PREC_UNARY), op)

new_fix(P, op, pre) == Node(P, [e |-> "fix", op |-> op, target |-> P.node, pre |-> pre])
parser_prefix(P, op) == new_fix(parser_precedence(P, PREC_UNARY), op, TRUE)

\* After an operand too, which is dropped: f(x) is x.
grouped(R) == IF Sees(R, "M_RPAREN") THEN advance(R) ELSE parser_expr_error(Error(R))
parser_grouping(P) == grouped(parser_expression(P))

new_index(R, left) ==
  Node(consume(R, "M_RBRAKET"), [e |-> "index", left |-> left, right |-> R.node])
parser_index(P) == new_index(parser_expression(P), P.node)

-----------------------------------------------------------------------------
(* Lists and dictionaries.                                                   *)

ListNode(P, items, closed) ==
  Node(P, [e |-> "list", capacity |-> <<>>, items |-> items, closed |-> closed])

RECURSIVE elements(_, _)

\* After an element, and after it has been stored.
elementsAfter(P, items) ==
  IF Continues(P) THEN elements(match(P, "M_COMMA"), items)
  ELSE ListNode(consume(P, "M_RBRAKET"), items, Sees(P, "M_RBRAKET"))
element(R, items) ==
  elementsAfter(Stored(R, "parser_list", Len(items) + 1, MaxItems), Append(items, R.node))

\* Mutant: one element more than the array has cells.
elements_OneMore(P, items) ==
  IF Len(items) > MaxItems
  THEN ListNode(match(syntaxError(P), "M_RBRAKET"), items, EndKnown(Last(items)))
  ELSE element(parser_expression(P), items)
elements(P, items) ==
  IF Len(items) >= MaxItems
  THEN ListNode(match(syntaxError(P), "M_RBRAKET"), items, EndKnown(Last(items)))
  ELSE element(parser_expression(P), items)

listOf(P) == IF Sees(P, "M_RBRAKET") THEN ListNode(advance(P), <<>>, TRUE)
             ELSE elements(P, <<>>)
parser_list(P) == listOf(IF After(P, "M_LBRAKET") THEN P ELSE consume(P, "M_LBRAKET"))

DictNode(P, entries, closed) ==
  Node(P, [e |-> "dict", fixed |-> FALSE, entries |-> entries, closed |-> closed])

\* The name of a key, taken for the text of a string.
KeyOf(name) == <<"key", name>>
new_dict_key_literal(P) == Node(P, [e |-> "lit", value |-> KeyOf(P.current.text)])

RECURSIVE entriesOf(_, _)

\* After an entry.  The bracket of a list closes a dictionary as well.
entriesAfter(P, entries) ==
  IF Continues(P) THEN entriesOf(match(P, "M_COMMA"), entries)
  ELSE IF Sees(P, "M_RBRACE") THEN DictNode(advance(P), entries, TRUE)
  ELSE DictNode(consume(P, "M_RBRAKET"), entries, FALSE)

\* V: after the value of an entry; K: after its key, which is the node.
entryOf(V, key, entries) ==
  entriesAfter(Stored(V, "parser_dict", Len(entries) + 1, MaxItems),
               Append(entries, [key |-> key, value |-> V.node]))
valueOf(K, entries) == entryOf(parser_expression(consume(K, "M_ASSING")), K.node, entries)

entriesOf(P, entries) ==
  IF Len(entries) >= MaxItems
  THEN DictNode(match(syntaxError(P), "M_RBRAKET"), entries, EndKnown(Last(entries).value))
  ELSE IF Sees(P, "M_LBRAKET")
  THEN valueOf(consume(parser_expression(advance(P)), "M_RBRAKET"), entries)
  ELSE IF Sees(P, "M_V_IDENTIFIER") THEN valueOf(advance(new_dict_key_literal(P)), entries)
  ELSE parser_expr_error(Error(P))

dictOf(P) == IF Sees(P, "M_RBRACE") THEN DictNode(advance(P), <<>>, TRUE)
             ELSE entriesOf(P, <<>>)
parser_dict(P) == dictOf(IF After(P, "M_LBRACE") THEN P ELSE consume(P, "M_LBRAKET"))

\* fixed() before a dictionary, fixed(capacity) before a list, whose bracket is
\* assumed to be there.
fixedDict(D, capacity) ==
  IF capacity # <<>> THEN parser_expr_error(syntaxError(D))
  ELSE IF D.node = ErrorExpr THEN D
  ELSE Node(D, [D.node EXCEPT !.fixed = TRUE])

fixedList(D, capacity) ==
  IF capacity = <<>> THEN parser_expr_error(syntaxError(D))
  ELSE Node(D, [D.node EXCEPT !.capacity = capacity])

fixedOf(P, capacity) ==
  IF Sees(P, "M_LBRACE") THEN fixedDict(parser_dict(advance(P)), capacity)
  ELSE fixedList(parser_list(advance(P)), capacity)

capacityOf(R) == fixedOf(consume(R, "M_RPAREN"), <<R.node>>)
afterParen(P) == IF Sees(P, "M_RPAREN") THEN fixedOf(advance(P), <<>>)
                 ELSE capacityOf(parser_expression(P))
parser_fixed(P) == afterParen(consume(P, "M_LPAREN"))

-----------------------------------------------------------------------------

\* P has consumed the token, and infix finds the left operand in its node.
prefix(P, type) ==
  CASE type \in Literals -> parser_literal(P)
    [] type = "M_V_IDENTIFIER" -> parser_identifier(P)
    [] type = "M_LPAREN" -> parser_grouping(P)
    [] type = "M_LBRAKET" -> parser_list(P)
    [] type = "M_LBRACE" -> parser_dict(P)
    [] type = "M_FIXED" -> parser_fixed(P)
    [] type \in {"M_MINUS", "M_NOT"} -> parser_unary(P, type)
    [] type \in {"M_INC", "M_DEC"} -> parser_prefix(P, type)
    [] type \in {"M_V_MALFORMED_NUMBER", "M_V_UNFINISHED_STRING"} -> parser_expr_error(P)
    [] OTHER -> parser_expr_error(Error(P))

infix(P, type) == CASE type = "M_LPAREN" -> parser_grouping(P)
                    [] type = "M_LBRAKET" -> parser_index(P)
                    [] type \in {"M_INC", "M_DEC"} -> new_fix(P, type, FALSE)
                    [] OTHER -> parser_binary(P, type)

RECURSIVE operators(_, _)
operators(P, prec) ==
  IF P.current.type \in Infix /\ prec <= PrecedenceOf(P.current.type)
  THEN operators(infix(advance(P), P.current.type), prec)
  ELSE P

\* Mutant: what cannot begin an expression is not skipped.
parser_precedence_Stays(P, prec) ==
  IF is_expr_terminator(P.current.type) THEN Node(Error(P), ErrorExpr)
  ELSE operators(prefix(advance(P), P.current.type), prec)
parser_precedence(P, prec) == operators(prefix(advance(P), P.current.type), prec)

-----------------------------------------------------------------------------
(* Statements.                                                               *)

RECURSIVE parser_statement(_)

\* What is left of a statement that could not be read.
StmtError(P, expr) == Node(P, [s |-> "error", known |-> EndKnown(expr)])
ErrorStatement(P) == StmtError(sync_statement(Error(P)), ErrorExpr)

\* The expressions after exprs, which ends at one that no comma follows: at most
\* most of them go into the array.
RECURSIVE expressions(_, _, _, _)
\* R: after the next of them.
expressionsAnd(R, function, exprs, most) ==
  expressions(Stored(R, function, Len(exprs) + 1, MaxNames), function,
              Append(exprs, R.node), most)
expressions(P, function, exprs, most) ==
  IF ~Sees(P, "M_COMMA") THEN Node(P, exprs)
  ELSE IF Len(exprs) >= most THEN Node(syntaxError(advance(P)), exprs)
  ELSE expressionsAnd(parser_expression(advance(P)), function, exprs, most)

\* After the "=": one value or more.
valuesAfter(P, function, most) == expressionsAnd(parser_expression(P), function, <<>>, most)

VarNode(P, names, vs, isConst) ==
  Node(P, [s |-> "var", names |-> names, values |-> vs, isConst |-> isConst])

\* A const without a value is reported, and declared.
varOf(R, names, isConst) == VarNode(R, names, R.node, isConst)
varValues(P, names, isConst) ==
  IF Sees(P, "M_ASSING") THEN varOf(valuesAfter(advance(P), "parser_var", MaxNames), names, isConst)
  ELSE VarNode(IF isConst THEN Error(P) ELSE P, names, <<>>, isConst)

RECURSIVE parser_var(_, _, _)
varNames(P, names, isConst) ==
  IF Sees(P, "M_COMMA") THEN parser_var(advance(P), names, isConst)
  ELSE varValues(P, names, isConst)
parser_var(P, names, isConst) ==
  IF ~Sees(P, "M_V_IDENTIFIER") \/ Len(names) >= MaxNames THEN ErrorStatement(P)
  ELSE varNames(Stored(advance(P), "parser_var", Len(names) + 1, MaxNames),
                Append(names, P.current.text), isConst)

isLValue(expr) == expr.e \in {"name", "index"}

\* The targets begin with the node.  Both counts are tested with ">", so that there
\* may be one more of each than there are cells.
AssignNode(V, targets) == Node(V, [s |-> "assign", targets |-> targets, values |-> V.node])
assignTo(T) ==
  IF Sees(T, "M_ASSING")
  THEN AssignNode(valuesAfter(advance(T), "parser_assign", MaxNames + 1), T.node)
  ELSE ErrorStatement(T)
checkTargets(T) ==
  assignTo(IF \A k \in DOMAIN T.node : isLValue(T.node[k]) THEN T ELSE syntaxError(T))
parser_assign(P) ==
  checkTargets(expressions(P, "parser_assign", <<P.node>>, MaxNames + 1))

CompoundNode(R, op, left) ==
  Node(R, [s |-> "compound", target |-> left, op |-> op, value |-> R.node])
parser_compound_assing(P) ==
  CompoundNode(parser_expression(advance(IF isLValue(P.node) THEN P ELSE syntaxError(P))),
               P.current.type, P.node)

CompoundOps == {"M_PLUS_ASSING", "M_MINUS_ASSING", "M_STAR_ASSING", "M_SLASH_ASSING",
                "M_FLOOR_DIV_ASSING", "M_CONCAT_ASSING", "M_POW_ASSING", "M_MOD_ASSING"}

is_valid_stmt_expr(expr) == expr.e = "fix"

\* An expression that is no statement is an error, which only the compiler reports.
parser_expr_stmt(P, expr) ==
  IF is_valid_stmt_expr(expr) THEN Node(P, [s |-> "expr", expr |-> expr])
  ELSE StmtError(sync_statement([P EXCEPT !.hadError = TRUE]), expr)

afterFirst(R) ==
  IF R.current.type \in {"M_ASSING", "M_COMMA"} THEN parser_assign(R)
  ELSE IF R.current.type \in CompoundOps THEN parser_compound_assing(R)
  ELSE parser_expr_stmt(match(R, "M_SEMICOLON"), R.node)
parser_expr_or_assignment_stmt(P) == afterFirst(parser_expression(P))

\* The asserts on the locations of the branches.
EndsKnown(branches) == \A k \in DOMAIN branches : StmtEndKnown(branches[k])
IfNode(P, cond, then, else) ==
  [P EXCEPT !.asserted = @ \/ (~P.exited /\ ~EndsKnown(<<then>> \o else)),
            !.node = [s |-> "if", cond |-> cond, then |-> then, else |-> else]]

RECURSIVE parser_if(_)
withElse(E, cond, then) == IfNode(E, cond, then, <<E.node>>)
afterThen(T, cond) ==
  IF Sees(T, "M_ELSEIF") THEN withElse(parser_if(advance(T)), cond, T.node)
  ELSE IF Sees(T, "M_ELSE") THEN withElse(parser_statement(advance(T)), cond, T.node)
  ELSE IfNode(T, cond, T.node, <<>>)
thenOf(C) == afterThen(parser_statement(C), C.node)
parser_if(P) == thenOf(parser_expression(P))

WhileNode(L, cond) == Node(L, [s |-> "while", cond |-> cond, loop |-> L.node])
loopOf(C) == WhileNode(parser_statement(C), C.node)
parser_while(P) == loopOf(parser_expression(P))

\* L: after the body; S: after the step; R: after the bound; V: after the initial
\* value.
ForNode(L, from, to, step) ==
  Node(L, [s |-> "for", from |-> from, to |-> to, step |-> step, loop |-> L.node])
forLoop(S, from, to) == ForNode(parser_statement(S), from, to, <<S.node>>)

\* There is a step if the bound was followed by a comma or ended with a semicolon.
forStep(R, from) ==
  IF Continues(R) THEN forLoop(parser_statement(match(R, "M_COMMA")), from, R.node)
  ELSE ForNode(parser_statement(R), from, R.node, <<>>)

forBound(V, name) ==
  forStep(parser_expression(IF Sees(V, "M_COMMA") \/ ~After(V, "M_SEMICOLON")
                            THEN consume(V, "M_COMMA") ELSE V),
          [s |-> "var", names |-> <<name>>, values |-> <<V.node>>, isConst |-> FALSE])

forValue(A, name) == IF Sees(A, "M_ASSING") THEN forBound(parser_expression(advance(A)), name)
                     ELSE ErrorStatement(A)
parser_for_numeric(P) == IF Sees(P, "M_V_IDENTIFIER")
                         THEN forValue(advance(P), P.current.text) ELSE ErrorStatement(P)

RECURSIVE statements(_, _)

\* The end of a block.
blockOf(P, body) == Node(consume(P, "M_RBRACE"), [s |-> "block", body |-> body])

statementsAnd(S, body) == statements(Stored(S, "parser_block", Len(body) + 1, MaxBlock),
                                     Append(body, S.node))
statements(P, body) ==
  IF P.exited \/ P.current.type \in {"M_RBRACE", "M_EOF"} THEN blockOf(P, body)
  ELSE IF Len(body) >= MaxBlock THEN [P EXCEPT !.exited = TRUE, !.reported = TRUE]
  ELSE statementsAnd(parser_statement(P), body)

parser_block(P) == statements(P, <<>>)

parser_statement(P) ==
  CASE P.exited -> P
    [] Sees(P, "M_VAR") -> parser_var(advance(P), <<>>, FALSE)
    [] Sees(P, "M_CONST") -> parser_var(advance(P), <<>>, TRUE)
    [] Sees(P, "M_IF") -> parser_if(advance(P))
    [] Sees(P, "M_LBRACE") -> parser_block(advance(P))
    [] Sees(P, "M_WHILE") -> parser_while(advance(P))
    [] Sees(P, "M_FOR") -> parser_for_numeric(advance(P))
    [] OTHER -> parser_expr_or_assignment_stmt(P)

\* A turn of the loop of parser_program, after the statements of program.
parser_program(P, program) ==
  IF Len(program) >= MaxProgram THEN [P EXCEPT !.exited = TRUE, !.reported = TRUE]
  ELSE Stored(parser_statement(P), "parser_program", Len(program) + 1, MaxProgram)

=============================================================================
