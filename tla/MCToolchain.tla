----------------------------- MODULE MCToolchain -----------------------------
(***************************************************************************)
(* The programs of the runs.  Each starts with                             *)
(*     var x = 5                                                           *)
(*     var y = 2                                                           *)
(*     var l = [x, 7]                                                      *)
(* and goes on with one or two statements from the families below: every   *)
(* two operators one within the other, expressions of two levels in every  *)
(* place where one may stand, and every nesting of two control structures. *)
(***************************************************************************)
EXTENDS Toolchain

NameOf(n) == [e |-> "name", name |-> n]
Bin(op, v, w) == [e |-> "bin", op |-> op, left |-> v, right |-> w]
Un(op, v) == [e |-> "un", op |-> op, right |-> v]
At(v, w) == [e |-> "index", left |-> v, right |-> w]
FixOf(n, op, pre) == [e |-> "fix", target |-> NameOf(n), op |-> op, pre |-> pre]
Sized(capacity, items) == [e |-> "list", capacity |-> capacity, items |-> items, closed |-> TRUE]
Items(items) == Sized(<<>>, items)
Entries(fixed, entries) == [e |-> "dict", fixed |-> fixed, entries |-> entries, closed |-> TRUE]
EntryOf(key, v) == [key |-> key, value |-> v]

\* A key that is written as a name.
KeyNamed(letters) == [e |-> "lit", value |-> KeyOf(letters)]
Named == KeyNamed(<<"n", "a", "m", "e">>)

\* A literal has no sign.
Lit(n) == [e |-> "lit", value |-> IntV(n)]
Minus(v, w) == Bin("M_MINUS", v, w)
Neg(v) == Un("M_MINUS", v)

X == NameOf("x")
Y == NameOf("y")
L == NameOf("l")

VarOf(names, values) == [s |-> "var", names |-> names, values |-> values, isConst |-> FALSE]
Const(name, v) == [s |-> "var", names |-> <<name>>, values |-> <<v>>, isConst |-> TRUE]
Assignment(targets, values) == [s |-> "assign", targets |-> targets, values |-> values]
Set(n, v) == Assignment(<<NameOf(n)>>, <<v>>)
Update(n, op, v) == [s |-> "compound", target |-> NameOf(n), op |-> op, value |-> v]
PutAt(coll, key, v) == Assignment(<<At(coll, key)>>, <<v>>)
Do(v) == [s |-> "expr", expr |-> v]
BlockOf(body) == [s |-> "block", body |-> body]
IfElse(cond, then, else) == [s |-> "if", cond |-> cond, then |-> then, else |-> else]
WhileDo(cond, loop) == [s |-> "while", cond |-> cond, loop |-> loop]
ForDo(n, from, to, step, loop) ==
  [s |-> "for", from |-> VarOf(<<n>>, <<from>>), to |-> to, step |-> step, loop |-> loop]

Prelude == <<VarOf(<<"x">>, <<Lit(5)>>), VarOf(<<"y">>, <<Lit(2)>>),
             VarOf(<<"l">>, <<Items(<<X, Lit(7)>>)>>)>>

-----------------------------------------------------------------------------
(* Expressions: all of one operator, and those of two levels of "-", of      *)
(* unary "-" and of indexing, for which every operand and every order        *)
(* matters.                                                                  *)

Operators == DOMAIN BinaryOp
Leaves == {X, Y, Lit(3)}
Flat == {Bin(op, v, w) : op \in Operators \ {"M_POW"},
                         v \in {X, Neg(Lit(3)), Lit(0)}, w \in {Y, Lit(0), Neg(Lit(2))}}
        \cup {Bin("M_POW", v, w) : v \in {X, Neg(Lit(3)), Neg(Lit(1))},
                                  w \in {Y, Lit(0), Neg(Lit(1))}}
        \cup {Un(op, v) : op \in DOMAIN UnaryOp, v \in Leaves \cup {Lit(0)}}

\* Every two operators, either of them first, unless a power would be no number that
\* the model has.  A quotient that may become a text is one that ends.
Divisor(op) == Lit(IF op = "M_SLASH" THEN 4 ELSE 3)
Mixed == {Bin(op, Bin(other, X, Y), Lit(3)) : op, other \in Operators}
         \cup UNION {{Bin(op, X, Bin(other, Y, Divisor(other))) :
                         op \in Operators \ (IF other \in {"M_SLASH", "M_CONCAT"}
                                            THEN {"M_POW"} ELSE {})} : other \in Operators}
         \cup {Un(op, Bin(other, X, Y)) : op \in DOMAIN UnaryOp, other \in Operators}
         \cup {Bin(op, Un(other, X), Y) : op \in Operators, other \in DOMAIN UnaryOp}
Small == {Minus(X, Y), Minus(Y, Lit(3)), Neg(X), At(L, Lit(1)),
          At(L, Minus(Lit(1), Y))}
Nested == {Minus(v, w) : v, w \in Leaves \cup Small}
          \cup {Neg(v) : v \in Small}
          \cup {At(Items(<<v, w, X>>), Y) : v \in Small, w \in Small}
          \cup {At(L, Neg(v)) : v \in {Lit(1), Lit(2), Y, At(Items(<<Lit(1)>>), Lit(1))}}
          \cup {Items(<<v, Items(<<w>>)>>) : v \in Small, w \in Leaves}
          \cup {Sized(<<v>>, <<w>>) : v \in {Y, Minus(X, Y)}, w \in Small}

\* Expressions whose operands are lists, values of several types or errors, or
\* that change a variable they do not read elsewhere.
HaveL == {Bin("M_OR", Bin("M_LT", X, Y), L), Bin("M_AND", Bin("M_LT", Y, X), L),
          Bin("M_PLUS", Items(<<X>>), L), FixOf("l", "M_INC", FALSE)}
Odd == HaveL \cup
       {Bin("M_PLUS", L, X), Bin("M_STAR", L, Y), Bin("M_STAR", L, Neg(Lit(1))),
        Bin("M_STAR", L, L),
        Bin("M_EQ", L, L), Bin("M_EQ", L, X), Bin("M_NEQ", X, L),
        Bin("M_NEQ", Bin("M_LT", X, Y), Un("M_NOT", L)), Minus(L, X), Neg(L),
        At(X, Y), At(L, L), At(L, Lit(3)), At(L, Lit(0)),
        Sized(<<L>>, <<X>>), Items(<<>>),
        Entries(FALSE, <<EntryOf(X, Items(<<Y>>)), EntryOf(Named, X)>>),
        Entries(TRUE, <<EntryOf(Named, Minus(X, Y))>>), Entries(FALSE, <<EntryOf(L, X)>>),
        Minus(FixOf("x", "M_INC", FALSE), Y), Minus(Y, FixOf("x", "M_DEC", TRUE)),
        Minus(FixOf("x", "M_INC", TRUE), FixOf("y", "M_DEC", FALSE)),
        Items(<<FixOf("x", "M_INC", FALSE), FixOf("x", "M_INC", FALSE), X>>),
        FixOf("x", "M_INC", TRUE), Minus(X, NameOf("u"))}

\* Operands of every type, and texts that are numbers and that are not.  Left out are
\* the quotients // with a text of which one operand is negative: they are rounded in
\* two ways.
Value(v) == [e |-> "lit", value |-> v]
Between(quote, chars) == Value(<<"text", <<quote>> \o chars \o <<quote>>>>)
Quoted(chars) == Between("QUOTE", chars)
Texts == {Between("BACKQUOTE", <<"4">>), Quoted(<<"1", ".", "5">>), Between("'", <<"l">>),
          Quoted(<<>>)}
Sorts == Texts \cup {X, Value(FloatV(5, 2)), Value(BoolV(TRUE)), Value(Nil)}
Signed4 == Quoted(<<"-", "4">>)
Converted == {Bin(op, v, w) : op \in Operators \ {"M_POW"}, v, w \in Sorts}
           \cup {Bin("M_POW", v, w) : v \in Sorts,
                                      w \in {Y, Quoted(<<"2">>), Value(FloatV(3, 1)), Quoted(<<>>)}}
           \cup {Bin(op, v, Signed4) : op \in Operators \ {"M_FLOOR_DIV"}, v \in {X} \cup Texts}
           \cup {Un(op, v) : op \in DOMAIN UnaryOp, v \in Sorts \cup {Signed4}}
Lists == {Bin("M_CONCAT", v, w) : v \in {L, Items(<<>>)},
                                  w \in {L, Items(<<Y>>), X, Quoted(<<"l">>), Value(Nil)}}
         \cup {Bin("M_CONCAT", Quoted(<<"l">>), L), Bin("M_CONCAT", Entries(FALSE, <<>>), X)}

Exprs == Flat \cup Nested \cup Odd

\* The last two put the value into a list, which it must neither contain nor
\* change: l[y] = l++ finds l in its register, after the increment.  And a
\* literal list, or dictionary, is not assigned to a variable that it reads,
\* which is given the new object before its elements are evaluated.  Nor is
\* l + x assigned to x, for the same reason: module List is about that.
UsesOf(v) == {VarOf(<<"z">>, <<v>>), VarOf(<<"z", "w">>, <<v>>),
              IfElse(v, Set("x", Lit(1)), <<Set("y", Lit(1))>>)}
             \cup (IF v.e = "fix" THEN {Do(v)} ELSE {})
             \cup (IF v \in HaveL THEN {}
                   ELSE {PutAt(L, Lit(2), v), Update("l", "M_PLUS_ASSING", v)})
Assigned == {Set("x", v) : v \in {w \in Exprs \ {Bin("M_PLUS", L, X)} :
                                     w.e \in {"bin", "un", "index"}}}

ExprPrograms == {<<st>> : st \in UNION {UsesOf(v) : v \in Exprs} \cup Assigned
                                  \cup {Set("y", v) : v \in Mixed \cup Converted \cup Lists}
                                  \cup {Update("x", op, v) : op \in DOMAIN CompoundOp,
                                                             v \in {Y, Quoted(<<"2">>)}}}

-----------------------------------------------------------------------------
(* Control structures, two levels of them, around the statements of Simple.  *)

Simple == {Update("y", "M_PLUS_ASSING", X), Set("x", Minus(X, Lit(1))),
           Assignment(<<X, Y>>, <<Y>>), Assignment(<<At(L, Lit(2)), X>>, <<Y, Lit(8)>>),
           PutAt(L, Lit(0), Y),
           Do(FixOf("y", "M_INC", FALSE))}
Conds == {Bin("M_LT", X, Y), Bin("M_LT", Y, X), X}

\* A variable of the block's, which hides x, and what is done with it.
Shadow(st) == BlockOf(<<VarOf(<<"x", "t">>, <<Lit(9)>>), st, Update("y", "M_MINUS_ASSING", X)>>)

Inside(S) ==
  {Shadow(st) : st \in S}
  \cup {IfElse(cond, st, <<>>) : cond \in Conds, st \in S}
  \cup {IfElse(cond, Set("x", Lit(4)), <<st>>) : cond \in Conds, st \in S}
  \cup {ForDo("i", Lit(0), Bin("M_LT", NameOf("i"), Lit(2)), <<>>, st) : st \in S}
  \cup {ForDo("i", Y, Bin("M_GT", NameOf("i"), Lit(0)),
              <<Do(FixOf("i", "M_DEC", FALSE))>>, st) : st \in S}
  \cup {BlockOf(<<VarOf(<<"n">>, <<Lit(2)>>),
                  WhileDo(NameOf("n"),
                          BlockOf(<<st, Update("n", "M_MINUS_ASSING", Lit(1)),
                                    IfElse(Bin("M_LTE", NameOf("n"), Lit(0)),
                                           Set("n", Bin("M_LT", Y, Y)), <<>>)>>))>>) : st \in S}

\* A statement that an expression ends, and one that could go on with it.
Adjacent == {<<st, Do(FixOf(n, op, TRUE))>> :
               n \in {"x", "y"}, op \in {"M_INC", "M_DEC"},
               st \in Simple \cup {VarOf(<<"z">>, <<Minus(X, Neg(Y))>>),
                                  Update("x", "M_POW_ASSING", Y),
                                  ForDo("i", Lit(0), Bin("M_LT", NameOf("i"), Y),
                                        <<Do(FixOf("i", "M_INC", TRUE))>>,
                                        Do(FixOf("y", "M_DEC", TRUE))),
                                  IfElse(At(L, Y), Do(FixOf("x", "M_INC", TRUE)),
                                         <<Do(FixOf("y", "M_DEC", TRUE))>>)}}

Once == Inside(Simple)
ControlPrograms == {<<st, Update("x", "M_STAR_ASSING", Lit(10))>> : st \in Once \cup Inside(Once)}

\* Programs that the compiler rejects, or crashes at: for a name, a constant, a target
\* or, in the last two, for the registers, of which one or more are missing.
IfList(n) == IfElse(Items([k \in 1 .. n |-> X]), Set("x", Y), <<>>)
Rejected == {<<Set("u", X)>>, <<Const("k", X), Set("k", Y)>>,
             <<Const("k", X), Do(FixOf("k", "M_INC", TRUE))>>,
             <<Do([FixOf("x", "M_INC", TRUE) EXCEPT !.target = At(L, X)])>>,
             <<Assignment(<<X, At(L, Y)>>, <<Y>>)>>,
             <<[Update("l", "M_PLUS_ASSING", X) EXCEPT !.target = At(L, Y)]>>,
             <<BlockOf(<<VarOf(<<"u">>, <<X>>)>>), Set("x", NameOf("u"))>>,
             <<IfList(12)>>, <<IfList(17)>>}

\* Declarations and uses of names in every place that may see them or not, in code
\* that is run and in code that is not.
UName == NameOf("u")
Declarations == {VarOf(<<"u">>, <<X>>), Const("u", X), Const("x", Y),
                 VarOf(<<"u", "x">>, <<X, NameOf("u")>>),
                 [VarOf(<<"u", "x">>, <<Y>>) EXCEPT !.isConst = TRUE]}
Uses == {Set("u", Y), Set("y", UName), Set("x", Y), Do(FixOf("u", "M_INC", FALSE)),
         Update("x", "M_PLUS_ASSING", Y), PutAt(L, Lit(1), Minus(Lit(3), UName)),
         Assignment(<<Y, X>>, <<Items(<<FixOf("u", "M_INC", TRUE)>>)>>),
         Set("y", Entries(FALSE, <<EntryOf(Lit(1), FixOf("x", "M_INC", TRUE))>>))}
Within(st) == {BlockOf(<<st>>), IfElse(X, BlockOf(<<st>>), <<>>),
               IfElse(Bin("M_LT", X, X), BlockOf(<<st>>), <<>>),
               ForDo("u", Lit(0), Bin("M_LT", UName, Lit(2)), <<>>, BlockOf(<<st>>))}
Scoped == UNION {UNION {{<<d, u>>, <<BlockOf(<<d>>), u>>, <<BlockOf(<<d, u>>)>>,
                         <<IfElse(X, BlockOf(<<d>>), <<u>>)>>,
                         <<ForDo("u", Lit(3), Bin("M_GT", UName, Lit(0)),
                                 <<Do(FixOf("u", "M_DEC", TRUE))>>, BlockOf(<<d>>)), u>>}
                        \cup {<<d, w>> : w \in Within(u)}
                        \cup {<<d, BlockOf(<<e, u>>), v>> : e \in Declarations,
                                                          v \in {Set("u", Y), Set("x", Y)}} :
                        d \in Declarations} : u \in Uses}

\* What a program with x = v does with x.
With(v, body) == <<Set("x", v)>> \o body
One == Entries(FALSE, <<EntryOf(Y, Lit(1))>>)
Two(fixed) == Entries(fixed, <<EntryOf(Y, Y), EntryOf(Lit(1), L)>>)
Twice == Entries(TRUE, <<EntryOf(Y, Lit(1)), EntryOf(Y, L)>>)
Numbered(n) == Entries(FALSE, [k \in 1 .. n |-> EntryOf(Lit(k), Y)])

\* FNV-1a of this text and the constant of hash_combine sum up to 2^32.
Rannlarka == <<"r", "a", "n", "n", "l", "a", "r", "k", "a">>
MCZeroHash == {StringV(Rannlarka)}
Zero == Quoted(Rannlarka)

\* Programs that use a dictionary, one that reads from it what is there already: what is
\* read does not arrive.  Some have no entry, or no room for another.
Dicts == {With(One, <<PutAt(X, Y, L), PutAt(X, X, Y)>>),
          With(One, <<PutAt(X, Y, Y), Set("y", At(X, Y))>>),
          With(One, <<PutAt(X, Lit(1), L), PutAt(L, Lit(1), Y)>>),
          With(One, <<PutAt(X, Value(Nil), Y)>>),
          With(Entries(FALSE, <<EntryOf(Zero, L), EntryOf(Y, L)>>), <<>>),
          With(Entries(FALSE, <<EntryOf(Y, L), EntryOf(Zero, L)>>), <<PutAt(X, Y, Y)>>)}
         \cup {With(v, <<st>>) : v \in {Entries(FALSE, <<>>), Entries(TRUE, <<>>), Two(FALSE),
                                        Two(TRUE), Twice, Numbered(7)},
                                st \in {PutAt(X, Lit(1), Y), PutAt(X, Lit(9), L),
                                       PutAt(X, Quoted(<<"l">>), Y), PutAt(X, L, Y),
                                       Set("y", At(X, L))}}
         \cup {With(v, <<Set("y", At(X, k))>>) :
                 v \in {Entries(FALSE, <<>>), Entries(TRUE, <<>>), Two(TRUE)}, k \in {Lit(9), Y}}
         \cup {With(Twice, <<PutAt(X, Lit(1), Y), PutAt(X, Lit(3), Y)>>)}

\* Keys that are names, of which two may become the same, and one of a single letter.
Short == Entries(FALSE, <<EntryOf(KeyNamed(<<"k">>), Y)>>)
Keys == {With(Entries(FALSE, <<EntryOf(Named, Y), EntryOf(KeyNamed(<<"g", "a", "m", "e">>), L)>>),
              <<PutAt(X, Quoted(<<"a", "m">>), Y)>>),
         With(Entries(TRUE, <<EntryOf(KeyNamed(<<"a", "t">>), L)>>), <<PutAt(X, Quoted(<<>>), Y)>>),
         With(Short, <<>>), <<IfElse(Bin("M_LT", X, Y), Set("x", Short), <<Set("y", X)>>)>>}

\* Fixed lists, with room, without it and that never have any.
FixedLists == {With(Sized(<<v>>, items), body) :
                 v \in {Lit(3), Y, Lit(0), Neg(Lit(1))}, items \in {<<>>, <<Y>>, <<Y, L>>},
                 body \in {<<PutAt(X, Lit(0), Y)>>, <<PutAt(X, Lit(1), L)>>,
                          <<PutAt(X, Lit(0), Y), PutAt(X, Lit(0), L)>>,
                          <<Set("y", Bin("M_PLUS", X, L)), PutAt(Y, Lit(0), X)>>,
                          <<Set("y", Bin("M_STAR", X, Y))>>, <<Set("y", Bin("M_STAR", X, Lit(0)))>>,
                          <<Set("y", Bin("M_CONCAT", X, L)), PutAt(Y, Lit(0), Lit(0))>>}}

\* Programs that read a variable that was declared without a value, and whose
\* register no temporary had before.
Valueless == {<<VarOf(<<"z", "w", "v">>, some), st>> :
                some \in {<<>>, <<X>>},
                st \in {Set("x", NameOf("v")), Set("x", Bin("M_EQ", NameOf("v"), X)),
                       IfElse(NameOf("v"), Set("x", Y), <<Set("y", X)>>)}}

\* One with all sixteen registers in use.
Full == {<<IfList(11)>>}

MCPrograms == {Prelude \o p : p \in ExprPrograms \cup ControlPrograms \cup Adjacent
                                   \cup Rejected \cup Scoped \cup Dicts \cup Keys
                                   \cup FixedLists \cup Valueless \cup Full}

-----------------------------------------------------------------------------

\* for i = from, i < 4 { x = i }, from 0, y and y + 1.
ForPrograms == {Prelude \o <<ForDo("i", from, Bin("M_LT", NameOf("i"), Lit(4)), <<>>,
                                   Set("x", NameOf("i")))>> :
                  from \in {Lit(0), Y, Bin("M_PLUS", Y, Lit(1))}}

=============================================================================
