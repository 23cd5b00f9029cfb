------------------------------- MODULE Meaning -------------------------------
(***************************************************************************)
(* What a program means, without registers, instructions or jumps: the     *)
(* reference that compiled programs are compared with.  Operands are       *)
(* evaluated from left to right, a name stands for the innermost variable  *)
(* of that name, and the variables of a block, and of a for, end with it.  *)
(* The syntax tree is that of module Compiler, the operators are those of  *)
(* module Values.  An object has room for all that is put into it, unless  *)
(* it is fixed or a dictionary written without entries; what happens where *)
(* there is no room is what the implementation makes of it, which no text  *)
(* of the repository approves of.                                          *)
(***************************************************************************)
EXTENDS Values, SequencesExt, FiniteSetsExt

\* env: the variables, innermost last; v: the value of the last expression; end: "" or
\* how the program ended: "error", "crash" (the process dies), "spin" (it never ends) or
\* "overrun" (an error, unless the process dies before it is reported).
Start == [env |-> <<>>, heap |-> <<>>, end |-> "", v |-> NaN]

Stops(m, how) == [m EXCEPT !.end = how]
Gives(m, v) == IF v = Fault THEN Stops(m, "error") ELSE [m EXCEPT !.v = v]
Creates(m, obj) == [m EXCEPT !.heap = Append(@, obj), !.v = RefV(Len(m.heap) + 1)]

\* room: the most elements it can have, if there is such a number.
ListOf(s) == [kind |-> "list", at |-> s, room |-> {}]
IsFull(obj, n) == \E most \in obj.room : Len(obj.at) + n > most
NoRoom(obj) == IF \E most \in obj.room : most <= 0 THEN "crash" ELSE "overrun"

Bound(m, name) == Max({k \in DOMAIN m.env : m.env[k].name = name})
Read(m, name) == m.env[Bound(m, name)].value
Write(m, name, v) == [m EXCEPT !.env[Bound(m, name)].value = v]
Bind(m, name, v) == [m EXCEPT !.env = Append(@, [name |-> name, value |-> v])]
\* After a scope that began in m.
Leave(m, end) == [end EXCEPT !.env = SubSeq(@, 1, Len(m.env))]

IsList(m, v) == IsRef(v) /\ m.heap[v[2]].kind = "list"

\* What an operator calculates, also when it changes its first operand.
Calculates(op) == CASE op \in {"M_PLUS", "M_INC", "M_PLUS_ASSING"} -> "ADD"
                    [] op \in {"M_MINUS", "M_DEC", "M_MINUS_ASSING"} -> "SUB"
                    [] op \in {"M_STAR", "M_STAR_ASSING"} -> "MUL"
                    [] op \in {"M_SLASH", "M_SLASH_ASSING"} -> "DIV"
                    [] op \in {"M_CONCAT", "M_CONCAT_ASSING"} -> "CONCAT"
                    [] op \in {"M_FLOOR_DIV", "M_FLOOR_DIV_ASSING"} -> "IDIV"
                    [] op \in {"M_MOD", "M_MOD_ASSING"} -> "MOD"
                    [] op \in {"M_POW", "M_POW_ASSING"} -> "POW"
                    [] op = "M_LT" -> "LT" [] op = "M_LTE" -> "LTE"
                    [] op = "M_GT" -> "GT" [] op = "M_GTE" -> "GTE"
                    [] op = "M_EQ" -> "EQ" [] op = "M_NEQ" -> "NEQ"
                    [] op = "M_OR" -> "OR" [] op = "M_AND" -> "AND"

\* A text that is a number counts as that number, whatever is calculated.
Known(x, v) == IF x = Fault THEN v ELSE x
Operand(op, v) == IF op \in ArithmeticOps THEN Known(can_coerce_to_number(v), v) ELSE v

Concatenates(m, v, w) ==
  IF IsList(m, v) /\ IsList(m, w)
  THEN Creates(m, ListOf(m.heap[v[2]].at \o m.heap[w[2]].at))
  ELSE Gives(m, IF (IsList(m, v) \/ IsList(m, w)) /\ ~IsString(v) /\ ~IsString(w)
                THEN Fault ELSE Concat(v, w))

\* A list like obj that goes on with s.
Continues(m, obj, s) == IF s # <<>> /\ IsFull(obj, Len(s)) THEN Stops(m, NoRoom(obj))
                        ELSE Creates(m, [obj EXCEPT !.at = @ \o s])

Results(m, op, v, w) ==
  IF op = "CONCAT" THEN Concatenates(m, v, w)
  ELSE IF op = "ADD" /\ IsList(m, v) THEN Continues(m, m.heap[v[2]], <<w>>)
  ELSE IF op = "MUL" /\ IsList(m, v)
  THEN IF ~IsInt(w) THEN Stops(m, "overrun")
       ELSE Continues(m, m.heap[v[2]], FlattenSeq([k \in 1 .. w[2] |-> m.heap[v[2]].at]))
  ELSE Gives(m, Binary(op, Operand(op, v), Operand(op, w)))
Applies(m, op, v, w) == Results(m, Calculates(op), v, w)

\* Why a dictionary cannot be asked for the key, if it cannot.
Refuses(dict, key) ==
  IF 0 \in dict.room THEN "crash"
  ELSE IF key \notin DOMAIN dict.at /\ Cardinality(DOMAIN dict.at) \in dict.room THEN "spin"
  ELSE ""

Element(m, coll, key) ==
  IF IsList(m, coll) /\ IsInt(key) THEN Gives(m, ListAt(m.heap[coll[2]].at, key[2]))
  ELSE IF ~IsRef(coll) \/ IsList(m, coll) THEN Gives(m, Fault)
  ELSE LET dict == m.heap[coll[2]]
       IN IF Refuses(dict, key) # "" THEN Stops(m, Refuses(dict, key))
          ELSE Gives(m, IF IsRef(key) THEN Fault
                        ELSE IF key \in DOMAIN dict.at THEN dict.at[key] ELSE NaN)

PutsInList(m, k, key, v) ==
  LET list == m.heap[k]
      place == IF key[2] < 0 THEN Len(list.at) + key[2] + 1 ELSE key[2]
  IN IF ~IsInt(key) \/ AbsI(key[2]) > Len(list.at) THEN Stops(m, "error")
     ELSE IF key[2] # 0 THEN [m EXCEPT !.heap[k].at[place] = v]
     ELSE IF IsFull(list, 1) THEN Stops(m, NoRoom(list))
     ELSE [m EXCEPT !.heap[k].at = Append(@, v)]

PutsInDict(m, k, key, v) ==
  IF key \in {NaN, Nil} \/ IsRef(key) THEN Stops(m, "error")
  ELSE IF Refuses(m.heap[k], key) # "" THEN Stops(m, Refuses(m.heap[k], key))
  ELSE [m EXCEPT !.heap[k].at = (key :> v) @@ @]

Puts(m, coll, key, v) == IF ~IsRef(coll) THEN Stops(m, "error")
                         ELSE IF IsList(m, coll) THEN PutsInList(m, coll[2], key, v)
                         ELSE PutsInDict(m, coll[2], key, v)

-----------------------------------------------------------------------------

RECURSIVE Eval(_, _)

\* What is between the quotes.  A name that is a key has no quotes, but loses two letters
\* all the same, or dies of it.
Literal(m, value) ==
  IF value[1] = "key" /\ Len(value[2]) = 1 THEN Stops(m, "crash")
  ELSE Gives(m, IF value[1] \in {"text", "key"}
                THEN StringV(SubSeq(value[2], 2, Len(value[2]) - 1)) ELSE value)

EvalAll(m, exprs) ==
  FoldLeft(LAMBDA p, expr : LET q == Eval(p.m, expr) IN [m |-> q, items |-> Append(p.items, q.v)],
           [m |-> m, items |-> <<>>], exprs)

EvalItems(m, items, room) ==
  LET all == EvalAll(m, items)
      list == [ListOf(<<>>) EXCEPT !.room = room]
  IN IF all.m.end # "" THEN all.m ELSE Continues(all.m, list, all.items)

EvalList(m, expr) ==
  LET n == IF expr.capacity = <<>> THEN m ELSE Eval(m, expr.capacity[1])
  IN IF n.end # "" \/ expr.capacity = <<>> THEN EvalItems(n, expr.items, {})
     ELSE IF ~IsInt(n.v) THEN Stops(n, "error")
     ELSE EvalItems(n, expr.items, {n.v[2]})

EvalDict(m, expr) ==
  LET size == Len(expr.entries)
      n == Creates(m, [kind |-> "dict", at |-> <<>>,
                       room |-> IF expr.fixed \/ size = 0 THEN {size} ELSE {}])
      Next(p, entry) == LET k == Eval(p, entry.key)
                            v == Eval(k, entry.value)
                        IN IF v.end # "" THEN v ELSE Puts(v, n.v, k.v, v.v)
  IN Gives(FoldLeft(Next, n, expr.entries), n.v)

Eval(m, expr) ==
  IF m.end # "" THEN m
  ELSE CASE expr.e = "lit" -> Literal(m, expr.value)
         [] expr.e = "name" -> Gives(m, Read(m, expr.name))
         [] expr.e = "bin" -> LET v == Eval(m, expr.left)
                                  w == Eval(v, expr.right)
                              IN IF w.end # "" THEN w ELSE Applies(w, expr.op, v.v, w.v)
         [] expr.e = "index" -> LET v == Eval(m, expr.left)
                                    w == Eval(v, expr.right)
                                IN IF w.end # "" THEN w ELSE Element(w, v.v, w.v)
         [] expr.e = "un" -> LET v == Eval(m, expr.right)
                                 op == IF expr.op = "M_NOT" THEN "NOT" ELSE "UNM"
                             IN IF v.end # "" THEN v ELSE Gives(v, Unary(op, v.v))
         [] expr.e = "fix" -> LET old == Read(m, expr.target.name)
                                  n == Applies(m, expr.op, old, IntV(1))
                              IN IF n.end # "" THEN n
                                 ELSE Gives(Write(n, expr.target.name, n.v),
                                            IF expr.pre THEN n.v ELSE old)
         [] expr.e = "list" -> EvalList(m, expr)
         [] expr.e = "dict" -> EvalDict(m, expr)

-----------------------------------------------------------------------------

RECURSIVE Exec(_, _), Loop(_, _, _, _)

\* Values that are missing are NaN, and those to spare are not evaluated.
Value(m, values, k) == IF k \in DOMAIN values THEN Eval(m, values[k]) ELSE Gives(m, NaN)

AssignTo(m, target, values, k) ==
  IF target.e = "name"
  THEN LET v == Value(m, values, k) IN Write(v, target.name, v.v)
  ELSE LET coll == Eval(m, target.left)
           key == Eval(coll, target.right)
           v == Eval(key, values[k])
       IN IF v.end # "" THEN v ELSE Puts(v, coll.v, key.v, v.v)

ExecAll(m, body) == FoldLeft(LAMBDA n, st : Exec(n, st), m, body)

Loop(m, cond, body, step) ==
  LET n == Eval(m, cond)
  IN IF n.end # "" \/ IsFalse(n.v) THEN n
     ELSE Loop(ExecAll(Exec(n, body), step), cond, body, step)

\* Without a step, a for adds 1 to its variable.
StepOf(st) == IF st.step # <<>> THEN st.step
              ELSE <<[s |-> "expr", expr |-> [e |-> "fix", op |-> "M_INC", pre |-> TRUE,
                                         target |-> [e |-> "name",
                                                     name |-> st.from.names[1]]]]>>

Exec(m, st) ==
  IF m.end # "" THEN m
  ELSE CASE st.s = "var" ->
              FoldLeftDomain(LAMBDA n, k : LET v == Value(n, st.values, k)
                                           IN Bind(v, st.names[k], v.v), m, st.names)
         [] st.s = "assign" ->
              FoldLeftDomain(LAMBDA n, k : AssignTo(n, st.targets[k], st.values, k),
                             m, st.targets)
         [] st.s = "compound" ->
              LET v == Eval(m, st.value)
                  n == IF v.end # "" THEN v
                       ELSE Applies(v, st.op, Read(v, st.target.name), v.v)
              IN IF n.end # "" THEN n ELSE Write(n, st.target.name, n.v)
         [] st.s = "expr" -> Eval(m, st.expr)
         [] st.s = "block" -> Leave(m, ExecAll(m, st.body))
         [] st.s = "if" -> LET n == Eval(m, st.cond)
                           IN IF n.end # "" THEN n
                              ELSE IF IsFalse(n.v) THEN ExecAll(n, st.else)
                              ELSE Exec(n, st.then)
         [] st.s = "while" -> Loop(m, st.cond, st.loop, <<>>)
         [] st.s = "for" -> LET n == Exec(m, st.from)
                            IN Leave(m, Loop(n, st.to, st.loop, StepOf(st)))

\* What a program ends with: its outermost variables, or how it stopped.
MeaningOf(program) == ExecAll(Start, program)

\* w of this heap is v of another, the implementation's, with the objects that they refer
\* to.  A dictionary of the other may have lost keys, if they hash to 0.
RECURSIVE Same(_, _, _, _)
Same(heap, v, other, w) ==
  IF ~IsRef(v) \/ ~IsRef(w) THEN v = w
  ELSE LET obj == heap[v[2]]
           is == other[w[2]]
       IN /\ obj.kind = is.kind
          /\ DOMAIN is.at \subseteq DOMAIN obj.at
          /\ \A k \in DOMAIN obj.at \ DOMAIN is.at : obj.kind = "dict" /\ k \in ZeroHash
          /\ \A k \in DOMAIN is.at : Same(heap, obj.at[k], other, is.at[k])

=============================================================================
