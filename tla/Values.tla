------------------------------- MODULE Values -------------------------------
(***************************************************************************)
(* The values of src/src/vm/mobjects.h that programs compute with, and what  *)
(* the operators of vm_run in src/src/vm/vm.c make of them.  A value is a    *)
(* tagged tuple, as a Value is a tagged union; a float is a fraction in      *)
(* lowest terms, exact where a double would be rounded; a text is the        *)
(* sequence of its characters.  Interned strings are equal exactly when      *)
(* their texts are (module InternTable).                                     *)
(***************************************************************************)
EXTENDS Integers, SequencesExt

CONSTANT ZeroHash               \* the values whose hash_rvalue is 0

NaN == <<"nan">>
Nil == <<"nil">>
IntV(n) == <<"int", n>>
BoolV(b) == <<"bool", b>>
StringV(text) == <<"string", text>>
RefV(k) == <<"obj", k>>         \* the k-th list or dictionary of the heap

AbsI(x) == IF x < 0 THEN -x ELSE x
GCD[m, n \in Nat] == IF n = 0 THEN m ELSE GCD[n, m % n]
FloatV(n, d) ==
  LET g == GCD[AbsI(n), AbsI(d)]
  IN <<"float", IF d < 0 THEN <<-(n \div g), -(d \div g)>> ELSE <<n \div g, d \div g>>>>

\* vm_runtime_raise was called instead of giving a result.
Fault == <<"fault">>

\* The constant of a string whose length is (size_t) -1.
Endless == <<"endless">>

IsInt(v) == v[1] = "int"
IsString(v) == v[1] = "string"
IsNumber(v) == v[1] \in {"int", "float"}
IsRef(v) == v[1] = "obj"
IsFalse(v) == v \in {NaN, Nil, BoolV(FALSE)}

\* A number as a fraction.
Top(x) == IF IsInt(x) THEN x[2] ELSE x[2][1]
Bottom(x) == IF IsInt(x) THEN 1 ELSE x[2][2]

-----------------------------------------------------------------------------
(* Texts of numbers.  No text of the runs has blanks or an exponent.         *)

Ascii == <<"+", "-", ".", "0", "1", "2", "3", "4", "5", "6", "7", "8", "9", "<object>",
           "a", "e", "f", "g", "k", "l", "m", "n", "r", "s", "t", "u">>
Rank(char) == CHOOSE k \in DOMAIN Ascii : Ascii[k] = char
DigitChar(n) == Ascii[n + 4]
IsDigit(char) == Rank(char) \in 4 .. 13

Natural[digits \in Seq(STRING)] ==
  IF digits = <<>> THEN 0 ELSE 10 * Natural[Front(digits)] + Rank(Last(digits)) - 4

Digits[n \in Nat] == (IF n < 10 THEN <<>> ELSE Digits[n \div 10]) \o <<DigitChar(n % 10)>>
\* Of n / d, which is less than 1.
Decimals[n, d \in Nat] == IF n = 0 THEN <<>>
                         ELSE <<DigitChar((10 * n) \div d)>> \o Decimals[(10 * n) % d, d]

HasSign(s) == s # <<>> /\ s[1] \in {"+", "-"}
\* The whole text must be read, as a float if there is a point in it.
try_parse_string_number(s) ==
  LET u == IF HasSign(s) THEN Tail(s) ELSE s
      points == {k \in DOMAIN u : u[k] = "."}
      digits == SelectSeq(u, LAMBDA char : char # ".")
      n == (IF HasSign(s) /\ s[1] = "-" THEN -1 ELSE 1) * Natural[digits]
  IN IF digits = <<>> \/ Cardinality(points) > 1 \/ \E k \in DOMAIN digits : ~IsDigit(digits[k])
     THEN Fault
     ELSE IF points = {} THEN IntV(n) ELSE FloatV(n, 10 ^ (Len(u) - Min(points)))

can_coerce_to_number(v) == IF IsNumber(v) THEN v
                           ELSE IF IsString(v) THEN try_parse_string_number(v[2])
                           ELSE Fault

Sign(n) == IF n < 0 THEN <<"-">> ELSE <<>>
FloatText(n, d) == Digits[n \div d] \o <<".">>
                   \o (IF n % d = 0 THEN <<"0">> ELSE Decimals[n % d, d])

\* Whatever the address of an object is, it is one character here.
HasText(v) == v \notin {NaN, Nil}
value_to_string(v) ==
  CASE IsInt(v) -> Sign(v[2]) \o Digits[AbsI(v[2])]
    [] v[1] = "float" -> Sign(Top(v)) \o FloatText(AbsI(Top(v)), Bottom(v))
    [] v[1] = "bool" -> IF v[2] THEN <<"t", "r", "u", "e">> ELSE <<"f", "a", "l", "s", "e">>
    [] IsString(v) -> v[2]
    [] IsRef(v) -> <<"<object>">>

-----------------------------------------------------------------------------
(* Arithmetic, on numbers and on texts that are numbers: two ints give an    *)
(* int, anything else a float.                                               *)

\* floor(x / y), the int part of x / y, and fmod(x, y), which has the sign of x.
FloorDiv(x, y) == IF y > 0 THEN x \div y ELSE (-x) \div (-y)
Truncated(x, y) == IF (x < 0) = (y < 0) THEN AbsI(x) \div AbsI(y) ELSE -(AbsI(x) \div AbsI(y))
FMod(x, y) == IF x < 0 THEN -(AbsI(x) % AbsI(y)) ELSE x % AbsI(y)

\* No program of the runs raises to a power that is no integer, nor 0 to a negative
\* one, whose int C leaves undefined.
Power(x, d, y) == IF y < 0 THEN <<d ^ (-y), x ^ (-y)>> ELSE <<x ^ y, d ^ y>>

\* What x / d and y / d give, as a fraction.  FloorDiv is that of the fast path of
\* OP_IDIV; its slow path divides two ints before it takes the floor.
Calculate(op, x, y, d, slow) == CASE op = "ADD"  -> <<x + y, d>>
                                  [] op = "SUB"  -> <<x - y, d>>
                                  [] op = "MUL"  -> <<x * y, d * d>>
                                  [] op = "DIV"  -> <<x, y>>
                                  [] op = "IDIV" -> <<IF slow THEN Truncated(x, y)
                                                      ELSE FloorDiv(x, y), 1>>
                                  [] op = "MOD"  -> <<FMod(x, y), d>>
                                  [] op = "POW"  -> Power(x, d, y \div d)

Number(isInt, f) == IF isInt THEN IntV(Truncated(f[1], f[2])) ELSE FloatV(f[1], f[2])

\* Of two numbers; text: one of them was a text.
OnNumbers(op, v, w, text) ==
  LET ints == IsInt(v) /\ IsInt(w)
  IN IF op \in {"DIV", "IDIV", "MOD"} /\ Top(w) = 0 THEN Fault
     ELSE Number(ints /\ op # "DIV", Calculate(op, Top(v) * Bottom(w), Top(w) * Bottom(v),
                                              Bottom(v) * Bottom(w), ints /\ text))

Coerced(op, v, w, text) == IF v = Fault \/ w = Fault THEN Fault ELSE OnNumbers(op, v, w, text)

Arithmetic(op, v, w) == Coerced(op, can_coerce_to_number(v), can_coerce_to_number(w),
                                IsString(v) \/ IsString(w))

Negative(x) == IF x = Fault THEN Fault ELSE Number(IsInt(x), <<-Top(x), Bottom(x)>>)
Unm(v) == Negative(can_coerce_to_number(v))

-----------------------------------------------------------------------------
(* The other operators.  No text is converted, and an int is no float.       *)

m_strcmp(s, t) ==
  LET differ == {k \in DOMAIN s \cap DOMAIN t : s[k] # t[k]}
  IN IF differ = {} THEN Len(s) - Len(t) ELSE Rank(s[Min(differ)]) - Rank(t[Min(differ)])

\* Negative when v is less than w.
Difference(v, w) == IF IsString(v) THEN m_strcmp(v[2], w[2])
                    ELSE Top(v) * Bottom(w) - Top(w) * Bottom(v)
Holds(op, difference) == CASE op = "LT"  -> difference < 0
                           [] op = "LTE" -> difference <= 0
                           [] op = "GT"  -> difference > 0
                           [] op = "GTE" -> difference >= 0
\* No program of the runs orders a string and a list, whose memory would be read as a
\* string's.
Order(op, v, w) == IF v[1] = w[1] /\ (IsNumber(v) \/ IsString(v))
                   THEN BoolV(Holds(op, Difference(v, w))) ELSE Fault

\* OP_EQ: a list or a dictionary on the left of another object is an error.
ttype(v) == IF IsString(v) THEN "obj" ELSE v[1]
Eq(v, w) == IF ttype(v) # ttype(w) THEN BoolV(FALSE)
            ELSE IF IsRef(v) THEN Fault
            ELSE BoolV(v = w)
Neq(v, w) == IF ttype(v) # ttype(w) THEN BoolV(TRUE)
             ELSE IF IsRef(v) THEN Fault
             ELSE BoolV(v # w)

Or(v, w)  == IF IsFalse(v) THEN w ELSE v
And(v, w) == IF IsFalse(v) THEN v ELSE w
Not(v) == BoolV(IsFalse(v))

\* Of operands that are no lists.
Concat(v, w) == IF HasText(v) /\ HasText(w)
                THEN StringV(value_to_string(v) \o value_to_string(w)) ELSE Fault

ArithmeticOps == {"ADD", "SUB", "MUL", "DIV", "IDIV", "MOD", "POW"}
OrderOps == {"LT", "LTE", "GT", "GTE"}
BinaryOps == ArithmeticOps \cup OrderOps \cup {"EQ", "NEQ", "OR", "AND", "CONCAT"}

Binary(op, v, w) == CASE op \in ArithmeticOps -> Arithmetic(op, v, w)
                      [] op \in OrderOps -> Order(op, v, w)
                      [] op = "EQ" -> Eq(v, w)
                      [] op = "NEQ" -> Neq(v, w)
                      [] op = "OR" -> Or(v, w)
                      [] op = "AND" -> And(v, w)
                      [] op = "CONCAT" -> Concat(v, w)
Unary(op, v) == IF op = "NOT" THEN Not(v) ELSE Unm(v)

-----------------------------------------------------------------------------
(* Objects: a list is a sequence of values, a dictionary a function from its *)
(* keys, which module Dict shows its table to be, but for the keys whose     *)
(* hash is 0.  Of the storage they keep what decides whether a store or a    *)
(* probe succeeds.                                                           *)

NewList(capacity, fixed) ==
  [kind |-> "list", at |-> <<>>, capacity |-> capacity, fixed |-> fixed]
NewDict(capacity, fixed) ==
  [kind |-> "dict", at |-> <<>>, capacity |-> capacity, fixed |-> fixed, count |-> 0]

Growth(capacity) == IF capacity < 8 THEN 8 ELSE 2 * capacity
\* The capacity when there are n elements.
Grown[capacity \in Int, n \in Nat] == IF n <= capacity THEN capacity
                                      ELSE Grown[Growth(capacity), n]

\* listvalue: position 1 is the first, -1 the last, any other is NaN.
ListAt(s, p) == LET k == IF p < 0 THEN Len(s) + p + 1 ELSE p
                IN IF k \in DOMAIN s THEN s[k] ELSE NaN

\* set_list_element at position 0, once for each element of s.
HasRoom(list, s) == list.fixed /\ s # <<>> => Len(list.at) + Len(s) <= list.capacity
Lengthened(list, s) ==
  [list EXCEPT !.at = @ \o s,
               !.capacity = IF list.fixed THEN @ ELSE Grown[@, Len(list.at) + Len(s)]]

\* An element past the end of a fixed list is an error, and is written there all the same.
Overrun == "overrun"

\* How find_entry ends: it divides by the capacity, and stops at the key or a free entry.
Probed(dict, key) ==
  IF dict.capacity = 0 THEN "crash"
  ELSE IF key \notin DOMAIN dict.at /\ Cardinality(DOMAIN dict.at) = dict.capacity THEN "spin"
  ELSE "running"

\* A dictionary grows, unless it is fixed, for the key that would fill more than three
\* quarters of it.  resize_dict leaves behind the keys whose hash is 0.
Grows(dict, key) == /\ key \notin DOMAIN dict.at
                    /\ ~dict.fixed
                    /\ 4 * (dict.count + 1) > 3 * dict.capacity
KeysKept(dict, key) == IF Grows(dict, key) THEN DOMAIN dict.at \ ZeroHash ELSE DOMAIN dict.at
Entered(dict, key, v) ==
  [dict EXCEPT !.at = [k \in KeysKept(dict, key) \cup {key} |-> IF k = key THEN v ELSE @[k]],
               !.count = IF key \in DOMAIN dict.at THEN @ ELSE @ + 1,
               !.capacity = IF Grows(dict, key) THEN Growth(@) ELSE @]

\* set_list_element and set_dict_key_value: how obj[key] = v ends, and the object after
\* it when no error is raised.
SetInList(list, key) == IF ~IsInt(key) \/ AbsI(key[2]) > Len(list.at) THEN "error"
                        ELSE IF key[2] = 0 /\ ~HasRoom(list, <<key>>) THEN Overrun
                        ELSE "running"
SetInDict(dict, key) ==
  IF key \in {NaN, Nil} \/ IsRef(key) THEN "error"
  ELSE IF Probed(dict, key) # "running" THEN Probed(dict, key)
  ELSE IF key \notin DOMAIN dict.at /\ dict.fixed /\ dict.count >= dict.capacity THEN "error"
  ELSE "running"
SetEnds(obj, key) == IF obj.kind = "list" THEN SetInList(obj, key) ELSE SetInDict(obj, key)

SetAt(obj, key, v) ==
  IF obj.kind = "dict" THEN Entered(obj, key, v)
  ELSE IF key[2] = 0 THEN Lengthened(obj, <<v>>)
  ELSE [obj EXCEPT !.at[IF key[2] < 0 THEN Len(obj.at) + key[2] + 1 ELSE key[2]] = v]

\* get_dict_value: a list or a dictionary has no hash.
GetEnds(dict, key) == IF Probed(dict, key) # "running" THEN Probed(dict, key)
                      ELSE IF IsRef(key) THEN "error" ELSE "running"

=============================================================================
