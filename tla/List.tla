-------------------------------- MODULE List --------------------------------
(***************************************************************************)
(* The lists of the VM: allocate_list, copy_list, resize_list,             *)
(* set_list_element and listvalue of src/src/vm/mobjects.c, as the opcodes *)
(* of src/src/vm/vm.c use them on registers.  A register holds a reference *)
(* to a list: two registers may share one, and an instruction may name the *)
(* same register as its target and its operand.                            *)
(*                                                                         *)
(* The elements are scalars.  An index or a number of times is an input of *)
(* the instruction, standing for the int its register holds.               *)
(***************************************************************************)
EXTENDS Integers, Sequences, SequencesExt

CONSTANTS Reg,          \* the registers of the frame
          Scalar,       \* the values that are not lists
          NaN,          \* what a fresh register and a bad read hold
          Positions,    \* the ints used as an index
          Times,        \* right operands of list * int; a negative one is as 0
          FixedSizes,   \* the ints used as n in fixed(n)[...]
          MinCapacity,  \* the capacity a small list grows to: 8 in the code
          MaxLists,     \* bound of the model on the lists ever allocated
          MaxLength     \* bound of the model on their length

ASSUME ScalarAssumption == NaN \notin Scalar
ASSUME NumbersAssumption ==
         /\ Positions \subseteq Int /\ Times \subseteq Nat /\ FixedSizes \subseteq Int
         /\ MinCapacity \in Nat \ {0} /\ MaxLists \in Nat /\ MaxLength \in Nat

VARIABLES lists,    \* the list objects, in order of allocation
          R,        \* frame->registers: a scalar, NaN, or a reference
          status

vars == <<lists, R, status>>

-----------------------------------------------------------------------------

\* A reference is the rank of its list; a tuple keeps it apart from a scalar.
Ref(l) == <<l>>
Refs == {Ref(l) : l \in DOMAIN lists}
HoldsList(r) == R[r] \in Refs
ListOf(r) == lists[R[r][1]]

EmptyList(n, f) == [values |-> <<>>, capacity |-> n, fixed |-> f]

\* Mutant: a list grows when it is already past its capacity.
NewCapacity_Late(l) ==
  IF Len(l.values) <= l.capacity THEN l.capacity
  ELSE IF l.capacity < MinCapacity THEN MinCapacity ELSE l.capacity * 2
\* resize_list as set_list_element calls it.
NewCapacity(l) ==
  IF Len(l.values) < l.capacity \/ l.fixed THEN l.capacity
  ELSE IF l.capacity < MinCapacity THEN MinCapacity ELSE l.capacity * 2

\* set_list_element at position 0.  When resize_list refuses, because the list
\* is fixed, the element is written and the length grows all the same.
Pushed(l, e) == [l EXCEPT !.values = Append(l.values, e), !.capacity = NewCapacity(l)]
PushedAll(l, s) ==
  LET pushed[i \in 0 .. Len(s)] == IF i = 0 THEN l ELSE Pushed(pushed[i - 1], s[i])
  IN  pushed[Len(s)]

\* cannotResizeList was raised by one of the pushes.
Refuses(l, s) == l.fixed /\ s # <<>> /\ Len(l.values) + Len(s) > l.capacity

\* The slot of an element: counted from 1, or from the end when negative.
InBounds(l, p) == p # 0 /\ p <= Len(l.values) /\ -p <= Len(l.values)
SlotOf(l, p) == IF p < 0 THEN Len(l.values) + p + 1 ELSE p

-----------------------------------------------------------------------------

Init == /\ lists = <<>>
        /\ R = [r \in Reg |-> NaN]
        /\ status = "running"

Running == status = "running"

\* After an instruction the loop of vm_run looks at vm->error.
Goes(refused) == status' = IF refused THEN "error" ELSE status

Fits(l) == Len(l.values) <= MaxLength

\* Mutant: the reference is taken before the list is linked in.
Build_OldHead(a, l, refused) ==
  /\ Len(lists) < MaxLists
  /\ Fits(l)
  /\ lists' = Append(lists, l)
  /\ R' = [R EXCEPT ![a] = Ref(Len(lists))]
  /\ Goes(refused)
\* A new list in register a: the last step of every instruction that builds one.
Build(a, l, refused) ==
  /\ Len(lists) < MaxLists
  /\ Fits(l)
  /\ lists' = Append(lists, l)
  /\ R' = [R EXCEPT ![a] = Ref(Len(lists) + 1)]
  /\ Goes(refused)

LoadK(a, s) == /\ Running
               /\ R' = [R EXCEPT ![a] = s]
               /\ UNCHANGED <<lists, status>>

Move(a, b) == /\ Running
              /\ R' = [R EXCEPT ![a] = R[b]]
              /\ UNCHANGED <<lists, status>>

\* Only fixed(n)[...] states a capacity; [...] starts with none.
CreateList(a) == Running /\ Build(a, EmptyList(0, FALSE), FALSE)
CreateFixed(a, n) == Running /\ Build(a, EmptyList(n, TRUE), FALSE)

\* OP_PUSH_LIST: all the elements, even after one was refused.
Push(a, s) == /\ Running
              /\ HoldsList(a)
              /\ Fits(PushedAll(ListOf(a), s))
              /\ lists' = [lists EXCEPT ![R[a][1]] = PushedAll(@, s)]
              /\ Goes(Refuses(ListOf(a), s))
              /\ UNCHANGED R

\* OP_SET_INDEX: position 0 appends.
SetIndex(a, p, c) ==
  /\ Running
  /\ HoldsList(a)
  /\ R[c] \in Scalar
  /\ \/ /\ InBounds(ListOf(a), p)
        /\ lists' = [lists EXCEPT ![R[a][1]].values[SlotOf(ListOf(a), p)] = R[c]]
        /\ UNCHANGED status
     \/ /\ p # 0
        /\ ~InBounds(ListOf(a), p)
        /\ status' = "error"
        /\ UNCHANGED lists
     \/ /\ p = 0
        /\ Fits(Pushed(ListOf(a), R[c]))
        /\ lists' = [lists EXCEPT ![R[a][1]] = Pushed(@, R[c])]
        /\ Goes(Refuses(ListOf(a), <<R[c]>>))
  /\ UNCHANGED R

\* OP_GET_INDEX: a position out of bounds reads as NaN.
GetIndex(a, b, p) ==
  /\ Running
  /\ HoldsList(b)
  /\ R' = [R EXCEPT ![a] = IF InBounds(ListOf(b), p)
                             THEN ListOf(b).values[SlotOf(ListOf(b), p)]
                             ELSE NaN]
  /\ UNCHANGED <<lists, status>>

\* Mutant: the list itself is extended, not a copy of it.
Add_InPlace(a, b, c) ==
  /\ Running
  /\ HoldsList(b)
  /\ R[c] \in Scalar
  /\ Fits(Pushed(ListOf(b), R[c]))
  /\ lists' = [lists EXCEPT ![R[b][1]] = Pushed(@, R[c])]
  /\ R' = [R EXCEPT ![a] = R[b]]
  /\ Goes(Refuses(ListOf(b), <<R[c]>>))
\* OP_ADD: a copy, with its capacity and its fixed flag, and one more element.
\* R[a] is assigned before R[c] is read: when they are one register the element
\* is the new list.
Add(a, b, c) ==
  /\ Running
  /\ HoldsList(b)
  /\ R[c] \in Scalar
  /\ LET e == IF a = c THEN Ref(Len(lists) + 1) ELSE R[c]
     IN  Build(a, Pushed(ListOf(b), e), Refuses(ListOf(b), <<e>>))

\* OP_MUL: a copy, and the elements n more times.  An operand that is not an int
\* raises typeError, but the copying goes on with whatever n its bits make.
Mul(a, b, n, isInt) ==
  /\ Running
  /\ HoldsList(b)
  /\ LET v == ListOf(b).values
         s == [i \in 1 .. n * Len(v) |-> v[((i - 1) % Len(v)) + 1]]
     IN  Build(a, PushedAll(ListOf(b), s), ~isInt \/ Refuses(ListOf(b), s))

\* OP_CONCAT: a new list is assigned to R[a] before the operands are read, so an
\* operand in register a is the new list: empty if it is the left one; if it is
\* the right one, what the left one has given, growing as it is copied.
Concat(a, b, c) ==
  /\ Running
  /\ HoldsList(b) /\ HoldsList(c)
  /\ LET left == IF b = a THEN <<>> ELSE ListOf(b).values
         right == IF c = a THEN <<>> ELSE ListOf(c).values
         n == Len(ListOf(b).values) + Len(ListOf(c).values)
     IN  IF c = a /\ left # <<>>
           THEN status' = "endless" /\ UNCHANGED <<lists, R>>
           ELSE Build(a, PushedAll(EmptyList(n, FALSE), left \o right), FALSE)

\* OP_PUSH_LIST, OP_SET_INDEX and OP_GET_INDEX on a register that holds no list
\* (and no dictionary), or with an index that is no int.
TypeFails == /\ Running
             /\ status' = "error"
             /\ UNCHANGED <<lists, R>>

Stopped == ~Running /\ UNCHANGED vars

Next == \/ \E a \in Reg : \/ \E s \in Scalar : LoadK(a, s)
                          \/ CreateList(a)
                          \/ \E n \in FixedSizes : CreateFixed(a, n)
                          \/ \E s \in SeqOf(Scalar, 2) : Push(a, s)
        \/ \E a, b \in Reg : \/ Move(a, b)
                             \/ \E p \in Positions : SetIndex(a, p, b)
                             \/ \E p \in Positions : GetIndex(a, b, p)
                             \/ \E n \in Times, isInt \in BOOLEAN : Mul(a, b, n, isInt)
        \/ \E a, b, c \in Reg : Add(a, b, c) \/ Concat(a, b, c)
        \/ TypeFails
        \/ Stopped

Spec == Init /\ [][Next]_vars

-----------------------------------------------------------------------------

\* The types of the lists and of the registers: no dangling reference.
TypeOK ==
  /\ lists \in Seq([values : Seq(Scalar \cup Refs), capacity : Int, fixed : BOOLEAN])
  /\ R \in [Reg -> Scalar \cup {NaN} \cup Refs]
  /\ status \in {"running", "error", "endless"}

\* set_list_element writes at values[length] without a look at the capacity: the
\* slot is there in every list that may grow, also after a copy and after a
\* concatenation of exact capacity.  Past the end of a fixed list it writes, but
\* never without the error that ends the program.
CapacityCovers ==
  \A l \in DOMAIN lists :
    \/ Len(lists[l].values) <= lists[l].capacity
    \/ lists[l].values = <<>>
    \/ lists[l].fixed /\ status = "error"

\* Lists are shared by reference, so who may change one matters: +, * and <>
\* work on copies, and a list that exists changes only in place, by an
\* instruction that leaves every register as it was.
OperandsKept ==
  [][\A l \in DOMAIN lists :
       lists'[l] # lists[l] => R' = R /\ Ref(l) \in {R[r] : r \in Reg}]_vars

\* R(A) = R(B) <> R(C), codegen.h:27, on lists, whatever the registers are:
\* x = x <> y is compiled with A = B, x = y <> x with A = C.
ConcatContract ==
  [][\A a, b, c \in Reg :
       Concat(a, b, c) =>
         /\ status' = "running"
         /\ lists'[R'[a][1]].values = ListOf(b).values \o ListOf(c).values]_vars

=============================================================================
