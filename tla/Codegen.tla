------------------------------- MODULE Codegen -------------------------------
(***************************************************************************)
(* src/src/backend/codegen.c: each instruction of the compiler's IR becomes  *)
(* one word, in order, and a jump to an instruction becomes a jump by a      *)
(* number of words.  A word has the fields of src/include/mconfig.h: 8 bits  *)
(* for A and 18 for Bx, which C (the low 9) and B (the high 9) share.        *)
(***************************************************************************)
EXTENDS Integers, Sequences

\* Sign-extension of a field of w values.
Signed(n, w) == IF n % w < w \div 2 THEN n % w ELSE (n % w) - w

MAX_sBx == (2 ^ 18 - 1) \div 2

Word(op, a, bx) == [op |-> op, a |-> a % (2 ^ 8), bx |-> bx % (2 ^ 18)]
CREATE_ABC(op, a, b, c) == Word(op, a, (b % (2 ^ 9)) * 2 ^ 9 + (c % (2 ^ 9)))
CREATE_ABx(op, a, bx) == Word(op, a, bx)
CREATE_AsBx(op, a, sbx) == Word(op, a, sbx + MAX_sBx)

\* The fields as vm_run reads them, each into a variable of its own width.
GET_A(w) == w.a
GET_B(w) == (w.bx \div 2 ^ 9) % (2 ^ 8)
GET_C(w) == (w.bx % (2 ^ 9)) % (2 ^ 8)
GET_Bx(w) == w.bx % (2 ^ 16)
GET_sBx(w) == Signed(w.bx - MAX_sBx, 2 ^ 16)
\* Bx, into eight bits: the operand of UNM.
Low(w) == w.bx % (2 ^ 8)
\* B, into a signed byte: the capacity register of CREATE_LIST.
CapacityOf(w) == Signed(w.bx \div 2 ^ 9, 2 ^ 8)

-----------------------------------------------------------------------------

\* Mutant: the offset counts from the jump itself.
Offset_FromJump(target, i) == target - i
\* The program counter has passed the jump, instruction i, when it is taken.
Offset(target, i) == target - i - 1

\* One case of generate_bydecode for each kind of instruction.
Encoded(ir, i) ==
  CASE ir.op \in {"LOADK", "MOVE", "UNM", "NOT"} -> CREATE_ABx(ir.op, ir.a, ir.b)
    [] ir.op = "JUMP"          -> CREATE_AsBx(ir.op, ir.a, Offset(ir.b, i))
    [] ir.op = "JUMP_IF_FALSE" -> CREATE_ABx(ir.op, ir.a, Offset(ir.b, i))
    [] ir.op = "HALT"          -> CREATE_ABC(ir.op, 0, 0, 0)
    [] OTHER                   -> CREATE_ABC(ir.op, ir.a, ir.b, ir.c)

generate_bydecode(ir) == [i \in DOMAIN ir |-> Encoded(ir[i], i - 1)]

-----------------------------------------------------------------------------

\* The limits of the fields: an instruction within them is read back as it was
\* emitted.  They are those of the types of vm_run's variables, which are narrower
\* than the fields: a capacity register is a signed byte, a jump has 16 bits.
Byte == 0 .. 2 ^ 8 - 1
Fits(ir, i) ==
  CASE ir.op = "LOADK" -> ir.a \in Byte /\ ir.b \in 0 .. 2 ^ 16 - 1
    [] ir.op \in {"MOVE", "UNM", "NOT"} -> ir.a \in Byte /\ ir.b \in Byte
    [] ir.op = "JUMP" -> ir.a \in Byte /\ ir.b \in i + 1 - 2 ^ 15 .. i + 2 ^ 15
    [] ir.op = "JUMP_IF_FALSE" -> ir.a \in Byte /\ ir.b \in i + 1 .. i + 2 ^ 16
    [] ir.op = "HALT" -> TRUE
    [] ir.op = "CREATE_LIST" -> ir.a \in Byte /\ ir.b \in -1 .. 2 ^ 7 - 1 /\ ir.c \in Byte
    [] OTHER -> ir.a \in Byte /\ ir.b \in Byte /\ ir.c \in Byte

\* What vm_run, at w, makes of the operands of the i-th instruction, from 0.
ReadsBack(ir, w, i) ==
  /\ w.op = ir.op
  /\ CASE ir.op \in {"LOADK", "MOVE", "NOT"} -> GET_A(w) = ir.a /\ GET_Bx(w) = ir.b
       [] ir.op = "UNM" -> GET_A(w) = ir.a /\ Low(w) = ir.b
       [] ir.op = "JUMP" -> i + 1 + GET_sBx(w) = ir.b
       [] ir.op = "JUMP_IF_FALSE" -> GET_A(w) = ir.a /\ i + 1 + GET_Bx(w) = ir.b
       [] ir.op = "HALT" -> TRUE
       [] ir.op = "CREATE_LIST" -> GET_A(w) = ir.a /\ CapacityOf(w) = ir.b /\ GET_C(w) = ir.c
       [] OTHER -> GET_A(w) = ir.a /\ GET_B(w) = ir.b /\ GET_C(w) = ir.c

=============================================================================
