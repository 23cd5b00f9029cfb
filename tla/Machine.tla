------------------------------- MODULE Machine -------------------------------
(***************************************************************************)
(* The dispatch loop vm_run of src/src/vm/vm.c over the registers of one     *)
(* frame: one action per opcode.  An action that raises a runtime error ends *)
(* the run; one that kills the process leaves it crashed, and one that never *)
(* comes to its end leaves it spinning.                                      *)
(***************************************************************************)
EXTENDS Values, Codegen, Registers, SequencesExt

VARIABLES instructions,     \* chunk->instructions, counted from 1
          constants,        \* chunk->constants, counted from 1
          pc,               \* the index, from 0, of the next instruction
          R,                \* frame->registers
          heap,             \* the lists and dictionaries
          status,           \* idle, running, halted, error, crash, spin
          written           \* the registers given a value in this run

machine == <<instructions, constants, pc, R, heap, status, written>>

-----------------------------------------------------------------------------

MachineInit == /\ instructions = <<>>
               /\ constants = <<>>
               /\ pc = 0
               /\ R = [r \in 0 .. MaxRegs - 1 |-> NaN]
               /\ heap = <<>>
               /\ status = "idle"
               /\ written = {}

instr == instructions[pc + 1]
a == GET_A(instr)
b == GET_B(instr)
c == GET_C(instr)
bx == GET_Bx(instr)

Fetch(op) == /\ status = "running"
             /\ pc < Len(instructions)
             /\ instr.op = op
             /\ UNCHANGED <<instructions, constants>>

Ends(how) == /\ status' = how
             /\ pc' = pc + 1
             /\ UNCHANGED <<R, heap, written>>
Raise == Ends("error")

\* The element written past the end of a fixed list of that capacity may do any harm; one
\* without memory, there is nowhere to write.
Overruns(capacity) == Ends("crash") \/ (capacity > 0 /\ Raise)

GoTo(n) == pc' = n /\ UNCHANGED status
Store(v, h) == IF v = Fault THEN Raise
               ELSE /\ R' = [R EXCEPT ![a] = v]
                    /\ written' = written \cup {a}
                    /\ heap' = h
                    /\ GoTo(pc + 1)

IsList(v) == IsRef(v) /\ heap[v[2]].kind = "list"
IsDict(v) == IsRef(v) /\ heap[v[2]].kind = "dict"
\* Mutant: the reference is to the object made last.
NewRef_Last == RefV(Len(heap))
NewRef == RefV(Len(heap) + 1)

\* A string is made of the constant, of as many characters as it is long.
LoadK == /\ Fetch("LOADK")
         /\ IF constants[bx + 1] = Endless THEN Ends("crash") ELSE Store(constants[bx + 1], heap)

Move == /\ Fetch("MOVE")
        /\ Store(R[bx], heap)

Operate(op) == /\ Fetch(op)
               /\ ~(op \in {"ADD", "MUL", "CONCAT"} /\ IsList(R[b]))
               /\ ~(op = "CONCAT" /\ IsList(R[c]))
               /\ Store(Binary(op, R[b], R[c]), heap)

\* A copy of a list, as fixed as it is and with its capacity, goes on with s.
StoreLonger(list, s) == IF HasRoom(list, s) THEN Store(NewRef, Append(heap, Lengthened(list, s)))
                        ELSE Overruns(list.capacity)

\* Mutant: the list itself goes on.
AddToList_InPlace ==
  /\ Fetch("ADD")
  /\ IsList(R[b])
  /\ Store(R[b], [heap EXCEPT ![R[b][2]] = Lengthened(@, <<R[c]>>)])

\* list + v: the copy is in R[a] when v is read.
AddToList == /\ Fetch("ADD")
             /\ IsList(R[b])
             /\ StoreLonger(heap[R[b][2]], <<IF c = a THEN NewRef ELSE R[c]>>)

InARow(s, n) == [k \in 1 .. n * Len(s) |-> s[((k - 1) % Len(s)) + 1]]

\* list * n: the copy goes on with the elements of the list n times.  When n is no int the
\* error is raised, and then the bits in its place are taken for one: the memory may not do.
RepeatList == /\ Fetch("MUL")
              /\ IsList(R[b])
              /\ LET list == heap[R[b][2]]
                     times == IF R[c][2] \in Nat THEN R[c][2] ELSE 0
                 IN IF ~IsInt(R[c]) THEN Overruns(1)
                    ELSE StoreLonger(list, InARow(list.at, times))

\* list <> list: a new list, which is in R[a] when the operands are read.  If it is
\* the second of them it grows for ever, and no step is taken.
ConcatLists == /\ Fetch("CONCAT")
               /\ IsList(R[b]) /\ IsList(R[c])
               /\ LET left == IF b = a THEN <<>> ELSE heap[R[b][2]].at
                      right == IF c = a THEN <<>> ELSE heap[R[c][2]].at
                     capacity == Len(heap[R[b][2]].at) + Len(heap[R[c][2]].at)
                  IN /\ c = a => left = <<>>
                     /\ Store(NewRef, Append(heap, Lengthened(NewList(capacity, FALSE),
                                                           left \o right)))

\* A list goes into a text by its address, if the other operand is a string.
ConcatList == /\ Fetch("CONCAT")
              /\ IsList(R[b]) # IsList(R[c])
              /\ Store(IF IsString(R[b]) \/ IsString(R[c]) THEN Concat(R[b], R[c]) ELSE Fault,
                       heap)

Negate == /\ Fetch("UNM")
          /\ Store(Unary("UNM", R[Low(instr)]), heap)

LogicalNot == /\ Fetch("NOT")
              /\ Store(Unary("NOT", R[bx]), heap)

\* The capacity register is read as a signed byte: none when negative.
CreateList == /\ Fetch("CREATE_LIST")
              /\ LET reg == CapacityOf(instr)
                     capacity == IF reg > -1 THEN R[reg][2] ELSE 0
                 IN IF reg > -1 /\ ~IsInt(R[reg]) THEN Raise
                    ELSE Store(NewRef, Append(heap, NewList(capacity, c # 0)))

CreateDict == /\ Fetch("CREATE_DICT")
              /\ Store(NewRef, Append(heap, NewDict(b, c # 0)))

PushList == /\ Fetch("PUSH_LIST")
            /\ LET list == heap[R[a][2]]
                   pushed == [k \in 1 .. c |-> R[b + k - 1]]
               IN IF ~IsList(R[a]) THEN Raise
                  ELSE IF ~HasRoom(list, pushed) THEN Overruns(list.capacity)
                  ELSE /\ heap' = [heap EXCEPT ![R[a][2]] = Lengthened(list, pushed)]
                       /\ UNCHANGED <<R, written>>
                       /\ GoTo(pc + 1)

SetIndex == /\ Fetch("SET_INDEX")
            /\ LET obj == heap[R[a][2]]
                   end == SetEnds(obj, R[b])
               IN IF ~IsRef(R[a]) THEN Raise
                  ELSE IF end = Overrun THEN Overruns(obj.capacity)
                  ELSE IF end # "running" THEN Ends(end)
                  ELSE /\ heap' = [heap EXCEPT ![R[a][2]] = SetAt(obj, R[b], R[c])]
                       /\ UNCHANGED <<R, written>>
                       /\ GoTo(pc + 1)

\* The value found in a dictionary is dropped.
GetIndex == /\ Fetch("GET_INDEX")
            /\ CASE IsList(R[b]) /\ IsInt(R[c]) ->
                      Store(ListAt(heap[R[b][2]].at, R[c][2]), heap)
                 [] IsDict(R[b]) ->
                      LET end == GetEnds(heap[R[b][2]], R[c])
                      IN IF end # "running" THEN Ends(end)
                         ELSE /\ UNCHANGED <<R, heap, written>>
                              /\ GoTo(pc + 1)
                 [] OTHER -> Raise

Jump == /\ Fetch("JUMP")
        /\ GoTo(pc + 1 + GET_sBx(instr))
        /\ UNCHANGED <<R, heap, written>>

JumpIfFalse == /\ Fetch("JUMP_IF_FALSE")
               /\ GoTo(IF IsFalse(R[a]) THEN pc + 1 + bx ELSE pc + 1)
               /\ UNCHANGED <<R, heap, written>>

Halt == /\ Fetch("HALT")
        /\ status' = "halted"
        /\ pc' = pc + 1
        /\ UNCHANGED <<R, heap, written>>

Execute == \/ LoadK \/ Move
           \/ \E op \in BinaryOps : Operate(op)
           \/ AddToList \/ RepeatList \/ ConcatLists \/ ConcatList \/ Negate \/ LogicalNot
           \/ CreateList \/ CreateDict \/ PushList \/ SetIndex \/ GetIndex
           \/ Jump \/ JumpIfFalse \/ Halt

-----------------------------------------------------------------------------

(* What an instruction reads and writes, and where it goes.                  *)

ReadsOf(w) ==
  CASE w.op \in {"MOVE", "NOT"} -> {GET_Bx(w)}
    [] w.op = "UNM" -> {Low(w)}
    [] w.op \in BinaryOps \cup {"GET_INDEX"} -> {GET_B(w), GET_C(w)}
    [] w.op = "SET_INDEX" -> {GET_A(w), GET_B(w), GET_C(w)}
    [] w.op = "PUSH_LIST" -> {GET_A(w)} \cup Run(GET_B(w), GET_C(w))
    [] w.op = "JUMP_IF_FALSE" -> {GET_A(w)}
    [] w.op = "CREATE_LIST" -> {CapacityOf(w)} \cap Nat
    [] OTHER -> {}

WritesNothing == {"PUSH_LIST", "SET_INDEX", "JUMP", "JUMP_IF_FALSE", "HALT"}
WritesOf(w) == IF w.op \in WritesNothing THEN {} ELSE {GET_A(w)}

\* From the i-th instruction.
SuccessorsOf(w, i) ==
  CASE w.op = "JUMP" -> {i + 1 + GET_sBx(w)}
    [] w.op = "JUMP_IF_FALSE" -> {i + 1, i + 1 + GET_Bx(w)}
    [] w.op = "HALT" -> {}
    [] OTHER -> {i + 1}

Reads == ReadsOf(instr)

-----------------------------------------------------------------------------
(* What vm_run takes for granted of a chunk, for it checks none of it.       *)

FrameRegisters == 0 .. MaxRegs - 1

\* The registers that have been written, on every path that comes forward to it,
\* before each instruction.
Flow(code) ==
  LET WrittenBefore(F, i) ==
        LET from == {k \in 1 .. i - 1 : i \in SuccessorsOf(code[k], k)}
        IN Append(F, IF i = 1 THEN {}
                     ELSE {r \in FrameRegisters :
                             \A k \in from : r \in F[k] \/ r \in WritesOf(code[k])})
  IN FoldLeftDomain(WrittenBefore, <<>>, code)

IsWord(w) == w.a \in 0 .. 2 ^ 8 - 1 /\ w.bx \in 0 .. 2 ^ 18 - 1

\* The i-th instruction has its constant, reads registers that F says are written,
\* and goes, backwards too, where no more than these and its own has to be written.
SoundAt(code, consts, F, i) ==
  /\ IsWord(code[i])
  /\ code[i].op = "LOADK" => GET_Bx(code[i]) + 1 \in DOMAIN consts
  /\ ReadsOf(code[i]) \subseteq F[i]
  /\ WritesOf(code[i]) \subseteq FrameRegisters
  /\ \A j \in SuccessorsOf(code[i], i) :
       /\ j \in 1 .. Len(code)
       /\ F[j] \subseteq F[i] \cup WritesOf(code[i])

IsConstant(v) == v # Fault /\ ~IsRef(v)

Sound(code, consts) ==
  LET F == Flow(code)
  IN /\ Len(code) \in Nat \ {0}
     /\ F[1] = {}
     /\ \A i \in 1 .. Len(code) : F[i] \subseteq FrameRegisters /\ SoundAt(code, consts, F, i)
     /\ \A k \in DOMAIN consts : IsConstant(consts[k])

\* The machine by itself: it is given a sound chunk, and runs it.
LoadSound == /\ status = "idle"
             /\ status' = "running"
             /\ Sound(instructions', constants')
             /\ UNCHANGED <<pc, R, heap, written>>

MachineSpec == MachineInit /\ [][LoadSound \/ Execute]_machine

-----------------------------------------------------------------------------

IsSequence(s) == Len(s) \in Nat /\ s = [k \in 1 .. Len(s) |-> s[k]]

\* A value that may be in a register: a reference is to an object there is.
IsValue(v, objects) == v # Fault /\ (IsRef(v) => v[2] \in DOMAIN objects)
IsStored(obj) ==
  \/ /\ obj = [kind |-> "list", at |-> obj.at, capacity |-> obj.capacity, fixed |-> obj.fixed]
     /\ IsSequence(obj.at)
  \/ /\ obj = [kind |-> "dict", at |-> obj.at, capacity |-> obj.capacity, fixed |-> obj.fixed,
               count |-> obj.count]
     /\ obj.capacity \in Nat /\ obj.count \in Nat
IsObject(obj, objects) == /\ IsStored(obj)
                          /\ obj.fixed \in BOOLEAN
                          /\ \A k \in DOMAIN obj.at : IsValue(obj.at[k], objects)

\* The types of the machine's state: the program counter never leaves the code, no
\* opcode leaves an error where a value should be, and no register, list or
\* dictionary refers to an object that does not exist.
TypeOK == /\ status \in {"idle", "running", "halted", "error", "crash", "spin"}
          /\ pc \in 0 .. Len(instructions)
          /\ status = "running" => pc < Len(instructions)
          /\ DOMAIN R = FrameRegisters
          /\ \A r \in FrameRegisters : IsValue(R[r], heap)
          /\ IsSequence(heap)
          /\ \A k \in DOMAIN heap : IsObject(heap[k], heap)
          /\ written \subseteq FrameRegisters

\* No instruction of vm_run reads a register that nothing has been put into in this
\* run, on no path through the program: temporaries are written before they are
\* used, and a variable without a value has been made NaN.
FreshReads == status = "running" => Reads \subseteq written

\* The key is lost: it hashes to 0, and the dictionary was given a larger table.
LostTo(obj, new, key) == /\ obj.kind = "dict" /\ ~obj.fixed
                         /\ key \in ZeroHash
                         /\ new.capacity > obj.capacity

ObjectsRemain ==
  \A k \in DOMAIN heap :
    LET obj == heap[k]
        new == heap'[k]
    IN /\ k \in DOMAIN heap'
       /\ new # obj => instr.op \in {"PUSH_LIST", "SET_INDEX"} /\ IsRef(R[a]) /\ R[a][2] = k
       /\ new.kind = obj.kind /\ new.fixed = obj.fixed
       /\ obj.fixed => new.capacity = obj.capacity
       /\ \A key \in DOMAIN obj.at : key \in DOMAIN new.at \/ LostTo(obj, new, key)

\* An object, once made, is there for as long as vm_run runs, of the same kind and as fixed
\* as it was: only the instructions that store into it change it, whoever else refers to
\* it, they take no element away, and no key but one that hashes to 0, when a dictionary
\* grows.
ObjectsKept == [][ObjectsRemain]_machine

\* OP_GET_INDEX on a dictionary, which leaves R[a] as it was.
DropsValue == status = "running" /\ instr.op = "GET_INDEX" /\ IsDict(R[b])

=============================================================================
