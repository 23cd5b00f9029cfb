------------------------------ MODULE CallStack ------------------------------
(***************************************************************************)
(* The frames and the register stack of the VM: vm_push_frame,             *)
(* vm_pop_frame, vm_copy_call_args, vm_begin_call and vm_finish_return of  *)
(* src/src/vm/vm.c.  Frames are windows on one array of registers.         *)
(*                                                                         *)
(* No opcode calls these functions yet, except for the frame of the main   *)
(* chunk: the calls and returns of the model are those the convention of   *)
(* vm.h (lines 119 to 132) allows.                                         *)
(***************************************************************************)
EXTENDS Integers, Sequences

CONSTANTS Chunk,        \* compiled functions
          Main,         \* the main script's
          slots,        \* chunk -> register_capacity
          params,       \* chunk -> parameter_count
          returns,      \* chunk -> return_count
          Value,        \* what instructions compute
          NaN,          \* what a register holds before
          MaxFrames,    \* MAX_FRAMES: 64
          MaxStack      \* M_MAXSTACK: 8000

ASSUME ChunkAssumption == /\ Main \in Chunk
                          /\ slots \in [Chunk -> Nat]
                          /\ params \in [Chunk -> Nat]
                          /\ returns \in [Chunk -> Nat]
ASSUME ValueAssumption == NaN \notin Value
ASSUME LimitAssumption == /\ MaxFrames \in Nat \ {0}
                          /\ MaxStack \in Nat
                          /\ slots[Main] <= MaxStack

VARIABLES frames,       \* vm->frames, from the main script's on
          stack,        \* vm->stack
          stack_top,    \* vm->stack_top, as an index
          error,        \* vm->error.has_error
          frozen        \* history: the registers of a caller when it called

vars == <<frames, stack, stack_top, error, frozen>>

-----------------------------------------------------------------------------

Cells == 0 .. MaxStack - 1
AtMost(m, n) == IF m < n THEN m ELSE n

Top == frames[Len(frames)]
Caller == frames[Len(frames) - 1]

\* Mutant: the callee shares the caller's last register.
NewFrame_Shared(c, base) == [chunk |-> c, registers |-> stack_top - 1,
                             slot_count |-> slots[c], result_base |-> base]
NewFrame(c, base) == [chunk |-> c, registers |-> stack_top, slot_count |-> slots[c],
                      result_base |-> base]

\* The registers of frame f, in stack s.
Window(f, s) == [r \in 0 .. f.slot_count - 1 |-> s[f.registers + r]]

\* Mutant: the test forgets the registers of the new frame.
StackOverflows_Used(c) == stack_top > MaxStack
StackOverflows(c) == stack_top + slots[c] > MaxStack

\* Mutant: one frame too many.
FramesOverflow_Late(n) == n > MaxFrames
FramesOverflow(n) == n >= MaxFrames

\* vm_init: the frame of the main chunk.
Init == /\ frames = <<[chunk |-> Main, registers |-> 0, slot_count |-> slots[Main],
                       result_base |-> 0]>>
        /\ stack = [s \in Cells |-> NaN]
        /\ stack_top = slots[Main]
        /\ error = FALSE
        /\ frozen = <<>>

Running == ~error /\ frames # <<>>

\* An instruction assigns one of its registers.
SetRegister(r, v) == /\ Running
                     /\ r < Top.slot_count
                     /\ stack' = [stack EXCEPT ![Top.registers + r] = v]
                     /\ UNCHANGED <<frames, stack_top, error, frozen>>

\* vm_copy_call_args: how many arguments are copied.
Arguments(c, arg_base, argc) ==
  LET wanted == AtMost(argc, AtMost(params[c], slots[c]))
  IN  IF arg_base < 0 \/ arg_base > Top.slot_count THEN 0
      ELSE AtMost(wanted, Top.slot_count - arg_base)

\* vm_begin_call that finds no room: vm_push_frame raises an error.
CallFails(c) == /\ Running
                /\ FramesOverflow(Len(frames)) \/ StackOverflows(c)
                /\ error' = TRUE
                /\ UNCHANGED <<frames, stack, stack_top, frozen>>

\* vm_begin_call: push a frame of NaN registers, copy the arguments.
BeginCall(c, result_base, arg_base, argc) ==
  /\ Running
  /\ ~FramesOverflow(Len(frames))
  /\ ~StackOverflows(c)
  /\ frames' = Append(frames, NewFrame(c, result_base))
  /\ stack' = [s \in Cells |->
                 IF s < stack_top \/ s >= stack_top + slots[c] THEN stack[s]
                 ELSE IF s - stack_top < Arguments(c, arg_base, argc)
                   THEN stack[Top.registers + arg_base + (s - stack_top)]
                   ELSE NaN]
  /\ stack_top' = stack_top + slots[c]
  /\ frozen' = Append(frozen, Window(Top, stack))
  /\ UNCHANGED error

\* vm_pop_frame; the registers keep what they hold.
PopFrame == /\ stack_top' = Top.registers
            /\ frames' = SubSeq(frames, 1, Len(frames) - 1)
            /\ frozen' = IF frozen = <<>> THEN <<>>
                         ELSE SubSeq(frozen, 1, Len(frozen) - 1)

\* vm_run: the end of a chunk pops its frame, with no results.
ReachEnd == /\ Running
            /\ PopFrame
            /\ UNCHANGED <<stack, error>>

\* The number of values vm_finish_return means to copy; -1 asks for all.
Returned(count) == IF count >= 0 THEN AtMost(count, returns[Top.chunk])
                                 ELSE returns[Top.chunk]

\* Mutant: results go past the end of the caller's window.
InCaller_Unbounded(r) == Caller.registers + r < MaxStack
\* Results beyond the registers of the caller are dropped.
InCaller(r) == r < Caller.slot_count

\* vm_finish_return: copies the results to the caller's registers, from
\* caller->result_base on, and fills up with NaN; a count of 0 fills nothing.
FinishReturn(reg_base, count) ==
  /\ Running
  /\ reg_base <= Top.slot_count
  /\ LET base == IF reg_base < 0 THEN 0 ELSE reg_base
         copied == AtMost(Returned(count), Top.slot_count - base)
     IN  IF Len(frames) > 1 /\ Returned(count) > 0
           THEN LET dest == Caller.result_base
                    rank(s) == s - Caller.registers - dest
                IN  stack' = [s \in Cells |->
                      IF ~(rank(s) \in 0 .. returns[Top.chunk] - 1 /\ InCaller(dest + rank(s)))
                        THEN stack[s]
                        ELSE IF rank(s) < copied THEN stack[Top.registers + base + rank(s)]
                                                 ELSE NaN]
           ELSE UNCHANGED stack
  /\ PopFrame
  /\ UNCHANGED error

Stopped == ~Running /\ UNCHANGED vars

\* The numbers of registers anyone asks for: 0 .. n if the largest chunk has n.
Counts == UNION {0 .. slots[c] : c \in Chunk}

Next == \/ \E r \in Counts, v \in Value : SetRegister(r, v)
        \/ \E c \in Chunk : CallFails(c)
        \/ \E c \in Chunk, b, a \in Counts, n \in Counts :
             /\ Running /\ b < Top.slot_count /\ a < Top.slot_count
             /\ BeginCall(c, b, a, n)
        \/ \E b, n \in Counts \cup {-1} : FinishReturn(b, n)
        \/ ReachEnd
        \/ Stopped

Spec == Init /\ [][Next]_vars

-----------------------------------------------------------------------------

\* The types, and a stack of at most MaxFrames frames.
TypeOK ==
  /\ frames \in Seq([chunk : Chunk, registers : 0 .. MaxStack, slot_count : Nat,
                     result_base : Nat])
  /\ Len(frames) <= MaxFrames
  /\ stack \in [Cells -> Value \cup {NaN}]
  /\ stack_top \in Nat
  /\ error \in BOOLEAN

\* The frames tile the used part of the register stack, in order, without holes
\* or overlaps, each with the registers its chunk asks for; the last one ends at
\* stack_top and none goes past the array.
Tiled ==
  /\ \A f \in DOMAIN frames :
       /\ frames[f].slot_count = slots[frames[f].chunk]
       /\ frames[f].registers + frames[f].slot_count =
            IF f = Len(frames) THEN stack_top ELSE frames[f + 1].registers
  /\ IF frames = <<>> THEN stack_top = 0 ELSE frames[1].registers = 0
  /\ stack_top <= MaxStack

\* A suspended caller finds its registers as it left them, whatever the functions
\* it called, directly or not, computed, called and returned.
CallersFrozen ==
  /\ Len(frozen) = IF frames = <<>> THEN 0 ELSE Len(frames) - 1
  /\ \A f \in DOMAIN frozen : Window(frames[f], stack) = frozen[f]

\* A return changes its caller's registers and nothing below them.
ReturnIsLocal ==
  [][Len(frames') < Len(frames) =>
       \A s \in Cells : stack'[s] # stack[s] =>
         Len(frames) > 1 /\ s >= Caller.registers /\ s < Top.registers]_vars

\* "result_base: primer registro del caller donde vm_finish_return escribe los
\* retornos" (vm.h:124): the results of a call start at the result_base that was
\* passed with it.
ResultsWhereAsked ==
  [][Len(frames') < Len(frames) =>
       \A s \in Cells : stack'[s] # stack[s] =>
         s >= Caller.registers + Top.result_base]_vars
=============================================================================
