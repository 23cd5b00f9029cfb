------------------------------ MODULE Toolchain ------------------------------
(***************************************************************************)
(* A program on its way through parser_program, compiler_program,          *)
(* generate_bydecode and vm_run: parsed and compiled a statement at a      *)
(* time, then run an instruction at a time, as cli_run of                  *)
(* src/src/cli/cli.c does.  The properties compare the tree with what was  *)
(* written, and the run with what that means.                              *)
(***************************************************************************)
EXTENDS Compiler, Machine, Parser

CONSTANT Programs           \* each a sequence of statements

VARIABLES program,
          P,                \* the parser
          tree, stmtCount,  \* the statements it has read, and how many
          C, compiled,      \* the compiler, and how many of them it has compiled
          variables         \* the symbols of the outermost scope when it ends

M == INSTANCE Meaning
G == INSTANCE Grammar
Scope == INSTANCE Scoping

vars == <<program, P, tree, stmtCount, C, compiled, variables, machine>>

\* The lexer's part is in module Frontend: the program arrives as its tokens.
Init == /\ program \in Programs
        /\ P = parser_init(G!TokensOf(program))
        /\ tree = <<>>
        /\ stmtCount = 0
        /\ C = BeginScope(compiler_init)
        /\ compiled = 0
        /\ variables = <<>>
        /\ MachineInit

\* The loop of parser_program.
Parsing == ~Sees(P, "M_EOF") /\ ~P.exited
NextParsed == Parsing /\ stmtCount' = stmtCount + 1
ParseStmt == /\ NextParsed
             /\ P' = parser_program(P, tree)
             /\ tree' = Append(tree, P'.node)
             /\ UNCHANGED <<program, C, compiled, variables, machine>>

\* The loop of STMT_BLOCK over the statements of the program.
NextStmt == /\ ~Parsing
            /\ status = "idle"
            /\ ~C.exited
            /\ compiled < Len(tree)
            /\ compiled' = compiled + 1

\* What a wild pointer points to may be read, or ends the process.
Outcomes(D) == IF D.wild THEN {[D EXCEPT !.wild = FALSE], Exits(D)} ELSE {D}
CompileStmt == /\ NextStmt
               /\ C' \in Outcomes(Stmt(C, tree[compiled + 1]))
               /\ UNCHANGED <<program, P, tree, stmtCount, variables, machine>>

\* The end of compiler_program, code generation, and a frame for the chunk.
Start == /\ ~Parsing
         /\ status = "idle"
         /\ ~C.exited
         /\ compiled = Len(tree)
         /\ status' = "running"

Load == /\ Start
        /\ C' = Emit(EndScope(C), "HALT", 0, 0, 0)
        /\ instructions' = generate_bydecode(C'.ir)
        /\ constants' = C.constants
        /\ variables' = C.symbols
        /\ UNCHANGED <<program, P, tree, stmtCount, compiled, pc, R, heap, written>>

RunStep == Execute /\ UNCHANGED <<program, P, tree, stmtCount, C, compiled, variables>>

Next == ParseStmt \/ CompileStmt \/ Load \/ RunStep

\* One thread does all of it and waits for nothing.  The fairness of ParseStmt,
\* CompileStmt and Load is stated of the part that says when they are enabled, which
\* no other step takes.
Spec == /\ Init
        /\ [][Next]_vars
        /\ WF_stmtCount(NextParsed)
        /\ WF_compiled(NextStmt)
        /\ WF_status(Start)
        /\ WF_vars(RunStep)

-----------------------------------------------------------------------------

\* A program is read back from its tokens as it was written: every operator has the
\* operands it should, every statement ends where the next begins, and branches,
\* bodies and steps belong to the statements they were written for.
ParsedAsWritten == /\ IsPrefix(tree, program)
                   /\ ~Parsing => tree = program

\* compiler_expr and compiler_stmt keep their side of the register pool's bargain:
\* after a statement every register that was counted is one there is, and a variable's
\* or free, never both, and no two variables have the same, whatever paths the compiler
\* took through it.
NoRegisterLost ==
  ~C.exited /\ status = "idle" =>
    /\ C.next \in 0 .. MaxRegs
    /\ C.free \cup Locals(C.symbols) = 0 .. C.next - 1
    /\ C.free \cap Locals(C.symbols) = {}
    /\ IsInjective([k \in DOMAIN C.symbols |-> C.symbols[k].reg])

IsJump(i) == C.ir[i].op \in {"JUMP", "JUMP_IF_FALSE"}

\* Every jump of compiler_stmt has been patched, by the time its statement is
\* compiled, to an instruction of the program; every operand is within the limits of
\* its field, and vm_run reads it as it was emitted; and what vm_run is given is
\* sound: it takes for granted that the code ends, that every constant is there, and
\* that a register that is read is one that the compiler counted (compiler_regs_used),
\* for the frame has no others, and has been written on every path to it.
CodeIsSound ==
  /\ ~C.exited => \A i \in DOMAIN C.ir : IsJump(i) => C.ir[i].b \in 0 .. Len(C.ir)
  /\ \A i \in DOMAIN instructions : /\ Fits(C.ir[i], i - 1)
                                   /\ ReadsBack(C.ir[i], instructions[i], i - 1)
  /\ status = "running" /\ pc = 0 =>
       /\ Sound(instructions, constants)
       /\ \A i \in DOMAIN instructions :
            ReadsOf(instructions[i]) \cup WritesOf(instructions[i]) \subseteq 0 .. C.next - 1

Meant == M!MeaningOf(program)

Ended == {"error", "halted", "crash", "spin"}
Agrees(m) ==
  CASE m.end = "overrun" -> status \in {"error", "crash"}
    [] m.end # "" -> status = m.end
    [] OTHER -> /\ status = "halted"
                /\ Len(m.env) = Len(variables)
                /\ \A k \in DOMAIN variables :
                     /\ m.env[k].name = variables[k].name
                     /\ M!Same(m.heap, m.env[k].value, heap, R[variables[k].reg])

\* A compiled program computes what the program means: it ends in an error, dies or
\* hangs exactly when that is what its meaning says, and otherwise its outermost
\* variables, with the lists and dictionaries they refer to, have the values they should.
MeansWhatItSays == status \in Ended => Agrees(Meant)

\* The compiler rejects what is not well formed, and nothing else: whatever the walk
\* did to the symbols and scopes, a name is found exactly when it may be used, and a
\* constant stays one, in code that is never run as well.  A well-formed program is
\* given up only when the registers left are too few for what it asks for at once, or
\* when the compiler has read memory that is not its own.
RejectsIllFormed ==
  /\ status # "idle" => Scope!WellFormed(program)
  /\ C.exited => ~Scope!WellFormed(program) \/ C.wild
               \/ C.next + Scope!Widest(program) > MaxRegs

\* Every program of the run, each of which ends, ends when compiled, unless it asks a
\* full fixed dictionary for a key that is not there: it is rejected, fails, dies or
\* reaches HALT, and never falls off the end of its code.
Halts == <>(C.exited \/ status \in Ended \ {"spin"} \/ (status = "spin" /\ Meant.end = "spin"))

=============================================================================
