----------------------------- MODULE InternSpec -----------------------------
(***************************************************************************)
(* What allocate_string (src/src/vm/mobjects.c) promises to the rest of    *)
(* the VM, with no hash table in sight: one heap object per text, for ever. *)
(* OP_EQ and m_strcmp compare strings by address, so this promise is what  *)
(* makes string comparison in M correct.                                   *)
(***************************************************************************)
EXTENDS Naturals, Sequences

CONSTANTS Text,     \* the texts a program may build
          NoText    \* no call is running

VARIABLES strings,  \* strings[s] is the text of the s-th string object
          asked,    \* the text of the call that is running, or NoText
          answer,   \* the object the last finished call returned, 0 before
          alive     \* FALSE once the process has run out of memory

vars == <<strings, asked, answer, alive>>

Init == /\ strings = <<>>
        /\ asked = NoText
        /\ answer = 0
        /\ alive = TRUE

Ask(t) == /\ alive
          /\ asked = NoText
          /\ asked' = t
          /\ UNCHANGED <<strings, answer, alive>>

\* A known text is answered with the object that already carries it.
AnswerKnown == /\ alive
               /\ asked # NoText
               /\ \E s \in DOMAIN strings : strings[s] = asked /\ answer' = s
               /\ asked' = NoText
               /\ UNCHANGED <<strings, alive>>

\* A new text gets a new object; the objects that exist are left alone.
AnswerNew == /\ alive
             /\ asked # NoText
             /\ \A s \in DOMAIN strings : strings[s] # asked
             /\ strings' = Append(strings, asked)
             /\ answer' = Len(strings) + 1
             /\ asked' = NoText
             /\ UNCHANGED alive

\* memoryCrash() and exit(1): only a call can run out of memory.
Crash == /\ alive
         /\ asked # NoText
         /\ alive' = FALSE
         /\ UNCHANGED <<strings, asked, answer>>

Next == \/ \E t \in Text : Ask(t)
        \/ AnswerKnown
        \/ AnswerNew
        \/ Crash

Spec == /\ Init
        /\ [][Next]_vars
        /\ WF_vars(AnswerKnown \/ AnswerNew)
=============================================================================
