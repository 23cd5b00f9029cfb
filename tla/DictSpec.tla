------------------------------ MODULE DictSpec ------------------------------
(***************************************************************************)
(* What a dictionary of M promises for its plain keys: a partial function  *)
(* from keys to values.  A plain key is one whose stored hash is not 0 and *)
(* that is equal to itself and to no other key; module Dict says which     *)
(* keys are not, and this specification leaves open what they do - except  *)
(* that they never disturb a plain one.                                    *)
(***************************************************************************)
EXTENDS Naturals

CONSTANTS PlainKey, Value,
          Absent        \* what reading a key that was never set returns

VARIABLES map,          \* plain key -> what reading it returns
          running       \* FALSE before the dictionary exists or after a stop

vars == <<map, running>>

Init == /\ map = [k \in PlainKey |-> Absent]
        /\ running = FALSE

Create == /\ ~running
          /\ running' = TRUE
          /\ UNCHANGED map

Set(k, v) == /\ running
             /\ map' = [map EXCEPT ![k] = v]
             /\ UNCHANGED running

\* A runtime error ends the program, and so does what is worse than an error.
Stop == /\ running
        /\ running' = FALSE
        /\ UNCHANGED map

Next == \/ Create
        \/ \E k \in PlainKey, v \in Value : Set(k, v)
        \/ Stop

Spec == Init /\ [][Next]_vars
=============================================================================
