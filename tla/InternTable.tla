----------------------------- MODULE InternTable -----------------------------
(***************************************************************************)
(* The string table of the VM: allocate_string, find_interned_string,      *)
(* intern_string and resize_interning of src/src/vm/mobjects.c.  Open      *)
(* addressing with linear probing, no deletion, growth at three quarters.  *)
(*                                                                         *)
(* A step is one turn of a loop of the code, so that a probe that never    *)
(* meets an empty slot is a behaviour of the model and not an undefined    *)
(* value.  A string object is its rank in the order of allocation; 0 is    *)
(* the NULL key of an empty slot.                                          *)
(***************************************************************************)
EXTENDS Integers, Sequences

CONSTANTS Text,         \* the texts a program may build
          NoText,       \* no call of allocate_string is running
          Hash,         \* hash_string: any function, collisions included
          MinCapacity   \* the first capacity of the table: 8 in the code

ASSUME NoTextAssumption == NoText \notin Text
ASSUME HashAssumption == Hash \in [Text -> Nat]
ASSUME MinCapacityAssumption == MinCapacity \in Nat \ {0, 1}

NULL == 0

VARIABLES
  objects,      \* vm->objects, oldest first: objects[s] is the text of string s
  entries,      \* vm->strings.entries: slot -> string or NULL
  capacity,     \* vm->strings.capacity
  count,        \* vm->strings.count
  pc,           \* the loop or call being executed
  text,         \* allocate_string's argument
  index,        \* the slot being probed; 0 outside the loops that probe
  oldEntries,   \* resize_interning's oldEntries and oldCapacity
  oldCapacity,
  i,            \* resize_interning's loop variable
  result        \* what the last finished allocate_string returned

table == <<entries, capacity, count>>
resize == <<oldEntries, oldCapacity, i>>
vars == <<objects, entries, capacity, count, pc, text, index, oldEntries,
          oldCapacity, i, result>>

-----------------------------------------------------------------------------

Slots(n) == 0 .. n - 1

\* string->hash % table->capacity, and the step of every probe.
HomeSlot(t, n) == Hash[t] % n

\* Mutant: the probe forgets to wrap around.
NextSlot_NoWrap(k, n) == k + 1
NextSlot(k, n) == (k + 1) % n

\* Mutants: the load is tested only once the table is full; the load is tested
\* against the first capacity.
NeedsGrowth_WhenFull(used, n) == used >= n
NeedsGrowth_FirstCapacity(used, n) == n = 0 \/ (used + 1) * 4 > MinCapacity * 3
NeedsGrowth(used, n) == (used + 1) * 4 > n * 3

NewCapacity(n) == IF n < MinCapacity THEN MinCapacity ELSE n * 2

\* The object under construction: allocate_object has just linked it in.
string == Len(objects)

Init == /\ objects = <<>>
        /\ entries = [k \in Slots(0) |-> NULL]
        /\ capacity = 0
        /\ count = 0
        /\ pc = "idle"
        /\ text = NoText
        /\ index = 0
        /\ oldEntries = [k \in Slots(0) |-> NULL]
        /\ oldCapacity = 0
        /\ i = 0
        /\ result = NULL

\* allocate_string(t), up to the first test of find_interned_string.
Call(t) == /\ pc = "idle"
           /\ text' = t
           /\ IF capacity = 0
                THEN pc' = "create" /\ UNCHANGED index
                ELSE pc' = "find" /\ index' = HomeSlot(t, capacity)
           /\ UNCHANGED <<objects, table, resize, result>>

\* One turn of find_interned_string's loop.
FindEmpty == /\ pc = "find"
             /\ entries[index] = NULL
             /\ pc' = "create"
             /\ index' = 0
             /\ UNCHANGED <<objects, table, resize, text, result>>

\* Mutant: equal hashes are taken for equal texts.
FindMatch_HashOnly == /\ pc = "find"
                      /\ entries[index] # NULL
                      /\ Hash[objects[entries[index]]] = Hash[text]
                      /\ pc' = "idle"
                      /\ result' = entries[index]
                      /\ text' = NoText
                      /\ index' = 0
                      /\ UNCHANGED <<objects, table, resize>>
FindMatch == /\ pc = "find"
             /\ entries[index] # NULL
             /\ objects[entries[index]] = text
             /\ pc' = "idle"
             /\ result' = entries[index]
             /\ text' = NoText
             /\ index' = 0
             /\ UNCHANGED <<objects, table, resize>>

\* Mutant: the lookup gives up at the first slot held by another string.
FindOther_GivesUp == /\ pc = "find"
                     /\ entries[index] # NULL
                     /\ objects[entries[index]] # text
                     /\ pc' = "create"
                     /\ index' = 0
                     /\ UNCHANGED <<objects, table, resize, text, result>>
FindOther == /\ pc = "find"
             /\ entries[index] # NULL
             /\ objects[entries[index]] # text
             /\ index' = NextSlot(index, capacity)
             /\ UNCHANGED <<objects, table, resize, pc, text, result>>

\* allocate_object and the copy of the characters.
Create == /\ pc = "create"
          /\ objects' = Append(objects, text)
          /\ pc' = "intern"
          /\ UNCHANGED <<table, resize, text, index, result>>

\* intern_string(string): no growth needed, start probing.
InternStart == /\ pc = "intern"
               /\ ~NeedsGrowth(count, capacity)
               /\ index' = HomeSlot(text, capacity)
               /\ pc' = "probe"
               /\ UNCHANGED <<objects, table, resize, text, result>>

\* intern_string(string): resize_interning, up to its loop.
Grow == /\ pc = "intern"
        /\ NeedsGrowth(count, capacity)
        /\ oldEntries' = entries
        /\ oldCapacity' = capacity
        /\ i' = 0
        /\ capacity' = NewCapacity(capacity)
        /\ count' = 0
        /\ entries' = [k \in Slots(NewCapacity(capacity)) |-> NULL]
        /\ pc' = "rehash"
        /\ UNCHANGED <<objects, text, index, result>>

\* resize_interning's loop: an empty old slot.
RehashSkip == /\ pc = "rehash"
              /\ i < oldCapacity
              /\ oldEntries[i] = NULL
              /\ i' = i + 1
              /\ UNCHANGED <<objects, table, oldEntries, oldCapacity, pc, text,
                             index, result>>

\* resize_interning's loop: intern_string of an old key.  The recursive call
\* tests the load again; were it to ask for growth, resize_interning would run
\* inside itself.
\*
\* Mutant: the old key keeps its slot in the new table.
RehashKey_OldSlot == /\ pc = "rehash"
                     /\ i < oldCapacity
                     /\ oldEntries[i] # NULL
                     /\ pc' = "reprobe"
                     /\ index' = i
                     /\ UNCHANGED <<objects, table, resize, text, result>>
RehashKey == /\ pc = "rehash"
             /\ i < oldCapacity
             /\ oldEntries[i] # NULL
             /\ IF NeedsGrowth(count, capacity)
                  THEN pc' = "nested" /\ UNCHANGED index
                  ELSE /\ pc' = "reprobe"
                       /\ index' = HomeSlot(objects[oldEntries[i]], capacity)
             /\ UNCHANGED <<objects, table, resize, text, result>>

\* The end of resize_interning: free(oldEntries), back in the outer
\* intern_string, which does not test the load again.
RehashDone == /\ pc = "rehash"
              /\ i = oldCapacity
              /\ oldEntries' = [k \in Slots(0) |-> NULL]
              /\ oldCapacity' = 0
              /\ i' = 0
              /\ index' = HomeSlot(text, capacity)
              /\ pc' = "probe"
              /\ UNCHANGED <<objects, table, text, result>>

\* One turn of intern_string's loop: an occupied slot...
ProbeOccupied == /\ pc \in {"probe", "reprobe"}
                 /\ entries[index] # NULL
                 /\ index' = NextSlot(index, capacity)
                 /\ UNCHANGED <<objects, table, resize, pc, text, result>>

\* ... and an empty one, for the new string or for an old key.
Store == /\ pc = "probe"
         /\ entries[index] = NULL
         /\ entries' = [entries EXCEPT ![index] = string]
         /\ count' = count + 1
         /\ result' = string
         /\ text' = NoText
         /\ pc' = "idle"
         /\ index' = 0
         /\ UNCHANGED <<objects, capacity, resize>>

StoreOld == /\ pc = "reprobe"
            /\ entries[index] = NULL
            /\ entries' = [entries EXCEPT ![index] = oldEntries[i]]
            /\ count' = count + 1
            /\ i' = i + 1
            /\ pc' = "rehash"
            /\ index' = 0
            /\ UNCHANGED <<objects, capacity, oldEntries, oldCapacity, text,
                           result>>

\* malloc of the object or of its characters, or calloc of the new table,
\* returns NULL: memoryCrash and exit(1).
OutOfMemory == /\ \/ pc = "create"
                  \/ pc = "intern" /\ NeedsGrowth(count, capacity)
               /\ pc' = "exit"
               /\ UNCHANGED <<objects, table, resize, text, index, result>>

Terminated == pc = "exit" /\ UNCHANGED vars

Find == FindEmpty \/ FindMatch \/ FindOther
Rehash == RehashSkip \/ RehashKey \/ RehashDone \/ StoreOld
Step == \/ Find
        \/ Create
        \/ InternStart
        \/ Grow
        \/ Rehash
        \/ ProbeOccupied
        \/ Store

Next == \/ \E t \in Text : Call(t)
        \/ Step
        \/ OutOfMemory
        \/ Terminated

\* The interpreter runs on one thread and a call is never suspended, so a
\* call that can take a step takes it.
Spec == /\ Init
        /\ [][Next]_vars
        /\ WF_vars(Step)

-----------------------------------------------------------------------------

Phases == {"idle", "find", "create", "intern", "rehash", "reprobe", "probe",
           "nested", "exit"}

Strings == 1 .. Len(objects)

\* The types of the table, of the locals of its four functions and of their
\* results; the probe and the rehash loop never leave their arrays.
TypeOK ==
  /\ objects \in Seq(Text)
  /\ capacity \in Nat
  /\ count \in Nat
  /\ entries \in [Slots(capacity) -> Strings \cup {NULL}]
  /\ pc \in Phases
  /\ text \in Text \cup {NoText}
  /\ index \in Nat
  /\ oldCapacity \in Nat
  /\ oldEntries \in [Slots(oldCapacity) -> Strings \cup {NULL}]
  /\ i \in 0 .. oldCapacity
  /\ result \in Strings \cup {NULL}
  /\ pc \in {"find", "probe", "reprobe"} => index < capacity
  /\ pc \in {"idle", "nested", "exit"} \/ text \in Text
  /\ pc = "reprobe" => i < oldCapacity

\* Two string objects never carry the same text, so the comparison of
\* addresses in OP_EQ and m_strcmp is the comparison of texts.
Canonical == \A a, b \in Strings : objects[a] = objects[b] => a = b

\* k is probed before j by a probe that starts at h.
Before(h, k, j) == IF h <= j THEN h <= k /\ k < j ELSE h <= k \/ k < j

\* A probe for string s reaches slot j: no slot on the way is empty.
Reachable(f, n, s, j) ==
  \A k \in Slots(n) : Before(HomeSlot(objects[s], n), k, j) => f[k] # NULL

\* Between calls every string object sits in exactly one slot, and the probe
\* of find_interned_string reaches that slot: no string is lost by a
\* collision, by wrap-around or by a rehash.
Findable ==
  pc = "idle" =>
    \A s \in Strings :
      \E j \in Slots(capacity) :
        /\ entries[j] = s
        /\ Reachable(entries, capacity, s, j)
        /\ \A k \in Slots(capacity) : entries[k] = s => k = j

\* The loops of find_interned_string and intern_string have no bound of their
\* own: what ends them is an empty slot, and there always is one.
FreeSlot == pc \in {"find", "probe", "reprobe"} =>
              \E k \in Slots(capacity) : entries[k] = NULL

\* intern_string, called by resize_interning, never asks for growth: the resize
\* does not run inside itself, where table->count would be reset half-way.
NoNestedGrowth == pc # "nested"

\* What the callers can see of objects: the object under construction, which is
\* in no slot yet, is left out.
Published ==
  IF /\ pc \in {"intern", "rehash", "reprobe", "probe", "nested", "exit"}
     /\ objects # <<>>
     /\ \A k \in Slots(capacity) : entries[k] # string
  THEN SubSeq(objects, 1, Len(objects) - 1)
  ELSE objects

Abstract == INSTANCE InternSpec WITH
              strings <- Published, asked <- text, answer <- result,
              alive <- pc # "exit"

\* The table implements one object per text: a known text is answered with the
\* object that carries it, a new one with a new object, and every call ends.
ImplementsInternSpec == Abstract!Spec

=============================================================================
