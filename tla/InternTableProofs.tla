-------------------------- MODULE InternTableProofs --------------------------
(***************************************************************************)
(* The probes of the string table stay in the table and always have an     *)
(* empty slot to end at, the table never grows inside its own growth, and  *)
(* linear probing finds every string again, after collisions, across the   *)
(* end of the table and through every rehash: one object per text, for     *)
(* every set of texts, every hash function and every first capacity from 2 *)
(* up.                                                                     *)
(***************************************************************************)
EXTENDS InternTable, DataLemmas, FiniteSetTheorems

\* How full the table is when each loop runs: at most three quarters between the
\* calls; with room for one more while a new string looks for its slot; while the
\* old keys move, not more keys than the old table had slots before i.
Load ==
  /\ capacity = 0 \/ capacity >= MinCapacity
  /\ pc \notin {"rehash", "reprobe", "probe"} => count * 4 <= capacity * 3
  /\ pc = "probe" => (count + 1) * 4 <= capacity * 3
  /\ pc \in {"rehash", "reprobe"} =>
       /\ count <= i
       /\ oldCapacity = 0 \/ oldCapacity >= MinCapacity
       /\ capacity = NewCapacity(oldCapacity)
  /\ pc # "nested"

IInv == TypeOK /\ Load

-----------------------------------------------------------------------------

\* A probe starts and goes on inside a table that is not empty.
LEMMA ProbeInTable ==
  ASSUME NEW n \in Nat, n > 0
  PROVE  /\ \A t \in Text : HomeSlot(t, n) \in Slots(n)
         /\ \A k \in Nat : NextSlot(k, n) \in Slots(n)
<1>1. \A m \in Nat : m % n \in 0 .. n - 1
  OBVIOUS
<1>2. \A t \in Text : Hash[t] \in Nat
  BY HashAssumption
<1> QED BY <1>1, <1>2 DEF HomeSlot, NextSlot, Slots

\* A new object leaves the older ones where they are.
LEMMA StringsGrow ==
  ASSUME objects \in Seq(Text), NEW t \in Text, objects' = Append(objects, t)
  PROVE  /\ objects' \in Seq(Text)
         /\ Strings \subseteq Strings'
BY AppendProperties, LenProperties DEF Strings

\* The types and the load of the table survive every turn of the four loops.
LEMMA Inductive == IInv /\ [Next]_vars => IInv'
<1> SUFFICES ASSUME TypeOK, Load, [Next]_vars PROVE IInv'
  BY DEF IInv
<1> USE DEF NULL, Phases
<1>1. ASSUME NEW t \in Text, Call(t) PROVE IInv'
  <2>1. capacity > 0 => HomeSlot(t, capacity) \in Slots(capacity)
    BY ProbeInTable DEF TypeOK
  <2>2. TypeOK'
    BY <1>1, <2>1 DEF Call, TypeOK, table, resize, Strings, Slots
  <2>3. Load'
    BY <1>1 DEF Call, Load, table, resize
  <2> QED BY <2>2, <2>3 DEF IInv
<1>2. CASE FindEmpty
  <2>1. TypeOK'
    BY <1>2 DEF FindEmpty, TypeOK, table, resize, Strings
  <2>2. Load'
    BY <1>2 DEF FindEmpty, Load, table, resize
  <2> QED BY <2>1, <2>2 DEF IInv
<1>3. CASE FindMatch
  <2>1. index \in Slots(capacity)
    BY <1>3 DEF FindMatch, TypeOK, Slots
  <2>2. TypeOK'
    BY <1>3, <2>1 DEF FindMatch, TypeOK, table, resize, Strings
  <2>3. Load'
    BY <1>3 DEF FindMatch, Load, table, resize
  <2> QED BY <2>2, <2>3 DEF IInv
<1>4. CASE FindOther
  <2>1. NextSlot(index, capacity) \in Slots(capacity)
    BY <1>4, ProbeInTable DEF FindOther, TypeOK
  <2>2. TypeOK'
    BY <1>4, <2>1 DEF FindOther, TypeOK, table, resize, Strings, Slots
  <2>3. Load'
    BY <1>4 DEF FindOther, Load, table, resize
  <2> QED BY <2>2, <2>3 DEF IInv
<1>5. CASE Create
  <2>1. objects' \in Seq(Text) /\ Strings \subseteq Strings'
    BY <1>5, StringsGrow DEF Create, TypeOK
  <2>2. TypeOK'
    BY <1>5, <2>1 DEF Create, TypeOK, table, resize
  <2>3. Load'
    BY <1>5 DEF Create, Load, table, resize
  <2> QED BY <2>2, <2>3 DEF IInv
<1>6. CASE InternStart
  <2>1. capacity > 0 /\ (count + 1) * 4 <= capacity * 3
    BY <1>6 DEF InternStart, NeedsGrowth, TypeOK
  <2>2. HomeSlot(text, capacity) \in Slots(capacity)
    BY <1>6, <2>1, ProbeInTable DEF InternStart, TypeOK
  <2>3. TypeOK'
    BY <1>6, <2>2 DEF InternStart, TypeOK, table, resize, Strings, Slots
  <2>4. Load'
    BY <1>6, <2>1 DEF InternStart, Load, table, resize
  <2> QED BY <2>3, <2>4 DEF IInv
<1>7. CASE Grow
  <2>1. NewCapacity(capacity) \in Nat /\ NewCapacity(capacity) >= MinCapacity
    BY MinCapacityAssumption DEF NewCapacity, TypeOK
  <2>2. TypeOK'
    BY <1>7, <2>1 DEF Grow, TypeOK, Strings, Slots
  <2>3. Load'
    BY <1>7, <2>1 DEF Grow, Load
  <2> QED BY <2>2, <2>3 DEF IInv
<1>8. CASE RehashSkip
  <2>1. TypeOK'
    BY <1>8 DEF RehashSkip, TypeOK, table, Strings
  <2>2. Load'
    BY <1>8 DEF RehashSkip, Load, TypeOK, table
  <2> QED BY <2>1, <2>2 DEF IInv
<1>9. CASE RehashKey
  <2>1. /\ capacity = 2 * oldCapacity
        /\ count + 1 <= oldCapacity
        /\ oldCapacity >= MinCapacity
        /\ i \in Slots(oldCapacity)
    BY <1>9, MinCapacityAssumption DEF RehashKey, Load, TypeOK, NewCapacity, Slots
  <2>2. ~NeedsGrowth(count, capacity)
    BY <2>1, MinCapacityAssumption DEF NeedsGrowth, TypeOK
  <2>3. oldEntries[i] \in Strings
    BY <1>9, <2>1 DEF RehashKey, TypeOK
  <2>4. objects[oldEntries[i]] \in Text
    BY <2>3, ElementOfSeq DEF Strings, TypeOK
  <2>5. HomeSlot(objects[oldEntries[i]], capacity) \in Slots(capacity)
    BY <2>1, <2>4, ProbeInTable, MinCapacityAssumption DEF TypeOK
  <2>6. TypeOK'
    BY <1>9, <2>1, <2>2, <2>5 DEF RehashKey, TypeOK, table, resize, Strings, Slots
  <2>7. Load'
    BY <1>9, <2>2 DEF RehashKey, Load, table, resize
  <2> QED BY <2>6, <2>7 DEF IInv
<1>10. CASE RehashDone
  <2>1. capacity >= MinCapacity /\ (count + 1) * 4 <= capacity * 3
    BY <1>10, MinCapacityAssumption DEF RehashDone, Load, TypeOK, NewCapacity
  <2>2. HomeSlot(text, capacity) \in Slots(capacity)
    BY <1>10, <2>1, ProbeInTable, MinCapacityAssumption DEF RehashDone, TypeOK
  <2>3. TypeOK'
    BY <1>10, <2>2 DEF RehashDone, TypeOK, table, Strings, Slots
  <2>4. Load'
    BY <1>10, <2>1 DEF RehashDone, Load, table
  <2> QED BY <2>3, <2>4 DEF IInv
<1>11. CASE ProbeOccupied
  <2>1. NextSlot(index, capacity) \in Slots(capacity)
    BY <1>11, ProbeInTable DEF ProbeOccupied, TypeOK
  <2>2. TypeOK'
    BY <1>11, <2>1 DEF ProbeOccupied, TypeOK, table, resize, Strings, Slots
  <2>3. Load'
    BY <1>11 DEF ProbeOccupied, Load, table, resize
  <2> QED BY <2>2, <2>3 DEF IInv
<1>12. CASE Store
  <2>1. string \in Strings \cup {NULL}
    BY LenProperties DEF string, Strings, TypeOK
  <2>a. entries' \in [Slots(capacity) -> Strings \cup {NULL}]
    BY <1>12, <2>1 DEF Store, TypeOK
  <2>2. TypeOK'
    BY <1>12, <2>1, <2>a DEF Store, TypeOK, resize, Strings
  <2>3. Load'
    BY <1>12 DEF Store, Load, resize
  <2> QED BY <2>2, <2>3 DEF IInv
<1>13. CASE StoreOld
  <2>1. oldEntries[i] \in Strings \cup {NULL}
    BY <1>13 DEF StoreOld, TypeOK, Slots
  <2>a. entries' \in [Slots(capacity) -> Strings \cup {NULL}]
    BY <1>13, <2>1 DEF StoreOld, TypeOK
  <2>2. TypeOK'
    BY <1>13, <2>1, <2>a DEF StoreOld, TypeOK, Strings
  <2>3. Load'
    BY <1>13 DEF StoreOld, Load, TypeOK
  <2> QED BY <2>2, <2>3 DEF IInv
<1>14. CASE OutOfMemory
  <2>1. TypeOK'
    BY <1>14 DEF OutOfMemory, TypeOK, table, resize, Strings
  <2>2. Load'
    BY <1>14 DEF OutOfMemory, Load, table, resize
  <2> QED BY <2>1, <2>2 DEF IInv
<1>15. CASE UNCHANGED vars
  BY <1>15 DEF vars, IInv, TypeOK, Load, Strings
<1> QED
  BY <1>1, <1>2, <1>3, <1>4, <1>5, <1>6, <1>7, <1>8, <1>9, <1>10, <1>11, <1>12,
     <1>13, <1>14, <1>15
  DEF Next, Step, Find, Rehash, Terminated

\* The empty table of a new machine.
LEMMA Initial == Init => IInv
<1> SUFFICES ASSUME Init PROVE IInv
  OBVIOUS
<1>1. objects \in Seq(Text)
  BY EmptySeq DEF Init
<1>2. TypeOK
  BY <1>1, NoTextAssumption DEF Init, TypeOK, Slots, Phases, NULL
<1>3. Load
  BY DEF Init, Load
<1> QED BY <1>2, <1>3 DEF IInv

\* The types and the load hold in every state.
LEMMA Invariant == Spec => []IInv
BY Initial, Inductive, PTL DEF Spec

\* Every probe stays in the table and every rehash in the old one, with any hash
\* function: the loops of mobjects.c index no array out of its bounds.
THEOREM TypeCorrect == Spec => []TypeOK
BY Invariant, PTL DEF IInv

\* resize_interning is never entered from within resize_interning, though it calls
\* intern_string, which may call it: the table it grows to holds all old keys.
THEOREM GrowthIsNotNested == Spec => []NoNestedGrowth
<1>1. IInv => NoNestedGrowth
  BY DEF IInv, Load, NoNestedGrowth
<1> QED BY <1>1, Invariant, PTL
-----------------------------------------------------------------------------

Used(n, f) == {k \in Slots(n) : f[k] # NULL}

\* The field count of the table is the number of its slots in use.
Counted == count = Cardinality(Used(capacity, entries))

\* The slot that a new string or an old key goes to becomes occupied.
Working == /\ pc \in {"intern", "rehash", "reprobe", "probe"} => objects # <<>>
           /\ pc = "reprobe" => oldEntries[i] # NULL

\* intern_string runs for an object, and its inner call for a key that is not NULL.
LEMMA WorkingInductive == IInv /\ Working /\ [Next]_vars => Working'
<1> SUFFICES ASSUME TypeOK, Working, [Next]_vars PROVE Working'
  BY DEF IInv
<1>1. CASE Create
  <2>1. objects' # <<>>
    BY <1>1, AppendProperties DEF Create, TypeOK
  <2> QED BY <1>1, <2>1 DEF Create, Working
<1>2. CASE ~Create
  BY <1>2
  DEF Next, Step, Find, Rehash, Terminated, vars, table, resize, Working, Call,
      FindEmpty, FindMatch, FindOther, InternStart, Grow, RehashSkip, RehashKey,
      RehashDone, ProbeOccupied, Store, StoreOld, OutOfMemory
<1> QED BY <1>1, <1>2

\* Filling an empty slot of a table adds one to the slots in use.
LEMMA Fill ==
  ASSUME NEW n \in Nat, NEW f \in [Slots(n) -> Nat], NEW k \in Slots(n), f[k] = NULL,
         NEW v \in Nat \ {0}
  PROVE  Cardinality(Used(n, [f EXCEPT ![k] = v])) = Cardinality(Used(n, f)) + 1
<1>1. IsFiniteSet(Used(n, f))
  <2>1. IsFiniteSet(Slots(n))
    BY FS_Interval DEF Slots
  <2>2. Used(n, f) \in SUBSET Slots(n)
    BY DEF Used
  <2> QED BY <2>1, <2>2, FS_Subset
<1>2. k \notin Used(n, f) /\ Used(n, [f EXCEPT ![k] = v]) = Used(n, f) \cup {k}
  BY DEF Used, NULL
<1> QED BY <1>1, <1>2, FS_AddElement

\* count follows the slots in use, and starts again with the new table.
LEMMA CountedInductive == IInv /\ Working /\ Counted /\ [Next]_vars => Counted'
<1> SUFFICES ASSUME TypeOK, Working, Counted, [Next]_vars PROVE Counted'
  BY DEF IInv
<1>1. entries \in [Slots(capacity) -> Nat] /\ capacity \in Nat
  BY DEF TypeOK, Strings, NULL
<1>2. CASE Store
  <2>1. string \in Nat \ {0}
    BY <1>2, EmptySeq DEF Store, Working, TypeOK, string
  <2>2. index \in Slots(capacity)
    BY <1>2 DEF Store, TypeOK, Slots
  <2>3. Cardinality(Used(capacity, [entries EXCEPT ![index] = string]))
          = Cardinality(Used(capacity, entries)) + 1
    BY <1>1, <1>2, <2>1, <2>2, Fill DEF Store
  <2> QED BY <1>2, <2>3 DEF Store, Counted
<1>3. CASE StoreOld
  <2>1. oldEntries[i] \in Nat \ {0}
    BY <1>3 DEF StoreOld, Working, TypeOK, Slots, Strings, NULL
  <2>2. index \in Slots(capacity)
    BY <1>3 DEF StoreOld, TypeOK, Slots
  <2>3. Cardinality(Used(capacity, [entries EXCEPT ![index] = oldEntries[i]]))
          = Cardinality(Used(capacity, entries)) + 1
    BY <1>1, <1>3, <2>1, <2>2, Fill DEF StoreOld
  <2> QED BY <1>3, <2>3 DEF StoreOld, Counted
<1>4. CASE Grow
  <2>1. Used(capacity, entries)' = {} /\ count' = 0
    BY <1>4 DEF Grow, Used
  <2> QED BY <2>1, FS_EmptySet DEF Counted
<1>5. CASE UNCHANGED table
  BY <1>5 DEF table, Counted
<1> QED
  BY <1>2, <1>3, <1>4, <1>5
  DEF Next, Step, Find, Rehash, Terminated, vars, table, Call, FindEmpty,
      FindMatch, FindOther, Create, InternStart, RehashSkip, RehashKey,
      RehashDone, ProbeOccupied, OutOfMemory

\* Wherever a probe runs, a slot is empty: with any hash function, and also while
\* the old keys move, find_interned_string and intern_string end.
THEOREM ProbesMeetAFreeSlot == Spec => []FreeSlot
<1>1. Init => Working /\ Counted
  <2> SUFFICES ASSUME Init PROVE Working /\ Counted
    OBVIOUS
  <2>1. Used(capacity, entries) = {}
    BY DEF Init, Used, Slots
  <2> QED BY <2>1, FS_EmptySet DEF Init, Working, Counted
<1>2. IInv /\ Counted => FreeSlot
  <2> SUFFICES ASSUME TypeOK, Load, Counted, pc \in {"find", "probe", "reprobe"}
               PROVE  \E k \in Slots(capacity) : entries[k] = NULL
    BY DEF IInv, FreeSlot
  <2>1. count < capacity
    BY MinCapacityAssumption DEF TypeOK, Load, NewCapacity
  <2>2. IsFiniteSet(Slots(capacity)) /\ Cardinality(Slots(capacity)) = capacity
    BY FS_Interval DEF Slots, TypeOK
  <2>3. Used(capacity, entries) # Slots(capacity)
    BY <2>1, <2>2 DEF Counted, TypeOK
  <2> QED BY <2>3 DEF Used
<1> QED
  BY <1>1, <1>2, Invariant, WorkingInductive, CountedInductive, PTL DEF Spec

-----------------------------------------------------------------------------
(* One object per text. *)

\* A probe for the text of a string in the table reaches the string's slot.
Placed == \A j \in Slots(capacity) :
            entries[j] # NULL => Reachable(entries, capacity, entries[j], j)

\* No string is in two slots of the table, or of the table being left.
Once(f, n) == \A j, k \in Slots(n) : f[j] # NULL /\ f[j] = f[k] => j = k

Single == Once(entries, capacity) /\ Once(oldEntries, oldCapacity)

\* All slots from the home of t to the one being probed are in use.
Passed(t) == \A k \in Slots(capacity) :
               Before(HomeSlot(t, capacity), k, index) => entries[k] # NULL

\* What a loop that probes has learned of the slots it has passed.
Learned ==
  /\ pc = "find" =>
       /\ Passed(text)
       /\ \A k \in Slots(capacity) :
            Before(HomeSlot(text, capacity), k, index) => objects[entries[k]] # text
  /\ pc = "create" => \A s \in Strings : objects[s] # text
  /\ pc = "probe" => Passed(text)
  /\ pc = "reprobe" => Passed(objects[oldEntries[i]])

\* The new object is in no table yet, and carries the text asked for.
Pending ==
  pc \in {"intern", "rehash", "reprobe", "probe"} =>
    /\ objects[string] = text
    /\ \A k \in Slots(capacity) : entries[k] # string
    /\ \A k \in Slots(oldCapacity) : oldEntries[k] # string

InTable(s) == \E j \in Slots(capacity) : entries[j] = s

\* Every older string is in the table, or in the part of the old one still to move.
Complete ==
  /\ pc \in {"idle", "find", "create"} => \A s \in Strings : InTable(s)
  /\ pc \in {"intern", "probe"} => \A s \in Strings \ {string} : InTable(s)
  /\ pc \in {"rehash", "reprobe"} =>
       \A s \in Strings \ {string} :
         InTable(s) \/ \E k \in i .. oldCapacity - 1 : oldEntries[k] = s

\* What a growing table holds comes from the part of the old one already moved.
Moved == pc \in {"rehash", "reprobe"} =>
           \A j \in Slots(capacity) :
             entries[j] # NULL => \E k \in 0 .. i - 1 : oldEntries[k] = entries[j]

TableInv == /\ Placed
            /\ Single
            /\ Learned
            /\ Pending
            /\ Complete
            /\ Moved
            /\ Canonical

AllInv == IInv /\ Working /\ TableInv

-----------------------------------------------------------------------------

\* The circular order of the probes: two slots are in order one way or the other,
\* and what comes before the next slot comes before this one, or is this one.
LEMMA ProbeOrder ==
  ASSUME NEW n \in Nat, n > 0, NEW h \in Slots(n), NEW j \in Slots(n), NEW k \in Slots(n)
  PROVE  /\ j # k => Before(h, j, k) \/ Before(h, k, j)
         /\ Before(h, k, NextSlot(j, n)) => k = j \/ Before(h, k, j)
         /\ ~Before(h, k, h)
<1>1. NextSlot(j, n) = IF j + 1 = n THEN 0 ELSE j + 1
  BY DEF NextSlot, Slots
<1> QED BY <1>1 DEF Before, Slots

\* What TypeOK says of the table, for the steps below.
LEMMA TableType ==
  ASSUME TypeOK
  PROVE  /\ capacity \in Nat
         /\ oldCapacity \in Nat
         /\ DOMAIN entries = Slots(capacity)
         /\ DOMAIN oldEntries = Slots(oldCapacity)
         /\ \A k \in Slots(capacity) :
              /\ entries[k] \in Nat
              /\ entries[k] # NULL => /\ entries[k] \in Strings
                                      /\ objects[entries[k]] \in Text
         /\ \A k \in Slots(oldCapacity) :
              /\ oldEntries[k] \in Nat
              /\ oldEntries[k] # NULL => /\ oldEntries[k] \in Strings
                                         /\ objects[oldEntries[k]] \in Text
         /\ string \in Nat
         /\ objects # <<>> => string \in Strings
<1>1. /\ entries \in [Slots(capacity) -> Strings \cup {NULL}]
      /\ oldEntries \in [Slots(oldCapacity) -> Strings \cup {NULL}]
      /\ capacity \in Nat
      /\ oldCapacity \in Nat
  BY DEF TypeOK
<1>2. \A s \in Strings : s \in Nat /\ objects[s] \in Text
  BY ElementOfSeq DEF TypeOK, Strings
<1>3. string \in Nat /\ (objects # <<>> => string \in Strings)
  BY LenProperties, EmptySeq DEF TypeOK, Strings, string
<1> QED BY <1>1, <1>2, <1>3 DEF NULL

\* The new object is the last; the others keep rank and text.
LEMMA CreateAppends ==
  ASSUME TypeOK, Create
  PROVE  /\ Strings' = Strings \cup {string'}
         /\ string' \notin Strings
         /\ string' # NULL
         /\ objects'[string'] = text
         /\ \A s \in Strings : objects'[s] = objects[s]
<1>1. text \in Text
  BY DEF Create, TypeOK
<1>2. /\ Len(objects') = Len(objects) + 1
      /\ \A s \in 1 .. Len(objects) : objects'[s] = objects[s]
      /\ objects'[Len(objects) + 1] = text
  BY <1>1, AppendProperties DEF Create, TypeOK
<1>3. Len(objects) \in Nat
  BY LenProperties DEF TypeOK
<1> QED BY <1>2, <1>3 DEF Strings, string, NULL

-----------------------------------------------------------------------------

\* The slot at which a probe ends is right for the string that is put there.
LEMMA FillKeepsPlaced ==
  ASSUME TypeOK, Placed, NEW v \in Strings, index \in Slots(capacity),
         entries[index] = NULL, Passed(objects[v]),
         entries' = [entries EXCEPT ![index] = v],
         UNCHANGED <<objects, capacity>>
  PROVE  Placed'
<1>1. \A k \in Slots(capacity) : entries[k] # NULL => entries'[k] = entries[k]
  BY TableType
<1>2. entries'[index] = v /\ v # NULL
  BY TableType DEF Strings, NULL
<1>3. \A k \in Slots(capacity) : k # index => entries'[k] = entries[k]
  BY TableType
<1>4. ASSUME NEW j \in Slots(capacity), entries'[j] # NULL
      PROVE  Reachable(entries', capacity, entries'[j], j)
  <2>1. CASE j = index
    <3>1. ASSUME NEW k \in Slots(capacity),
                 Before(HomeSlot(objects[v], capacity), k, index)
          PROVE  entries'[k] # NULL
      BY <1>1, <3>1 DEF Passed
    <3> QED BY <2>1, <1>2, <3>1 DEF Reachable, HomeSlot
  <2>2. CASE j # index
    <3>1. entries'[j] = entries[j] /\ Reachable(entries, capacity, entries[j], j)
      BY <1>3, <1>4, <2>2 DEF Placed
    <3> QED BY <1>1, <3>1 DEF Reachable, HomeSlot
  <2> QED BY <2>1, <2>2
<1> QED BY <1>4 DEF Placed, Reachable, HomeSlot

\* A filled slot stays in the way of the probes that pass it, and a string is put
\* where its probe ends.
LEMMA PlacedInductive == AllInv /\ [Next]_vars => Placed'
<1> SUFFICES ASSUME TypeOK, Load, Working, TableInv, [Next]_vars PROVE Placed'
  BY DEF AllInv, IInv
<1>1. Placed
  BY DEF TableInv
<1>2. CASE Store
  <2>1. string \in Strings /\ objects[string] = text /\ Passed(text)
    BY <1>2, TableType DEF Store, Working, TableInv, Pending, Learned
  <2>2. index \in Slots(capacity)
    BY <1>2 DEF Store, TypeOK, Slots
  <2> QED BY <1>1, <1>2, <2>1, <2>2, FillKeepsPlaced DEF Store
<1>3. CASE StoreOld
  <2>1. oldEntries[i] \in Strings /\ Passed(objects[oldEntries[i]])
    BY <1>3, TableType DEF StoreOld, Working, TypeOK, TableInv, Learned, Slots
  <2>2. index \in Slots(capacity)
    BY <1>3 DEF StoreOld, TypeOK, Slots
  <2> QED BY <1>1, <1>3, <2>1, <2>2, FillKeepsPlaced DEF StoreOld
<1>4. CASE Grow
  BY <1>4 DEF Grow, Placed
<1>5. CASE Create
  <2>1. \A s \in Strings : objects'[s] = objects[s]
    BY <1>5, CreateAppends
  <2>2. entries' = entries /\ capacity' = capacity
    BY <1>5 DEF Create, table
  <2>3. \A k \in Slots(capacity) : entries[k] # NULL => entries[k] \in Strings
    BY TableType
  <2> QED BY <1>1, <2>1, <2>2, <2>3 DEF Placed, Reachable, HomeSlot
<1>6. CASE UNCHANGED <<objects, entries, capacity>>
  BY <1>1, <1>6 DEF Placed, Reachable, HomeSlot
<1> QED
  BY <1>2, <1>3, <1>4, <1>5, <1>6
  DEF Next, Step, Find, Rehash, Terminated, vars, table, Call, FindEmpty,
      FindMatch, FindOther, InternStart, RehashSkip, RehashKey, RehashDone,
      ProbeOccupied, OutOfMemory

-----------------------------------------------------------------------------

\* A string enters a table only when it is in no slot of it.
LEMMA SingleInductive == AllInv /\ [Next]_vars => Single'
<1> SUFFICES ASSUME TypeOK, Load, Working, TableInv, [Next]_vars PROVE Single'
  BY DEF AllInv, IInv
<1>1. Single
  BY DEF TableInv
<1>2. CASE Store
  <2>1. \A k \in Slots(capacity) : entries[k] # string
    BY <1>2 DEF Store, TableInv, Pending
  <2>2. DOMAIN entries = Slots(capacity)
    BY TableType
  <2> QED BY <1>1, <1>2, <2>1, <2>2 DEF Store, Single, Once, resize
<1>3. CASE StoreOld
  <2>1. i \in Slots(oldCapacity) /\ oldEntries[i] # NULL
    BY <1>3 DEF StoreOld, Working, TypeOK, Slots
  <2>2. \A k \in 0 .. i - 1 : k \in Slots(oldCapacity) /\ k # i
    BY <2>1 DEF Slots, TypeOK
  <2>3. \A k \in Slots(capacity) : entries[k] # oldEntries[i]
    BY <1>1, <1>3, <2>1, <2>2 DEF StoreOld, TableInv, Moved, Single, Once
  <2>4. DOMAIN entries = Slots(capacity)
    BY TableType
  <2> QED BY <1>1, <1>3, <2>3, <2>4 DEF StoreOld, Single, Once
<1>4. CASE Grow
  BY <1>1, <1>4 DEF Grow, Single, Once
<1>5. CASE RehashDone
  BY <1>1, <1>5 DEF RehashDone, Single, Once, Slots, NULL, table
<1>6. CASE UNCHANGED <<entries, capacity, oldEntries, oldCapacity>>
  BY <1>1, <1>6 DEF Single, Once
<1> QED
  BY <1>2, <1>3, <1>4, <1>5, <1>6
  DEF Next, Step, Find, Rehash, Terminated, vars, table, resize, Call, FindEmpty,
      FindMatch, FindOther, Create, InternStart, RehashSkip, RehashKey,
      ProbeOccupied, OutOfMemory

\* The loop of resize_interning puts in the new table what it meets in the old one.
LEMMA MovedInductive == AllInv /\ [Next]_vars => Moved'
<1> SUFFICES ASSUME TypeOK, Load, Working, TableInv, [Next]_vars PROVE Moved'
  BY DEF AllInv, IInv
<1>1. Moved /\ i \in Nat
  BY DEF TableInv, TypeOK
<1>2. CASE StoreOld
  <2>1. \A k \in 0 .. i - 1 : k \in 0 .. i' - 1
    BY <1>1, <1>2 DEF StoreOld
  <2>2. i \in 0 .. i' - 1
    BY <1>1, <1>2 DEF StoreOld
  <2>3. DOMAIN entries = Slots(capacity)
    BY TableType
  <2>4. \A j \in Slots(capacity) :
          entries'[j] = IF j = index THEN oldEntries[i] ELSE entries[j]
    BY <1>2, <2>3 DEF StoreOld
  <2>5. pc = "reprobe" /\ UNCHANGED <<capacity, oldEntries>>
    BY <1>2 DEF StoreOld
  <2>6. ASSUME NEW j \in Slots(capacity), entries'[j] # NULL
        PROVE  \E k \in 0 .. i' - 1 : oldEntries[k] = entries'[j]
    BY <1>1, <2>1, <2>2, <2>4, <2>5, <2>6 DEF Moved
  <2> QED BY <2>5, <2>6 DEF Moved
<1>3. CASE RehashSkip
  <2>1. \A k \in 0 .. i - 1 : k \in 0 .. i' - 1
    BY <1>1, <1>3 DEF RehashSkip
  <2> QED BY <1>1, <1>3, <2>1 DEF RehashSkip, Moved, table
<1>4. CASE Grow
  BY <1>4 DEF Grow, Moved
<1>5. CASE ~StoreOld /\ ~RehashSkip /\ ~Grow
  BY <1>1, <1>5
  DEF Next, Step, Find, Rehash, Terminated, vars, table, resize, Call, FindEmpty,
      FindMatch, FindOther, Create, InternStart, RehashKey, RehashDone,
      ProbeOccupied, Store, OutOfMemory, Moved
<1> QED BY <1>2, <1>3, <1>4, <1>5

-----------------------------------------------------------------------------

\* A probe that has gone one slot further has passed this slot too.
LEMMA PassOne ==
  ASSUME TypeOK, NEW t \in Text, index \in Slots(capacity),
         NEW k \in Slots(capacity),
         Before(HomeSlot(t, capacity), k, NextSlot(index, capacity))
  PROVE  k = index \/ Before(HomeSlot(t, capacity), k, index)
<1>1. capacity \in Nat /\ capacity > 0
  BY DEF TypeOK, Slots
<1>2. HomeSlot(t, capacity) \in Slots(capacity)
  BY <1>1, ProbeInTable
<1> QED BY <1>1, <1>2, ProbeOrder

\* A probe that starts has passed no slot.
LEMMA PassNone ==
  ASSUME TypeOK, capacity > 0, NEW t \in Text, NEW k \in Slots(capacity)
  PROVE  ~Before(HomeSlot(t, capacity), k, HomeSlot(t, capacity))
<1>1. HomeSlot(t, capacity) \in Slots(capacity) /\ capacity \in Nat
  BY ProbeInTable DEF TypeOK
<1> QED BY <1>1, ProbeOrder

\* find_interned_string that meets an empty slot has looked at every slot where
\* its text can be: the text is in no string.
LEMMA EmptyMeansAbsent ==
  ASSUME TypeOK, Placed, Complete, Learned, FindEmpty
  PROVE  \A s \in Strings : objects[s] # text
<1>1. SUFFICES ASSUME NEW s \in Strings, objects[s] = text PROVE FALSE
  OBVIOUS
<1>2. PICK j \in Slots(capacity) : entries[j] = s
  BY DEF FindEmpty, Complete, InTable
<1>3. s # NULL
  BY DEF Strings, NULL
<1>4. index \in Slots(capacity) /\ text \in Text /\ capacity \in Nat /\ capacity > 0
  BY DEF FindEmpty, TypeOK, Slots
<1>5. j # index
  BY <1>2, <1>3 DEF FindEmpty
<1>6. ~Before(HomeSlot(text, capacity), index, j)
  BY <1>1, <1>2, <1>3, <1>4 DEF Placed, Reachable, HomeSlot, FindEmpty
<1>7. ~Before(HomeSlot(text, capacity), j, index)
  BY <1>1, <1>2 DEF Learned, FindEmpty
<1>8. HomeSlot(text, capacity) \in Slots(capacity)
  BY <1>4, ProbeInTable
<1> QED BY <1>4, <1>5, <1>6, <1>7, <1>8, ProbeOrder

\* A probe goes on past slots in use only, and find_interned_string past other texts.
LEMMA LearnedInductive == AllInv /\ [Next]_vars => Learned'
<1> SUFFICES ASSUME TypeOK, Load, Working, TableInv, [Next]_vars PROVE Learned'
  BY DEF AllInv, IInv
<1>1. Learned /\ Complete /\ Placed
  BY DEF TableInv
<1>2. ASSUME NEW t \in Text, Call(t) PROVE Learned'
  <2>1. CASE capacity = 0
    <3>1. Strings = {}
      BY <1>1, <1>2, <2>1 DEF Call, Complete, InTable, Slots
    <3> QED BY <1>2, <2>1, <3>1 DEF Call, Learned, Strings
  <2>2. CASE capacity # 0
    <3>1. capacity > 0
      BY <2>2 DEF TypeOK
    <3>2. \A k \in Slots(capacity) :
            ~Before(HomeSlot(t, capacity), k, HomeSlot(t, capacity))
      BY <3>1, PassNone
    <3>3. /\ pc' = "find" /\ text' = t /\ index' = HomeSlot(t, capacity)
          /\ capacity' = capacity
      BY <1>2, <2>2 DEF Call, table
    <3> QED BY <3>2, <3>3 DEF Learned, Passed, HomeSlot
  <2> QED BY <2>1, <2>2
<1>3. CASE FindEmpty
  <2>1. \A s \in Strings : objects[s] # text
    BY <1>1, <1>3, EmptyMeansAbsent
  <2> QED BY <1>3, <2>1 DEF FindEmpty, Learned, Strings
<1>4. CASE FindMatch \/ Store
  BY <1>4 DEF FindMatch, Store, Learned
<1>5. CASE FindOther
  <2>1. text \in Text /\ index \in Slots(capacity)
    BY <1>5 DEF FindOther, TypeOK, Slots
  <2>2. /\ pc = "find" /\ pc' = "find"
        /\ index' = NextSlot(index, capacity)
        /\ UNCHANGED <<objects, entries, capacity, text>>
        /\ entries[index] # NULL /\ objects[entries[index]] # text
    BY <1>5 DEF FindOther, table
  <2>3. ASSUME NEW k \in Slots(capacity),
               Before(HomeSlot(text, capacity), k, index')
        PROVE  entries[k] # NULL /\ objects[entries[k]] # text
    <3>1. k = index \/ Before(HomeSlot(text, capacity), k, index)
      BY <2>1, <2>2, <2>3, PassOne
    <3> QED BY <1>1, <2>2, <3>1 DEF Learned, Passed
  <2> QED BY <2>2, <2>3 DEF Learned, Passed, HomeSlot
<1>6. CASE Create \/ Grow \/ RehashSkip \/ StoreOld
  BY <1>6 DEF Create, Grow, RehashSkip, StoreOld, Learned
<1>7. CASE InternStart \/ RehashDone
  <2>1. pc' = "probe" /\ index' = HomeSlot(text, capacity) /\ UNCHANGED <<table, text>>
    BY <1>7 DEF InternStart, RehashDone
  <2>2. capacity > 0 /\ text \in Text
    BY <1>7, MinCapacityAssumption
    DEF InternStart, RehashDone, NeedsGrowth, TypeOK, Load, NewCapacity
  <2>3. \A k \in Slots(capacity) : ~Before(HomeSlot(text, capacity), k, index')
    BY <2>1, <2>2, PassNone
  <2> QED BY <2>1, <2>3 DEF Learned, Passed, HomeSlot, table
<1>8. CASE RehashKey
  <2>1. i \in Slots(oldCapacity) /\ oldEntries[i] # NULL
    BY <1>8 DEF RehashKey, TypeOK, Slots
  <2>2. objects[oldEntries[i]] \in Text
    BY <2>1, TableType
  <2>3. capacity > 0
    BY <1>8, MinCapacityAssumption DEF RehashKey, Load, NewCapacity, TypeOK
  <2>4. \A k \in Slots(capacity) :
          LET h == HomeSlot(objects[oldEntries[i]], capacity)
          IN  ~Before(h, k, h)
    BY <2>2, <2>3, PassNone
  <2>5. UNCHANGED <<objects, table, resize, text>>
    BY <1>8 DEF RehashKey
  <2>6. CASE NeedsGrowth(count, capacity)
    BY <1>8, <2>6 DEF RehashKey, Learned
  <2>7. CASE ~NeedsGrowth(count, capacity)
    <3>1. pc' = "reprobe" /\ index' = HomeSlot(objects[oldEntries[i]], capacity)
      BY <1>8, <2>7 DEF RehashKey
    <3> QED BY <2>4, <2>5, <3>1 DEF Learned, Passed, HomeSlot, table, resize
  <2> QED BY <2>6, <2>7
<1>9. CASE ProbeOccupied
  <2>1. index \in Slots(capacity)
    BY <1>9 DEF ProbeOccupied, TypeOK, Slots
  <2>2. /\ index' = NextSlot(index, capacity)
        /\ entries[index] # NULL
        /\ UNCHANGED <<objects, table, resize, text, pc>>
    BY <1>9 DEF ProbeOccupied
  <2>3. ASSUME NEW t \in Text, Passed(t) PROVE Passed(t)'
    <3>1. \A k \in Slots(capacity) :
            Before(HomeSlot(t, capacity), k, index') =>
              k = index \/ Before(HomeSlot(t, capacity), k, index)
      BY <2>1, <2>2, PassOne
    <3> QED BY <2>2, <2>3, <3>1 DEF Passed, HomeSlot, table
  <2>4. CASE pc = "probe"
    <3>1. text \in Text /\ Passed(text)
      BY <1>1, <2>4 DEF Learned, TypeOK
    <3>2. Passed(text)'
      BY <2>2, <2>3, <3>1 DEF Passed
    <3> QED BY <2>2, <2>4, <3>2 DEF Learned
  <2>5. CASE pc = "reprobe"
    <3>1. objects[oldEntries[i]] \in Text
      BY <2>5, TableType DEF Working, TypeOK, Slots
    <3>2. Passed(objects[oldEntries[i]])
      BY <1>1, <2>5 DEF Learned
    <3>3. Passed(objects[oldEntries[i]])'
      BY <2>2, <2>3, <3>1, <3>2 DEF Passed, resize
    <3> QED BY <2>2, <2>5, <3>3 DEF Learned
  <2> QED BY <1>9, <2>4, <2>5 DEF ProbeOccupied
<1>10. CASE OutOfMemory
  BY <1>10 DEF OutOfMemory, Learned
<1>11. CASE UNCHANGED vars
  BY <1>1, <1>11 DEF vars, Learned, Passed, HomeSlot, Strings
<1> QED
  BY <1>2, <1>3, <1>4, <1>5, <1>6, <1>7, <1>8, <1>9, <1>10, <1>11
  DEF Next, Step, Find, Rehash, Terminated

-----------------------------------------------------------------------------

\* The new object waits outside the tables until its own slot is found.
LEMMA PendingInductive == AllInv /\ [Next]_vars => Pending'
<1> SUFFICES ASSUME TypeOK, Load, Working, TableInv, [Next]_vars PROVE Pending'
  BY DEF AllInv, IInv
<1>1. Pending
  BY DEF TableInv
<1>2. CASE Create
  <2>1. /\ string' \notin Strings /\ string' # NULL
        /\ objects'[string'] = text
    BY <1>2, CreateAppends
  <2>2. /\ \A k \in Slots(capacity) : entries[k] # string'
        /\ \A k \in Slots(oldCapacity) : oldEntries[k] # string'
    BY <2>1, TableType
  <2> QED BY <1>2, <2>1, <2>2 DEF Create, Pending, table, resize
<1>3. CASE Grow
  <2>1. string # NULL
    BY <1>3, TableType DEF Grow, Working, Strings, NULL
  <2> QED BY <1>1, <1>3, <2>1 DEF Grow, Pending, string
<1>4. CASE StoreOld
  <2>1. i \in Slots(oldCapacity) /\ DOMAIN entries = Slots(capacity)
    BY <1>4, TableType DEF StoreOld, TypeOK, Slots
  <2> QED BY <1>1, <1>4, <2>1 DEF StoreOld, Pending, string
<1>5. CASE RehashDone
  BY <1>1, <1>5 DEF RehashDone, Pending, string, table, Slots
<1>6. CASE ~Create /\ ~Grow /\ ~StoreOld /\ ~RehashDone
  BY <1>1, <1>6
  DEF Next, Step, Find, Rehash, Terminated, vars, table, resize, Call, FindEmpty,
      FindMatch, FindOther, InternStart, RehashSkip, RehashKey, ProbeOccupied,
      Store, OutOfMemory, Pending, string
<1> QED BY <1>2, <1>3, <1>4, <1>5, <1>6

\* No step of a probe or of the growth drops a string from both tables.
LEMMA CompleteInductive == AllInv /\ [Next]_vars => Complete'
<1> SUFFICES ASSUME TypeOK, Load, Working, TableInv, [Next]_vars PROVE Complete'
  BY DEF AllInv, IInv
<1>1. Complete
  BY DEF TableInv
<1>2. CASE Create
  <2>1. Strings' = Strings \cup {string'}
    BY <1>2, CreateAppends
  <2> QED BY <1>1, <1>2, <2>1 DEF Create, Complete, InTable, table
<1>3. CASE Grow
  <2>1. /\ oldEntries' = entries /\ oldCapacity' = capacity /\ i' = 0
        /\ objects' = objects /\ pc = "intern" /\ pc' = "rehash"
    BY <1>3 DEF Grow
  <2>2. Slots(capacity) = 0 .. capacity - 1
    BY DEF Slots
  <2> QED BY <1>1, <2>1, <2>2 DEF Complete, InTable, Strings, string
<1>4. CASE RehashSkip
  <2>1. /\ pc = "rehash" /\ pc' = "rehash" /\ i' = i + 1
        /\ UNCHANGED <<objects, entries, capacity, oldEntries, oldCapacity>>
    BY <1>4 DEF RehashSkip, table
  <2>2. ASSUME NEW s \in Strings \ {string}, ~InTable(s)
        PROVE  \E k \in i' .. oldCapacity - 1 : oldEntries[k] = s
    <3>1. PICK k \in i .. oldCapacity - 1 : oldEntries[k] = s
      BY <1>1, <2>1, <2>2 DEF Complete
    <3>2. k # i
      BY <1>4, <3>1 DEF RehashSkip, Strings, NULL
    <3> QED BY <2>1, <3>1, <3>2 DEF TypeOK
  <2> QED BY <2>1, <2>2 DEF Complete, InTable, Strings, string
<1>5. CASE StoreOld
  <2>1. /\ pc = "reprobe" /\ pc' = "rehash" /\ i' = i + 1
        /\ entries[index] = NULL
        /\ UNCHANGED <<objects, capacity, oldEntries, oldCapacity>>
    BY <1>5 DEF StoreOld
  <2>2. index \in Slots(capacity)
    BY <1>5 DEF StoreOld, TypeOK, Slots
  <2>3. \A j \in Slots(capacity) :
          entries'[j] = IF j = index THEN oldEntries[i] ELSE entries[j]
    BY <1>5, TableType DEF StoreOld
  <2>4. ASSUME NEW s \in Strings \ {string}
        PROVE  \/ \E j \in Slots(capacity) : entries'[j] = s
               \/ \E k \in i' .. oldCapacity - 1 : oldEntries[k] = s
    <3>1. CASE InTable(s)
      <4>1. s # NULL
        BY DEF Strings, NULL
      <4> QED BY <2>1, <2>3, <3>1, <4>1 DEF InTable
    <3>2. CASE ~InTable(s)
      <4>1. PICK k \in i .. oldCapacity - 1 : oldEntries[k] = s
        BY <1>1, <2>1, <3>2 DEF Complete
      <4>2. CASE k = i
        BY <2>2, <2>3, <4>1, <4>2
      <4>3. CASE k # i
        BY <2>1, <4>1, <4>3 DEF TypeOK
      <4> QED BY <4>2, <4>3
    <3> QED BY <3>1, <3>2
  <2> QED BY <2>1, <2>4 DEF Complete, InTable, Strings, string
<1>6. CASE RehashDone
  <2>1. /\ pc = "rehash" /\ pc' = "probe" /\ i = oldCapacity
        /\ UNCHANGED <<objects, entries, capacity>>
    BY <1>6 DEF RehashDone, table
  <2>2. ~\E k \in i .. oldCapacity - 1 : TRUE
    BY <2>1 DEF TypeOK
  <2> QED BY <1>1, <2>1, <2>2 DEF Complete, InTable, Strings, string
<1>7. CASE Store
  <2>1. /\ pc = "probe" /\ pc' = "idle"
        /\ entries[index] = NULL
        /\ UNCHANGED <<objects, capacity>>
    BY <1>7 DEF Store
  <2>2. index \in Slots(capacity)
    BY <1>7 DEF Store, TypeOK, Slots
  <2>3. \A j \in Slots(capacity) :
          entries'[j] = IF j = index THEN string ELSE entries[j]
    BY <1>7, TableType DEF Store
  <2>4. ASSUME NEW s \in Strings
        PROVE  \E j \in Slots(capacity) : entries'[j] = s
    <3>1. CASE s = string
      BY <2>2, <2>3, <3>1
    <3>2. CASE s # string
      <4>1. InTable(s) /\ s # NULL
        BY <1>1, <2>1, <3>2 DEF Complete, Strings, NULL
      <4> QED BY <2>1, <2>3, <4>1 DEF InTable
    <3> QED BY <3>1, <3>2
  <2> QED BY <2>1, <2>4 DEF Complete, InTable, Strings
<1>8. CASE OutOfMemory
  BY <1>8 DEF OutOfMemory, Complete
<1>9. CASE \/ \E t \in Text : Call(t)
           \/ Find
           \/ InternStart
           \/ RehashKey
           \/ ProbeOccupied
           \/ UNCHANGED vars
  BY <1>1, <1>9
  DEF Find, vars, table, resize, Call, FindEmpty, FindMatch, FindOther,
      InternStart, RehashKey, ProbeOccupied, Complete, InTable, Strings, string
<1> QED
  BY <1>2, <1>3, <1>4, <1>5, <1>6, <1>7, <1>8, <1>9
  DEF Next, Step, Rehash, Terminated

\* An object is made only for a text that no object has.
LEMMA CanonicalInductive == AllInv /\ [Next]_vars => Canonical'
<1> SUFFICES ASSUME TypeOK, Load, Working, TableInv, [Next]_vars PROVE Canonical'
  BY DEF AllInv, IInv
<1>1. CASE Create
  <2>1. \A s \in Strings : objects[s] # text
    BY <1>1 DEF Create, TableInv, Learned
  <2>2. /\ Strings' = Strings \cup {string'}
        /\ string' \notin Strings
        /\ objects'[string'] = text
        /\ \A s \in Strings : objects'[s] = objects[s]
    BY <1>1, CreateAppends
  <2>3. \A a, b \in Strings : objects[a] = objects[b] => a = b
    BY DEF TableInv, Canonical
  <2>4. \A a, b \in Strings' : objects'[a] = objects'[b] => a = b
    BY <2>1, <2>2, <2>3
  <2> QED BY <2>4 DEF Canonical
<1>2. CASE UNCHANGED objects
  BY <1>2 DEF TableInv, Canonical, Strings
<1> QED
  BY <1>1, <1>2
  DEF Next, Step, Find, Rehash, Terminated, vars, Call, FindEmpty, FindMatch,
      FindOther, InternStart, Grow, RehashSkip, RehashKey, RehashDone,
      ProbeOccupied, Store, StoreOld, OutOfMemory

-----------------------------------------------------------------------------

\* All of it holds in every state.
LEMMA AllInvariant == Spec => []AllInv
<1>1. Init => AllInv
  <2> SUFFICES ASSUME Init PROVE AllInv
    OBVIOUS
  <2>1. IInv /\ Working
    BY Initial DEF Init, Working
  <2>2. Strings = {} /\ Slots(0) = {}
    BY EmptySeq DEF Init, Strings, Slots
  <2>3. TableInv
    BY <2>2
    DEF Init, TableInv, Placed, Single, Once, Learned, Pending, Complete, InTable,
        Moved, Canonical
  <2> QED BY <2>1, <2>3 DEF AllInv
<1>2. AllInv /\ [Next]_vars => AllInv'
  <2> SUFFICES ASSUME AllInv, [Next]_vars PROVE AllInv'
    OBVIOUS
  <2>1. IInv' /\ Working'
    BY Inductive, WorkingInductive DEF AllInv
  <2>2. TableInv'
    BY PlacedInductive, SingleInductive, LearnedInductive, PendingInductive,
       CompleteInductive, MovedInductive, CanonicalInductive
    DEF TableInv
  <2> QED BY <2>1, <2>2 DEF AllInv
<1> QED BY <1>1, <1>2, PTL DEF Spec

\* allocate_string never makes a second object for a text, with any hash function
\* and however often the table has grown: comparing strings by address, as OP_EQ
\* and m_strcmp do, compares their texts.
THEOREM OneObjectPerText == Spec => []Canonical
<1>1. AllInv => Canonical
  BY DEF AllInv, TableInv
<1> QED BY <1>1, AllInvariant, PTL

\* Between the calls every string is in exactly one slot, and the probe for its
\* text reaches that slot.
THEOREM NoStringIsLost == Spec => []Findable
<1>1. AllInv => Findable
  <2> SUFFICES ASSUME AllInv, pc = "idle", NEW s \in Strings
               PROVE  \E j \in Slots(capacity) :
                        /\ entries[j] = s
                        /\ Reachable(entries, capacity, s, j)
                        /\ \A k \in Slots(capacity) : entries[k] = s => k = j
    BY DEF Findable
  <2>1. PICK j \in Slots(capacity) : entries[j] = s
    BY DEF AllInv, TableInv, Complete, InTable
  <2>2. s # NULL
    BY DEF Strings, NULL
  <2>3. Reachable(entries, capacity, s, j)
    BY <2>1, <2>2 DEF AllInv, TableInv, Placed
  <2>4. \A k \in Slots(capacity) : entries[k] = s => k = j
    BY <2>1, <2>2 DEF AllInv, TableInv, Single, Once
  <2> QED BY <2>1, <2>3, <2>4
<1> QED BY <1>1, AllInvariant, PTL

-----------------------------------------------------------------------------

\* No text is being looked for between the calls.
Resting == pc = "idle" => text = NoText

\* The calls take and give back the text as their caller sees it.
LEMMA RestingInductive == Resting /\ [Next]_vars => Resting'
  BY DEF Next, Step, Find, Rehash, Terminated, vars, table, resize, Resting, Call,
         FindEmpty, FindMatch, FindOther, Create, InternStart, Grow, RehashSkip,
         RehashKey, RehashDone, ProbeOccupied, Store, StoreOld, OutOfMemory

\* While a new object waits for its slot, callers see the older ones only.
LEMMA PublishedBusy ==
  ASSUME Working, Pending, pc \in {"intern", "rehash", "reprobe", "probe"}
  PROVE  Published = SubSeq(objects, 1, Len(objects) - 1)
  BY DEF Working, Pending, Published

\* Outside intern_string callers see every object.
LEMMA PublishedQuiet ==
  ASSUME pc \in {"idle", "find", "create"}
  PROVE  Published = objects
  BY DEF Published

\* A text not yet found is a text.
LEMMA TextAsked ==
  ASSUME TypeOK, pc \in {"find", "create", "intern", "rehash", "reprobe", "probe"}
  PROVE  text # NoText
  BY NoTextAssumption DEF TypeOK

\* The object just allocated is not seen before it is in the table.
LEMMA CreateHidden ==
  ASSUME AllInv, Create
  PROVE  Published' = Published
<1>1. Published = objects
  BY PublishedQuiet DEF Create
<1>2. objects \in Seq(Text) /\ text \in Text /\ objects' = Append(objects, text)
  BY DEF AllInv, IInv, TypeOK, Create
<1>3. /\ objects' \in Seq(Text) /\ Len(objects') = Len(objects) + 1 /\ Len(objects) \in Nat
      /\ \A s \in 1 .. Len(objects) : objects'[s] = objects[s]
  BY <1>2, AppendProperties, LenProperties
<1>4. \A k \in Slots(capacity)' : entries'[k] # string'
  <2>1. entries' = entries /\ capacity' = capacity
    BY DEF Create, table
  <2>2. TypeOK
    BY DEF AllInv, IInv
  <2>3. string' \notin Strings /\ string' # NULL
    BY <2>2, CreateAppends
  <2>4. \A k \in Slots(capacity) : entries[k] \in Strings \cup {NULL}
    BY <2>2, TableType
  <2> QED BY <2>1, <2>3, <2>4
<1>5. objects' # <<>>
  BY <1>3, EmptySeq
<1>6. Published' = SubSeq(objects', 1, Len(objects') - 1)
  BY <1>4, <1>5 DEF Published, Create
<1>7. SubSeq(objects', 1, Len(objects)) = objects
  <2>1. Len(objects) \in 0 .. Len(objects')
    BY <1>3
  <2>2. /\ SubSeq(objects', 1, Len(objects)) \in Seq(Text)
        /\ Len(SubSeq(objects', 1, Len(objects))) = Len(objects)
        /\ \A s \in 1 .. Len(objects) : SubSeq(objects', 1, Len(objects))[s] = objects'[s]
    BY <1>3, <2>1, Popped
  <2> QED BY <1>2, <1>3, <2>2, SeqEqual
<1> QED BY <1>1, <1>3, <1>6, <1>7

\* Storing the new object in its slot is the answer of the abstract allocate_string to
\* a text it has not met.
LEMMA StoreAnswersNew ==
  ASSUME AllInv, Store
  PROVE  Abstract!AnswerNew
<1>1. pc = "probe" /\ pc' = "idle" /\ objects' = objects /\ result' = string /\ text' = NoText
  BY DEF Store
<1>2. Published = SubSeq(objects, 1, Len(objects) - 1) /\ Published' = objects
  <2>1. Published = SubSeq(objects, 1, Len(objects) - 1)
    BY <1>1, PublishedBusy DEF AllInv, TableInv
  <2> QED BY <1>1, <2>1 DEF Published
<1>3. /\ objects \in Seq(Text) /\ objects # <<>> /\ text \in Text
      /\ objects[Len(objects)] = text
  BY <1>1 DEF AllInv, IInv, TypeOK, Working, TableInv, Pending, string
<1>4. Len(objects) \in Nat /\ Len(objects) - 1 \in 0 .. Len(objects)
      /\ Len(objects) \in 1 .. Len(objects)
  BY <1>3, LenProperties, EmptySeq
<1> DEFINE older == SubSeq(objects, 1, Len(objects) - 1)
<1>5. /\ older \in Seq(Text) /\ Len(older) = Len(objects) - 1
      /\ DOMAIN older = 1 .. Len(objects) - 1
      /\ \A s \in 1 .. Len(objects) - 1 : older[s] = objects[s]
  BY <1>3, <1>4, Popped
<1> HIDE DEF older
<1>6. \A s \in DOMAIN older : older[s] # text
  <2>1. \A s \in 1 .. Len(objects) - 1 : s \in Strings /\ s # Len(objects)
    BY <1>4 DEF Strings
  <2>2. Len(objects) \in Strings
    BY <1>4 DEF Strings
  <2> QED BY <1>3, <1>5, <2>1, <2>2 DEF AllInv, TableInv, Canonical
<1>7. objects = Append(older, text)
  <2>1. /\ Append(older, text) \in Seq(Text) /\ Len(Append(older, text)) = Len(objects)
        /\ \A s \in 1 .. Len(objects) - 1 : Append(older, text)[s] = objects[s]
        /\ Append(older, text)[Len(objects)] = text
    BY <1>3, <1>4, <1>5, Appended
  <2>2. \A s \in 1 .. Len(objects) : s \in 1 .. Len(objects) - 1 \/ s = Len(objects)
    BY <1>4
  <2>3. \A s \in 1 .. Len(objects) : Append(older, text)[s] = objects[s]
    BY <1>3, <2>1, <2>2
  <2> QED BY <1>3, <2>1, <2>3, SeqEqual
<1>8. result' = Len(older) + 1
  BY <1>1, <1>4, <1>5 DEF string
<1>9. text # NoText
  BY <1>1, TextAsked DEF AllInv, IInv
<1> QED BY <1>1, <1>2, <1>6, <1>7, <1>8, <1>9 DEF Abstract!AnswerNew, older

\* Every other turn of a loop of the hash table is invisible to the callers.
LEMMA StepsHidden ==
  ASSUME AllInv, AllInv',
         \/ InternStart \/ Grow \/ RehashSkip \/ RehashKey \/ RehashDone
         \/ ProbeOccupied \/ StoreOld
  PROVE  UNCHANGED <<Published, text, result, pc # "exit">>
<1>1. /\ pc \in {"intern", "rehash", "reprobe", "probe"}
      /\ pc' \in {"rehash", "reprobe", "probe"}
      /\ UNCHANGED <<objects, text, result>>
  <2>1. CASE RehashKey
    <3>1. pc' = "reprobe"
      BY <2>1 DEF RehashKey, AllInv, IInv, Load
    <3> QED BY <2>1, <3>1 DEF RehashKey
  <2> QED BY <2>1 DEF InternStart, Grow, RehashSkip, RehashDone, ProbeOccupied, StoreOld
<1>2. Published = SubSeq(objects, 1, Len(objects) - 1)
  BY <1>1, PublishedBusy DEF AllInv, TableInv
<1>3. Published' = SubSeq(objects', 1, Len(objects') - 1)
  BY <1>1 DEF AllInv, TableInv, Working, Pending, Published
<1> QED BY <1>1, <1>2, <1>3

\* Every step of allocate_string's loops is a step of the abstract allocate_string, or
\* one its callers cannot see.
LEMMA StepMaps ==
  AllInv /\ AllInv' /\ Resting /\ [Next]_vars => [Abstract!Next]_(Abstract!vars)
<1> SUFFICES ASSUME AllInv, AllInv', Resting, [Next]_vars
             PROVE  Abstract!Next \/ UNCHANGED <<Published, text, result, pc # "exit">>
  BY DEF Abstract!vars
<1>1. TypeOK /\ pc # "nested"
  BY DEF AllInv, IInv, Load
<1>2. CASE \E t \in Text : Call(t)
  <2>1. PICK t \in Text : Call(t)
    BY <1>2
  <2>2. Published = objects /\ Published' = objects
    BY <2>1, PublishedQuiet DEF Call, Published
  <2>3. Abstract!Ask(t)
    BY <2>1, <2>2 DEF Call, Abstract!Ask, Resting
  <2> QED BY <2>3 DEF Abstract!Next
<1>3. CASE FindEmpty \/ FindOther
  BY <1>3 DEF FindEmpty, FindOther, Published
<1>4. CASE FindMatch
  <2>1. Published = objects /\ Published' = objects
    BY <1>4, PublishedQuiet DEF FindMatch, Published
  <2>2. entries[index] \in Strings
    BY <1>1, <1>4, TableType DEF FindMatch, TypeOK, Slots
  <2>3. text # NoText
    BY <1>1, <1>4, TextAsked DEF FindMatch
  <2>4. entries[index] \in DOMAIN objects
    BY <1>1, <2>2, LenProperties DEF Strings, TypeOK
  <2>5. Abstract!AnswerKnown
    BY <1>4, <2>1, <2>3, <2>4 DEF FindMatch, Abstract!AnswerKnown
  <2> QED BY <2>5 DEF Abstract!Next
<1>5. CASE Create
  BY <1>5, CreateHidden DEF Create
<1>6. CASE Store
  BY <1>6, StoreAnswersNew DEF Abstract!Next
<1>7. CASE \/ InternStart \/ Grow \/ RehashSkip \/ RehashKey \/ RehashDone
           \/ ProbeOccupied \/ StoreOld
  BY <1>7, StepsHidden
<1>8. CASE OutOfMemory
  <2>1. pc \in {"create", "intern"} /\ pc' = "exit" /\ UNCHANGED <<objects, table, text, result>>
    BY <1>8 DEF OutOfMemory
  <2>2. Published' = Published
    <3>1. CASE pc = "create"
      <4>1. objects # <<>> => \E k \in Slots(capacity) : entries[k] = string
        <5>1. \A s \in Strings : InTable(s)
          BY <3>1 DEF AllInv, TableInv, Complete
        <5> QED BY <1>1, <5>1, TableType DEF InTable
      <4> QED BY <2>1, <3>1, <4>1 DEF Published, table, string
    <3>2. CASE pc = "intern"
      BY <2>1, <3>2 DEF Published, table, string
    <3> QED BY <2>1, <3>1, <3>2
  <2>3. text # NoText
    BY <1>1, <2>1, TextAsked
  <2>4. Abstract!Crash
    BY <2>1, <2>2, <2>3 DEF Abstract!Crash
  <2> QED BY <2>4 DEF Abstract!Next
<1>9. CASE UNCHANGED vars
  BY <1>9 DEF vars, table, resize, Published, string
<1> QED
  BY <1>2, <1>3, <1>4, <1>5, <1>6, <1>7, <1>8, <1>9
  DEF Next, Step, Find, Rehash, Terminated

\* The hash table implements one object per text: seen from outside, allocate_string
\* answers a text it knows with the object that carries it, any other with a new
\* object, and changes no object that exists, whatever the hash function, the
\* collisions and the growth in between.
THEOREM TableKeepsPromise == Spec => Abstract!Init /\ [][Abstract!Next]_(Abstract!vars)
<1>1. Init => Abstract!Init /\ Resting
  BY DEF Init, Abstract!Init, Published, Resting, NULL
<1>2. Resting /\ [Next]_vars => Resting'
  BY RestingInductive
<1>3. AllInv /\ AllInv' /\ Resting /\ [Next]_vars => [Abstract!Next]_(Abstract!vars)
  BY StepMaps
<1> QED BY <1>1, <1>2, <1>3, AllInvariant, PTL DEF Spec
=============================================================================
