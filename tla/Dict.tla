-------------------------------- MODULE Dict --------------------------------
(***************************************************************************)
(* A dictionary object of the VM: allocate_dict, find_entry,               *)
(* set_dict_key_value, get_dict_value and resize_dict of                   *)
(* src/src/vm/mobjects.c, as OP_CREATE_DICT, OP_SET_INDEX and OP_GET_INDEX *)
(* call them.  One call is one step; a probe that would never end leaves   *)
(* the program in status "spin", a remainder by zero in status "crash".    *)
(*                                                                         *)
(* Keys are what the code can tell apart: their hash, of 32 bits, and the  *)
(* relation rvalue_equals.  The two need not agree: 0.0 and -0.0 are equal *)
(* with different hashes, a float NaN is not equal to itself, and any key  *)
(* may hash to 0, which resize_dict takes for an empty entry.              *)
(***************************************************************************)
EXTENDS Integers, FiniteSets, FiniteSetsExt

CONSTANTS Key,          \* ints, floats, booleans, strings
          BadKey,       \* nil, NaN, lists, dictionaries: never stored
          Unhashable,   \* those of BadKey for which hash_rvalue raises an error
          Value,
          NaN,          \* VAL_NAN: calloc's key of a free entry, and its value
          Hash,         \* hash_rvalue
          Equal,        \* rvalue_equals, on pairs of keys
          MinCapacity,  \* the capacity a small dictionary grows to: 8 in the code
          Literals,     \* the numbers of entries of the literals {k = v, ...}
          MaxCapacity   \* bound of the model on growth

AnyKey == Key \cup BadKey

ASSUME KeyAssumption == /\ Key \cap BadKey = {}
                        /\ Unhashable \subseteq BadKey
                        /\ NaN \notin Key \cup Value
ASSUME HashAssumption == Hash \in [AnyKey -> Nat]
ASSUME EqualAssumption == Equal \subseteq Key \X Key
\* With 5, 9, ... as first capacity a dictionary one entry short of it could be
\* exactly three quarters full and, grown to it, be more than that.
ASSUME CapacityAssumption == /\ MinCapacity \in Nat \ {0} /\ MinCapacity % 4 # 1
                             /\ MaxCapacity \in Nat
                             /\ Literals \subseteq 0 .. MaxCapacity

VARIABLES entries,      \* dict->entries: slot -> [hash, key, value]
          capacity,     \* dict->capacity
          count,        \* dict->count
          fixed,        \* dict->fixed
          status

dict == <<entries, capacity, count, fixed>>
vars == <<entries, capacity, count, fixed, status>>

-----------------------------------------------------------------------------

Slots(n) == 0 .. n - 1

\* calloc: VAL_NAN is 0, and so is the hash.
FreeEntry == [hash |-> 0, key |-> NaN, value |-> NaN]
FreeEntries(n) == [s \in Slots(n) |-> FreeEntry]

IsFree(e) == e.key = NaN

\* The slots at which find_entry's loop returns, as distances from the home.
Stops(f, n, k) ==
  {d \in Slots(n) : LET e == f[(Hash[k] + d) % n]
                    IN  IsFree(e) \/ <<e.key, k>> \in Equal}

\* Mutant: the entry of the home slot, whatever its key.
FindEntry_HomeSlot(f, n, k) == Hash[k] % n
FindEntry(f, n, k) == (Hash[k] + Min(Stops(f, n, k))) % n

\* resize_dict's loop: an entry of hash 0 counts as free, used or not, and
\* the others go by their stored hash to the first free slot of the new array.
Rehashed(old, oldCapacity, newCapacity) ==
  LET FirstFree(f, h) ==
        (h + Min({d \in Slots(newCapacity) : IsFree(f[(h + d) % newCapacity])}))
          % newCapacity
      moved[s \in 0 .. oldCapacity] ==
        IF s = 0
          THEN FreeEntries(newCapacity)
          ELSE LET f == moved[s - 1]
                   e == old[s - 1]
               IN  IF e.hash = 0
                     THEN f
                     ELSE [f EXCEPT ![FirstFree(f, e.hash)] = e]
  IN moved[oldCapacity]

\* count + 1 > capacity * 0.75, in integers.
\* Mutants: the load is tested without the entry that is about to be added; only
\* a full dictionary is crowded.
Crowded_WithoutNew(used, n) == used * 4 > n * 3
Crowded_WhenFull(used, n) == used >= n
Crowded(used, n) == (used + 1) * 4 > n * 3

NewCapacity(n) == IF n < MinCapacity THEN MinCapacity ELSE n * 2

-----------------------------------------------------------------------------

Init == /\ entries = FreeEntries(0)
        /\ capacity = 0
        /\ count = 0
        /\ fixed = FALSE
        /\ status = "none"

\* OP_CREATE_DICT: the capacity is the literal's number of entries; the
\* OP_SET_INDEX that fill it follow, but reads may come before they are done
\* (var t = {a = t["b"]}).
Create(n, f) == /\ status = "none"
                /\ entries' = FreeEntries(n)
                /\ capacity' = n
                /\ fixed' = f
                /\ status' = "running"
                /\ UNCHANGED count

\* What find_entry does instead of returning, if anything.
ProbeFails(k) == CASE capacity = 0                     -> "crash"
                   [] /\ capacity # 0
                      /\ Stops(entries, capacity, k) = {} -> "spin"
                   [] OTHER                            -> "no"

\* set_dict_key_value tests the type of the key before it probes.
SetBadKey(k) == /\ status = "running"
                /\ status' = "error"
                /\ UNCHANGED dict

SetFails(k) == /\ status = "running"
               /\ ProbeFails(k) # "no"
               /\ status' = ProbeFails(k)
               /\ UNCHANGED dict

\* The key, or a key equal to it, is there: its hash, key and value are replaced.
SetExisting(k, v) ==
  /\ status = "running"
  /\ ProbeFails(k) = "no"
  /\ LET s == FindEntry(entries, capacity, k) IN
       /\ ~IsFree(entries[s])
       /\ entries' = [entries EXCEPT ![s] = [hash |-> Hash[k], key |-> k, value |-> v]]
  /\ UNCHANGED <<capacity, count, fixed, status>>

\* Mutant: the grown array is used with the old capacity.
SetNew_KeepsCapacity(k, v) ==
  /\ status = "running"
  /\ ProbeFails(k) = "no"
  /\ IsFree(entries[FindEntry(entries, capacity, k)])
  /\ Crowded(count, capacity) /\ ~fixed
  /\ LET n == NewCapacity(capacity)
         f == Rehashed(entries, capacity, n)
     IN  entries' = [f EXCEPT ![FindEntry(f, n, k)] =
                       [hash |-> Hash[k], key |-> k, value |-> v]]
  /\ count' = count + 1
  /\ UNCHANGED <<capacity, fixed, status>>
\*
\* A new key: refused by a full fixed dictionary; otherwise resize_dict runs
\* when the load asks for it, and does nothing on a fixed dictionary.
SetNew(k, v) ==
  /\ status = "running"
  /\ ProbeFails(k) = "no"
  /\ IsFree(entries[FindEntry(entries, capacity, k)])
  /\ IF fixed /\ count >= capacity
       THEN status' = "error" /\ UNCHANGED dict
       ELSE LET grows == Crowded(count, capacity) /\ ~fixed
                n == IF grows THEN NewCapacity(capacity) ELSE capacity
                f == IF grows THEN Rehashed(entries, capacity, n) ELSE entries
            IN  /\ n <= MaxCapacity
                /\ capacity' = n
                /\ entries' = [f EXCEPT ![FindEntry(f, n, k)] =
                                 [hash |-> Hash[k], key |-> k, value |-> v]]
                /\ count' = count + 1
                /\ UNCHANGED <<fixed, status>>

\* get_dict_value: what a read of k returns, when it returns.  (OP_GET_INDEX
\* drops the result: vm.c:1314.)
Lookup(k) == IF ProbeFails(k) = "no"
               THEN entries[FindEntry(entries, capacity, k)].value
               ELSE NaN

\* A read changes nothing, unless the probe does not return or hash_rvalue
\* raises invalidKeyType on its way.
GetStops(k) == /\ status = "running"
               /\ k \in Unhashable \/ ProbeFails(k) # "no"
               /\ status' = IF ProbeFails(k) = "no" THEN "error" ELSE ProbeFails(k)
               /\ UNCHANGED dict

Stopped == status \in {"error", "crash", "spin"} /\ UNCHANGED vars

Next == \/ \E n \in Literals, f \in BOOLEAN : Create(n, f)
        \/ \E k \in Key, v \in Value : SetExisting(k, v) \/ SetNew(k, v)
        \/ \E k \in Key : SetFails(k)
        \/ \E k \in BadKey : SetBadKey(k)
        \/ \E k \in AnyKey : GetStops(k)
        \/ Stopped

Spec == Init /\ [][Next]_vars

-----------------------------------------------------------------------------

Used == {s \in Slots(capacity) : ~IsFree(entries[s])}

\* The types, and the consistency of an entry with its own key.
TypeOK ==
  /\ capacity \in 0 .. MaxCapacity
  /\ count \in 0 .. capacity
  /\ fixed \in BOOLEAN
  /\ status \in {"none", "running", "error", "crash", "spin"}
  /\ entries \in [Slots(capacity) ->
                   [hash : Nat, key : Key \cup {NaN}, value : Value \cup {NaN}]]
  /\ \A s \in Used : entries[s].hash = Hash[entries[s].key]

\* dict->count never falls behind the entries in use, even when resize_dict drops
\* one, and is exact for a fixed dictionary; so three quarters is a bound on the
\* load of every dictionary that may grow, and there is room to end a probe.
LoadBound == /\ Cardinality(Used) <= count
             /\ fixed => count = Cardinality(Used)
             /\ ~fixed /\ capacity > 0 => count * 4 <= capacity * 3

\* The two ways find_entry does not return are the dictionary without entries of
\* {} and fixed(){}, and the full fixed dictionary; a dictionary that may grow
\* and has one slot never meets them, whatever its keys hash to.
FailsOnlyWhenFull == /\ status = "crash" => capacity = 0
                     /\ status = "spin" => fixed /\ Used = Slots(capacity)

\* A key that the hash and the equality of the code treat alike.
PlainKey == {k \in Key : /\ Hash[k] # 0
                         /\ \A j \in Key : /\ <<j, k>> \in Equal <=> j = k
                                           /\ <<k, j>> \in Equal <=> j = k}

Abstract == INSTANCE DictSpec WITH
              PlainKey <- PlainKey,
              Absent   <- NaN,
              map      <- [k \in PlainKey |-> Lookup(k)],
              running  <- status = "running"

\* For plain keys a dictionary is a function: a value once set is read back until
\* it is set again, through every collision, wrap-around and growth, and whatever
\* is done with the keys that hash to 0 or whose equality and hash disagree.
ImplementsDictSpec == Abstract!Spec

\* "Cannot resize a fixed Dictionary" (err.c:248) is the answer of a full fixed
\* dictionary to one more key.
FullDictRefuses == status # "spin"

=============================================================================
