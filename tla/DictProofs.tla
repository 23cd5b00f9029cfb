------------------------------ MODULE DictProofs ------------------------------
(***************************************************************************)
(* A dictionary is a function on its plain keys, whatever the hash, the    *)
(* equality, the collisions and the growth, and a probe of it ends unless  *)
(* every entry of a fixed dictionary is in use.                            *)
(***************************************************************************)
EXTENDS Dict, FiniteSetTheorems, DataLemmas

Entry == [hash : Nat, key : Key \cup {NaN}, value : Value \cup {NaN}]

\* The slot that a probe from hash h comes to after d steps.
Slot(h, n, d) == (h + d) % n

InUse(f, n) == {s \in Slots(n) : ~IsFree(f[s])}

\* The arrays of entries: what is not free carries its key's hash and a value.
Arrays(n) == {f \in [Slots(n) -> Entry] :
                \A s \in Slots(n) : IF IsFree(f[s])
                                      THEN f[s] = FreeEntry
                                      ELSE f[s].hash = Hash[f[s].key] /\ f[s].value \in Value}

\* A probe for a plain key that an entry carries meets neither a free entry nor
\* that key before it.
Placed(f, n) ==
  \A k \in PlainKey, d \in Slots(n) :
    f[Slot(Hash[k], n, d)].key = k =>
      \A c \in 0 .. d - 1 : f[Slot(Hash[k], n, c)].key \notin {NaN, k}

\* The dictionary as a relation, for its plain keys.
Content(f, n) == {p \in PlainKey \X Value :
                    \E s \in Slots(n) : f[s].key = p[1] /\ f[s].value = p[2]}

\* What every call preserves.
IInv == /\ TypeOK
        /\ LoadBound
        /\ FailsOnlyWhenFull
        /\ entries \in Arrays(capacity)
        /\ Placed(entries, capacity)
        /\ status = "none" => capacity = 0 /\ count = 0

-----------------------------------------------------------------------------

\* A probe visits every slot of the table, each once.
LEMMA ProbeCovers ==
  ASSUME NEW n \in Nat, n > 0, NEW h \in Nat
  PROVE  /\ \A d \in Slots(n) : Slot(h, n, d) \in Slots(n)
         /\ \A c, d \in Slots(n) : Slot(h, n, c) = Slot(h, n, d) => c = d
         /\ \A s \in Slots(n) : \E d \in Slots(n) : Slot(h, n, d) = s
<1> DEFINE r == h % n
<1>1. /\ r \in 0 .. n - 1
      /\ \A d \in 0 .. n - 1 : (h + d) % n = IF r + d < n THEN r + d ELSE r + d - n
  <2>1. 0 \in 0 .. n - 1
    OBVIOUS
  <2> QED BY <2>1, Wraps
<1> HIDE DEF r
<1>2. \A d \in Slots(n) : Slot(h, n, d) = IF r + d < n THEN r + d ELSE r + d - n
  BY <1>1 DEF Slots, Slot
<1>3. \A d \in Slots(n) : Slot(h, n, d) \in Slots(n)
  BY <1>1, <1>2 DEF Slots
<1>4. \A c, d \in Slots(n) : Slot(h, n, c) = Slot(h, n, d) => c = d
  BY <1>1, <1>2 DEF Slots
<1>5. ASSUME NEW s \in Slots(n)
      PROVE  \E d \in Slots(n) : Slot(h, n, d) = s
  <2>1. CASE s >= r
    <3>1. s - r \in Slots(n) /\ r + (s - r) = s /\ s < n
      BY <1>1, <2>1 DEF Slots
    <3> QED BY <1>2, <3>1
  <2>2. CASE ~(s >= r)
    <3>1. s - r + n \in Slots(n) /\ r + (s - r + n) - n = s /\ ~(r + (s - r + n) < n)
      BY <1>1, <2>2 DEF Slots
    <3> QED BY <1>2, <3>1
  <2> QED BY <1>1, <2>1, <2>2 DEF Slots
<1> QED BY <1>3, <1>4, <1>5

\* What an array of entries is made of.
LEMMA ArrayType ==
  ASSUME NEW n \in Nat, NEW f \in Arrays(n)
  PROVE  /\ f \in [Slots(n) -> Entry]
         /\ \A s \in Slots(n) :
              /\ f[s].key \in Key \cup {NaN}
              /\ f[s].key = NaN => f[s] = FreeEntry
              /\ f[s].key # NaN => /\ f[s].key \in Key
                                   /\ f[s].hash = Hash[f[s].key]
                                   /\ f[s].value \in Value
  BY DEF Arrays, Entry, IsFree

\* NaN is no key: its bit pattern stands for the key of a free entry.
LEMMA KeyFacts ==
  /\ NaN \notin Key
  /\ \A k \in AnyKey : Hash[k] \in Nat
  /\ \A k \in Key : k \in AnyKey
  /\ \A k \in PlainKey : k \in Key /\ Hash[k] # 0
  /\ \A k \in PlainKey, j \in Key : /\ <<j, k>> \in Equal <=> j = k
                                    /\ <<k, j>> \in Equal <=> j = k
  BY KeyAssumption, HashAssumption DEF AnyKey, PlainKey

\* find_entry returns the first entry of its probe that is free or has an equal key.
LEMMA FindStops ==
  ASSUME NEW n \in Nat, n > 0, NEW f \in Arrays(n), NEW k \in AnyKey,
         Stops(f, n, k) # {}
  PROVE  \E d \in Slots(n) :
           /\ FindEntry(f, n, k) = Slot(Hash[k], n, d)
           /\ FindEntry(f, n, k) \in Slots(n)
           /\ \/ f[FindEntry(f, n, k)].key = NaN
              \/ <<f[FindEntry(f, n, k)].key, k>> \in Equal
           /\ \A c \in 0 .. d - 1 : /\ f[Slot(Hash[k], n, c)].key # NaN
                                    /\ <<f[Slot(Hash[k], n, c)].key, k>> \notin Equal
<1> DEFINE T == Stops(f, n, k)
<1>0. T # {}
  OBVIOUS
<1>1. T \subseteq Nat
  BY DEF Stops, Slots
<1>2. \E d \in T : \A c \in T : d <= c
  <2> HIDE DEF T
  <2> QED BY <1>0, <1>1, LeastOf
<1>3. Min(T) \in T /\ \A c \in T : Min(T) <= c
  BY <1>2 DEF Min
<1> DEFINE d == Min(T)
<1>4. /\ d \in Slots(n)
      /\ f[Slot(Hash[k], n, d)].key = NaN \/ <<f[Slot(Hash[k], n, d)].key, k>> \in Equal
  BY <1>3 DEF Stops, IsFree, Slot
<1>5. FindEntry(f, n, k) = Slot(Hash[k], n, d)
  BY DEF FindEntry, Slot
<1>6. FindEntry(f, n, k) \in Slots(n)
  <2> HIDE DEF d
  <2>1. Hash[k] \in Nat
    BY KeyFacts
  <2>2. d \in Slots(n)
    BY <1>4
  <2>3. Slot(Hash[k], n, d) \in Slots(n)
    BY <2>1, <2>2, ProbeCovers
  <2> QED BY <1>5, <2>3
<1>7. ASSUME NEW c \in 0 .. d - 1
      PROVE  /\ f[Slot(Hash[k], n, c)].key # NaN
             /\ <<f[Slot(Hash[k], n, c)].key, k>> \notin Equal
  <2>1. c \in Slots(n) /\ ~(d <= c)
    BY <1>4 DEF Slots
  <2>2. c \notin Stops(f, n, k)
    BY <1>3, <2>1
  <2> HIDE DEF d
  <2> QED BY <2>1, <2>2 DEF Stops, IsFree, Slot
<1> HIDE DEF d
<1> QED BY <1>4, <1>5, <1>6, <1>7

\* A plain key is in one entry at most.
LEMMA Once ==
  ASSUME NEW n \in Nat, NEW f, Placed(f, n), NEW k \in PlainKey,
         NEW s \in Slots(n), NEW t \in Slots(n), f[s].key = k, f[t].key = k
  PROVE  s = t
<1>1. n > 0 /\ Hash[k] \in Nat
  BY KeyFacts DEF Slots
<1>2. PICK c \in Slots(n) : Slot(Hash[k], n, c) = s
  BY <1>1, ProbeCovers
<1>3. PICK d \in Slots(n) : Slot(Hash[k], n, d) = t
  BY <1>1, ProbeCovers
<1>4. ~(c < d) /\ ~(d < c)
  <2>1. c < d => c \in 0 .. d - 1
    BY DEF Slots
  <2>2. d < c => d \in 0 .. c - 1
    BY DEF Slots
  <2> QED BY <1>2, <1>3, <2>1, <2>2 DEF Placed
<1>5. c = d
  BY <1>4 DEF Slots
<1> QED BY <1>2, <1>3, <1>5

\* Where a probe for a plain key stops: at the key, if the dictionary has it, and at
\* a free entry otherwise.
LEMMA PlainStops ==
  ASSUME NEW n \in Nat, n > 0, NEW f \in Arrays(n), NEW k \in PlainKey,
         Stops(f, n, k) # {}
  PROVE  \E d \in Slots(n) :
           /\ FindEntry(f, n, k) = Slot(Hash[k], n, d)
           /\ FindEntry(f, n, k) \in Slots(n)
           /\ f[FindEntry(f, n, k)].key \in {NaN, k}
           /\ \A c \in 0 .. d - 1 : f[Slot(Hash[k], n, c)].key \notin {NaN, k}
<1>1. k \in Key /\ k \in AnyKey /\ Hash[k] \in Nat
  BY KeyFacts
<1>2. PICK d \in Slots(n) :
        /\ FindEntry(f, n, k) = Slot(Hash[k], n, d)
        /\ FindEntry(f, n, k) \in Slots(n)
        /\ \/ f[FindEntry(f, n, k)].key = NaN
           \/ <<f[FindEntry(f, n, k)].key, k>> \in Equal
        /\ \A c \in 0 .. d - 1 : /\ f[Slot(Hash[k], n, c)].key # NaN
                                 /\ <<f[Slot(Hash[k], n, c)].key, k>> \notin Equal
  BY <1>1, FindStops
<1>3. f[FindEntry(f, n, k)].key \in {NaN, k}
  <2>1. f[FindEntry(f, n, k)].key \in Key \cup {NaN}
    BY <1>2, ArrayType
  <2>2. \A j \in Key : <<j, k>> \in Equal <=> j = k
    BY KeyFacts
  <2> QED BY <1>2, <2>1, <2>2
<1>4. ASSUME NEW c \in 0 .. d - 1
      PROVE  f[Slot(Hash[k], n, c)].key \notin {NaN, k}
  <2>1. <<k, k>> \in Equal
    BY <1>1, KeyFacts
  <2> QED BY <1>2, <2>1
<1> QED BY <1>2, <1>3, <1>4

-----------------------------------------------------------------------------

\* What a read returns: get_dict_value on the array f of n entries.
Read(f, n, k) == IF n = 0 \/ Stops(f, n, k) = {} THEN NaN ELSE f[FindEntry(f, n, k)].value

\* A read of a plain key returns its value in the relation, or NaN if it has none.
LEMMA ReadsContent ==
  ASSUME NEW n \in Nat, NEW f \in Arrays(n), Placed(f, n), NEW k \in PlainKey
  PROVE  /\ \A v \in Value : <<k, v>> \in Content(f, n) => Read(f, n, k) = v
         /\ (\A v \in Value : <<k, v>> \notin Content(f, n)) => Read(f, n, k) = NaN
<1>1. k \in Key /\ k \in AnyKey /\ Hash[k] \in Nat /\ k # NaN
  BY KeyFacts
<1>2. ASSUME NEW v \in Value, <<k, v>> \in Content(f, n)
      PROVE  Read(f, n, k) = v
  <2>1. PICK s \in Slots(n) : f[s].key = k /\ f[s].value = v
    BY <1>2 DEF Content
  <2>2. n > 0
    BY DEF Slots
  <2>3. PICK d \in Slots(n) : Slot(Hash[k], n, d) = s
    BY <1>1, <2>2, ProbeCovers
  <2>4. <<k, k>> \in Equal
    BY <1>1, KeyFacts
  <2>5. d \in Stops(f, n, k)
    BY <2>1, <2>3, <2>4 DEF Stops, Slot
  <2>6. PICK c \in Slots(n) :
          /\ FindEntry(f, n, k) = Slot(Hash[k], n, c)
          /\ FindEntry(f, n, k) \in Slots(n)
          /\ f[FindEntry(f, n, k)].key \in {NaN, k}
          /\ \A b \in 0 .. c - 1 : f[Slot(Hash[k], n, b)].key \notin {NaN, k}
    <3>1. Stops(f, n, k) # {}
      BY <2>5
    <3> QED BY <2>2, <3>1, PlainStops
  <2>7. ~(d < c)
    <3>1. d < c => d \in 0 .. c - 1
      BY DEF Slots
    <3> QED BY <2>1, <2>3, <2>6, <3>1
  <2>8. ~(c < d)
    <3>1. c < d => c \in 0 .. d - 1
      BY DEF Slots
    <3> QED BY <2>1, <2>3, <2>6, <3>1 DEF Placed
  <2>9. c = d
    BY <2>7, <2>8 DEF Slots
  <2> QED BY <2>1, <2>2, <2>3, <2>5, <2>6, <2>9 DEF Read
<1>3. ASSUME \A v \in Value : <<k, v>> \notin Content(f, n)
      PROVE  Read(f, n, k) = NaN
  <2>1. CASE n = 0 \/ Stops(f, n, k) = {}
    BY <2>1 DEF Read
  <2>2. CASE n > 0 /\ Stops(f, n, k) # {}
    <3> DEFINE s == FindEntry(f, n, k)
    <3>1. s \in Slots(n) /\ f[s].key \in {NaN, k}
      BY <2>2, PlainStops
    <3>2. f[s].key # k
      <4> HIDE DEF s
      <4> SUFFICES ASSUME f[s].key = k PROVE FALSE
        OBVIOUS
      <4>1. f[s].value \in Value
        BY <1>1, <3>1, ArrayType
      <4>2. <<k, f[s].value>> \in Content(f, n)
        BY <3>1, <4>1 DEF Content
      <4> QED BY <1>3, <4>1, <4>2
    <3>3. f[s].value = NaN
      <4> HIDE DEF s
      <4>1. f[s] = FreeEntry
        BY <3>1, <3>2, ArrayType
      <4> QED BY <4>1 DEF FreeEntry
    <3> QED BY <2>2, <3>3 DEF Read
  <2> QED BY <2>1, <2>2
<1> QED BY <1>2, <1>3

\* Two arrays with the same relation read alike.
LEMMA SameContent ==
  ASSUME NEW n \in Nat, NEW f \in Arrays(n), Placed(f, n),
         NEW m \in Nat, NEW g \in Arrays(m), Placed(g, m), NEW k \in PlainKey,
         \A v \in Value : <<k, v>> \in Content(f, n) <=> <<k, v>> \in Content(g, m)
  PROVE  Read(f, n, k) = Read(g, m, k)
<1>1. CASE \E v \in Value : <<k, v>> \in Content(f, n)
  BY <1>1, ReadsContent
<1>2. CASE \A v \in Value : <<k, v>> \notin Content(f, n)
  BY <1>2, ReadsContent
<1> QED BY <1>1, <1>2

-----------------------------------------------------------------------------

\* An entry written where its key belongs leaves every other plain key where its probe
\* finds it, with its value.
LEMMA Written ==
  ASSUME NEW n \in Nat, NEW f \in Arrays(n), Placed(f, n),
         NEW k \in Key, NEW v \in Value, NEW s \in Slots(n),
         f[s].key \in PlainKey => f[s].key = k,
         k \in PlainKey =>
           /\ f[s].key \in {NaN, k}
           /\ \E d \in Slots(n) :
                /\ s = Slot(Hash[k], n, d)
                /\ \A c \in 0 .. d - 1 : f[Slot(Hash[k], n, c)].key \notin {NaN, k}
  PROVE  LET g == [f EXCEPT ![s] = [hash |-> Hash[k], key |-> k, value |-> v]]
         IN  /\ g \in Arrays(n)
             /\ Placed(g, n)
             /\ InUse(g, n) = InUse(f, n) \cup {s}
             /\ \A j \in PlainKey, w \in Value :
                  <<j, w>> \in Content(g, n) <=>
                    IF j = k THEN w = v ELSE <<j, w>> \in Content(f, n)
<1> DEFINE e == [hash |-> Hash[k], key |-> k, value |-> v]
           g == [f EXCEPT ![s] = e]
<1>1. /\ k # NaN /\ k \in AnyKey /\ Hash[k] \in Nat /\ n > 0
      /\ e \in Entry /\ e.key = k /\ e.hash = Hash[k] /\ e.value = v
  BY KeyFacts DEF Entry, Slots
<1>2. /\ f \in [Slots(n) -> Entry]
      /\ g \in [Slots(n) -> Entry]
      /\ g[s] = e
      /\ \A t \in Slots(n) : t # s => g[t] = f[t]
  BY <1>1, ArrayType
<1> HIDE DEF g, e
<1>3. g \in Arrays(n)
  BY <1>1, <1>2 DEF Arrays, IsFree
<1>4. ASSUME NEW j \in PlainKey, NEW d \in Slots(n), g[Slot(Hash[j], n, d)].key = j,
             NEW c \in 0 .. d - 1
      PROVE  g[Slot(Hash[j], n, c)].key \notin {NaN, j}
  <2> DEFINE to(b) == Slot(Hash[j], n, b)
  <2>0. j # NaN /\ Hash[j] \in Nat
    BY KeyFacts
  <2>1. /\ c \in Slots(n) /\ c # d
        /\ to(c) \in Slots(n) /\ to(d) \in Slots(n) /\ to(c) # to(d)
        /\ \A b \in Slots(n) : to(b) = to(d) => b = d
    <3>1. c \in Slots(n) /\ c # d
      BY DEF Slots
    <3>2. \A a \in Slots(n) : to(a) \in Slots(n)
      BY <1>1, <2>0, ProbeCovers
    <3>3. \A a, b \in Slots(n) : to(a) = to(b) => a = b
      BY <1>1, <2>0, ProbeCovers
    <3> HIDE DEF to
    <3>4. to(c) # to(d)
      BY <3>1, <3>3
    <3>5. to(c) \in Slots(n) /\ to(d) \in Slots(n)
      BY <3>1, <3>2
    <3> QED BY <3>1, <3>3, <3>4, <3>5
  <2>2. CASE j # k
    <3>1. to(d) # s
      BY <1>1, <1>2, <1>4, <2>2
    <3>2. f[to(d)].key = j
      BY <1>2, <1>4, <2>1, <3>1
    <3>3. f[to(c)].key \notin {NaN, j}
      BY <3>2 DEF Placed
    <3> HIDE DEF to
    <3>4. g[to(c)].key \notin {NaN, j}
      BY <1>1, <1>2, <2>1, <2>2, <3>3
    <3> QED BY <3>4 DEF to
  <2>3. CASE j = k
    <3>1. PICK b \in Slots(n) :
            /\ s = to(b)
            /\ \A a \in 0 .. b - 1 : f[to(a)].key \notin {NaN, k}
      BY <2>3
    <3>2. f[s].key \in {NaN, k}
      BY <2>3
    <3>3. d = b
      <4> SUFFICES ASSUME d # b PROVE FALSE
        OBVIOUS
      <4>1. to(d) # s
        BY <2>1, <3>1
      <4>2. f[to(d)].key = k
        BY <1>2, <1>4, <2>1, <2>3, <4>1
      <4>3. ~(d < b)
        <5>1. d < b => d \in 0 .. b - 1
          BY DEF Slots
        <5> QED BY <3>1, <4>2, <5>1
      <4>4. ~(b < d)
        <5>1. b < d => b \in 0 .. d - 1
          BY DEF Slots
        <5> QED BY <2>3, <3>1, <3>2, <4>2, <5>1 DEF Placed
      <4> QED BY <4>3, <4>4 DEF Slots
    <3>4. f[to(c)].key \notin {NaN, k} /\ to(c) # s
      BY <2>1, <3>1, <3>3
    <3> HIDE DEF to
    <3>5. g[to(c)].key \notin {NaN, j}
      BY <1>2, <2>1, <2>3, <3>4
    <3> QED BY <3>5 DEF to
  <2> QED BY <2>2, <2>3
<1>5. Placed(g, n)
  BY <1>4 DEF Placed
<1>6. InUse(g, n) = InUse(f, n) \cup {s}
  BY <1>1, <1>2 DEF InUse, IsFree
<1>7. ASSUME NEW j \in PlainKey, NEW w \in Value
      PROVE  <<j, w>> \in Content(g, n) <=>
               IF j = k THEN w = v ELSE <<j, w>> \in Content(f, n)
  <2>1. /\ <<j, w>> \in Content(g, n) <=> \E t \in Slots(n) : g[t].key = j /\ g[t].value = w
        /\ <<j, w>> \in Content(f, n) <=> \E t \in Slots(n) : f[t].key = j /\ f[t].value = w
    BY DEF Content
  <2>2. CASE j = k
    <3>1. \A t \in Slots(n) : g[t].key = j => t = s
      BY <1>1, <1>2, <1>5, <2>2, Once
    <3> QED BY <1>1, <1>2, <2>1, <2>2, <3>1
  <2>3. CASE j # k
    <3>1. \A t \in Slots(n) : g[t].key = j <=> t # s /\ f[t].key = j
      BY <1>1, <1>2, <2>3
    <3>2. \A t \in Slots(n) : f[t].key = j => t # s
      <4>1. f[s].key # j
        BY <2>3
      <4> QED BY <4>1
    <3> QED BY <1>2, <2>1, <2>3, <3>1, <3>2
  <2> QED BY <2>2, <2>3
<1> QED BY <1>3, <1>5, <1>6, <1>7 DEF g, e

-----------------------------------------------------------------------------

\* The first free slot of g for hash h, as resize_dict looks for it.
FirstFree(g, m, h) == (h + Min({d \in Slots(m) : IsFree(g[(h + d) % m])})) % m

\* Where there is a free slot, resize_dict's inner loop ends at one.
LEMMA FreeSlotFound ==
  ASSUME NEW m \in Nat, NEW g \in Arrays(m), NEW h \in Nat, InUse(g, m) # Slots(m)
  PROVE  \E d \in Slots(m) :
           /\ FirstFree(g, m, h) = Slot(h, m, d)
           /\ FirstFree(g, m, h) \in Slots(m)
           /\ g[FirstFree(g, m, h)].key = NaN
           /\ \A c \in 0 .. d - 1 : g[Slot(h, m, c)].key # NaN
<1> DEFINE T == {d \in Slots(m) : IsFree(g[Slot(h, m, d)])}
<1>1. PICK s \in Slots(m) : IsFree(g[s])
  BY DEF InUse
<1>2. m > 0
  BY DEF Slots
<1>3. PICK b \in Slots(m) : Slot(h, m, b) = s
  BY <1>2, ProbeCovers
<1>4. T # {}
  BY <1>1, <1>3
<1>5. T \subseteq Nat
  BY DEF Slots
<1>6. \E d \in T : \A c \in T : d <= c
  <2> HIDE DEF T
  <2> QED BY <1>4, <1>5, LeastOf
<1>7. Min(T) \in T /\ \A c \in T : Min(T) <= c
  <2> HIDE DEF T
  <2> QED BY <1>6 DEF Min
<1> DEFINE d == Min(T)
<1>8. FirstFree(g, m, h) = Slot(h, m, d)
  BY DEF FirstFree, Slot
<1>9. d \in Slots(m) /\ g[Slot(h, m, d)].key = NaN
  BY <1>7 DEF IsFree
<1>10. ASSUME NEW c \in 0 .. d - 1
       PROVE  g[Slot(h, m, c)].key # NaN
  <2>1. c \in Slots(m) /\ ~(d <= c)
    BY <1>9 DEF Slots
  <2>2. c \notin T
    <3> HIDE DEF T
    <3> QED BY <1>7, <2>1
  <2> QED BY <2>1, <2>2 DEF IsFree
<1> HIDE DEF d
<1>11. Slot(h, m, d) \in Slots(m)
  BY <1>2, <1>9, ProbeCovers
<1> QED BY <1>8, <1>9, <1>10, <1>11

\* An entry that resize_dict moves is found in the new array.
LEMMA Moved ==
  ASSUME NEW m \in Nat, NEW g \in Arrays(m), Placed(g, m), InUse(g, m) # Slots(m),
         NEW e \in Entry, e.key \in Key, e.hash = Hash[e.key], e.value \in Value,
         \A s \in Slots(m) : g[s].key \in PlainKey => g[s].key # e.key
  PROVE  LET x == [g EXCEPT ![FirstFree(g, m, e.hash)] = e]
         IN  /\ x \in Arrays(m)
             /\ Placed(x, m)
             /\ \E s \in Slots(m) : InUse(x, m) = InUse(g, m) \cup {s}
             /\ \A j \in PlainKey, w \in Value :
                  <<j, w>> \in Content(x, m) <=>
                    IF j = e.key THEN w = e.value ELSE <<j, w>> \in Content(g, m)
<1> DEFINE k == e.key
           v == e.value
           s == FirstFree(g, m, e.hash)
<1>1. e = [hash |-> Hash[k], key |-> k, value |-> v]
  BY DEF Entry
<1>2. k \in Key /\ v \in Value /\ Hash[k] \in Nat /\ e.hash = Hash[k]
  BY KeyFacts
<1>3. PICK d \in Slots(m) :
        /\ s = Slot(Hash[k], m, d)
        /\ s \in Slots(m)
        /\ g[s].key = NaN
        /\ \A c \in 0 .. d - 1 : g[Slot(Hash[k], m, c)].key # NaN
  <2> HIDE DEF k
  <2> QED BY <1>2, FreeSlotFound
<1>4. m > 0
  BY DEF Slots
<1>5. ASSUME k \in PlainKey, NEW c \in 0 .. d - 1
      PROVE  g[Slot(Hash[k], m, c)].key \notin {NaN, k}
  <2>1. c \in Slots(m)
    BY DEF Slots
  <2>2. Slot(Hash[k], m, c) \in Slots(m)
    BY <1>2, <1>4, <2>1, ProbeCovers
  <2>3. g[Slot(Hash[k], m, c)].key # k
    BY <1>5, <2>2
  <2> QED BY <1>3, <2>3
<1>6. g[s].key \in PlainKey => g[s].key = k
  BY <1>3, KeyFacts
<1> HIDE DEF k, v, s
<1>7. LET x == [g EXCEPT ![s] = [hash |-> Hash[k], key |-> k, value |-> v]]
      IN  /\ x \in Arrays(m)
          /\ Placed(x, m)
          /\ InUse(x, m) = InUse(g, m) \cup {s}
          /\ \A j \in PlainKey, w \in Value :
               <<j, w>> \in Content(x, m) <=>
                 IF j = k THEN w = v ELSE <<j, w>> \in Content(g, m)
  <2>1. k \in PlainKey =>
          /\ g[s].key \in {NaN, k}
          /\ \E b \in Slots(m) :
               /\ s = Slot(Hash[k], m, b)
               /\ \A c \in 0 .. b - 1 : g[Slot(Hash[k], m, c)].key \notin {NaN, k}
    BY <1>3, <1>5
  <2>2. s \in Slots(m) /\ k \in Key /\ v \in Value
    BY <1>2, <1>3
  <2> QED BY <1>6, <2>1, <2>2, Written
<1>8. LET x == [g EXCEPT ![s] = e]
      IN  /\ x \in Arrays(m)
          /\ Placed(x, m)
          /\ \E t \in Slots(m) : InUse(x, m) = InUse(g, m) \cup {t}
          /\ \A j \in PlainKey, w \in Value :
               <<j, w>> \in Content(x, m) <=>
                 IF j = k THEN w = v ELSE <<j, w>> \in Content(g, m)
  BY <1>1, <1>3, <1>7
<1> QED BY <1>8 DEF k, v, s

\* The slots of the old array that resize_dict has passed.
Passed(f, n, i) == {s \in InUse(f, n) : s < i}

\* The slots in use are finitely many, and they are all the slots when there are as many.
LEMMA InUseFinite ==
  ASSUME NEW n \in Nat, NEW f
  PROVE  /\ IsFiniteSet(Slots(n)) /\ Cardinality(Slots(n)) = n
         /\ IsFiniteSet(InUse(f, n)) /\ Cardinality(InUse(f, n)) \in 0 .. n
         /\ Cardinality(InUse(f, n)) = n => InUse(f, n) = Slots(n)
<1>1. IsFiniteSet(Slots(n)) /\ Cardinality(Slots(n)) = n
  <2>1. 0 \in Int /\ n - 1 \in Int
    OBVIOUS
  <2>2. /\ IsFiniteSet(0 .. n - 1)
        /\ Cardinality(0 .. n - 1) = IF 0 > n - 1 THEN 0 ELSE n - 1 - 0 + 1
    BY <2>1, FS_Interval, Zenon
  <2> QED BY <2>2 DEF Slots
<1>2. InUse(f, n) \in SUBSET Slots(n)
  BY DEF InUse
<1>3. /\ IsFiniteSet(InUse(f, n))
      /\ Cardinality(InUse(f, n)) <= Cardinality(Slots(n))
      /\ Cardinality(Slots(n)) = Cardinality(InUse(f, n)) => Slots(n) = InUse(f, n)
  BY <1>1, <1>2, FS_Subset, Zenon
<1>4. Cardinality(InUse(f, n)) \in Nat
  BY <1>3, FS_CardinalityType
<1> QED BY <1>1, <1>3, <1>4

\* An array without entries has no plain key.
LEMMA NoEntries ==
  ASSUME NEW m \in Nat
  PROVE  /\ FreeEntries(m) \in Arrays(m)
         /\ Placed(FreeEntries(m), m)
         /\ InUse(FreeEntries(m), m) = {}
         /\ \A k \in PlainKey, v \in Value : <<k, v>> \notin Content(FreeEntries(m), m)
<1>1. FreeEntries(m) \in Arrays(m)
  BY DEF Arrays, FreeEntries, FreeEntry, Entry, IsFree
<1>2. \A s \in Slots(m) : FreeEntries(m)[s].key = NaN
  BY DEF FreeEntries, FreeEntry
<1>3. ASSUME NEW k \in PlainKey, NEW d \in Slots(m)
      PROVE  FreeEntries(m)[Slot(Hash[k], m, d)].key # k
  <2>1. k # NaN /\ k \in AnyKey /\ Hash[k] \in Nat /\ m > 0
    BY KeyFacts DEF Slots
  <2>2. Slot(Hash[k], m, d) \in Slots(m)
    BY <2>1, ProbeCovers
  <2> QED BY <1>2, <2>1, <2>2
<1>4. Placed(FreeEntries(m), m)
  BY <1>3 DEF Placed
<1>5. InUse(FreeEntries(m), m) = {}
  BY <1>2 DEF InUse, IsFree
<1>6. \A k \in PlainKey, v \in Value : <<k, v>> \notin Content(FreeEntries(m), m)
  <2>1. \A k \in PlainKey : k # NaN
    BY KeyFacts
  <2> QED BY <1>2, <2>1 DEF Content
<1> QED BY <1>1, <1>4, <1>5, <1>6

\* resize_dict keeps the plain keys and their values; keys whose hash is 0 are dropped,
\* and no entry is added.
LEMMA RehashKeeps ==
  ASSUME NEW n \in Nat, NEW f \in Arrays(n), Placed(f, n), NEW m \in Nat, n < m
  PROVE  LET g == Rehashed(f, n, m)
         IN  /\ g \in Arrays(m)
             /\ Placed(g, m)
             /\ Cardinality(InUse(g, m)) <= Cardinality(InUse(f, n))
             /\ \A k \in PlainKey, v \in Value :
                  <<k, v>> \in Content(g, m) <=> <<k, v>> \in Content(f, n)
<1> DEFINE S == [Slots(m) -> Entry]
           Put(g, e) == IF e.hash = 0 THEN g ELSE [g EXCEPT ![FirstFree(g, m, e.hash)] = e]
           turn == [p \in (1 .. n) \X S |-> Put(p[2], f[p[1] - 1])]
           moved[s \in 0 .. n] ==
             IF s = 0 THEN FreeEntries(m) ELSE Put(moved[s - 1], f[s - 1])
<1>1. /\ f \in [Slots(n) -> Entry]
      /\ \A i \in 1 .. n : i - 1 \in Slots(n) /\ f[i - 1] \in Entry
  BY ArrayType DEF Slots
<1>2. ASSUME NEW g \in S, NEW e \in Entry
      PROVE  Put(g, e) \in S
  OBVIOUS
<1>3. turn \in [(1 .. n) \X S -> S]
  <2> HIDE DEF S, Put
  <2> QED BY <1>1, <1>2
<1>4. FreeEntries(m) \in S
  BY DEF FreeEntries, FreeEntry, Entry
<1> HIDE DEF S
<1>5. PICK h : Iteration(h, S, n, FreeEntries(m), turn)
  <2> HIDE DEF turn
  <2> QED BY <1>3, <1>4, Iterates
<1>6. \A i \in 1 .. n : h[i] = Put(h[i - 1], f[i - 1])
  <2> HIDE DEF Put
  <2>1. \A i \in 1 .. n : <<i, h[i - 1]>> \in (1 .. n) \X S
    BY <1>5 DEF Iteration
  <2> QED BY <1>5, <2>1 DEF Iteration
<1>7. h = [s \in 0 .. n |-> IF s = 0 THEN FreeEntries(m) ELSE Put(h[s - 1], f[s - 1])]
  <2> HIDE DEF Put
  <2> QED BY <1>5, <1>6 DEF Iteration
<1>8. moved = [s \in 0 .. n |-> IF s = 0 THEN FreeEntries(m) ELSE Put(moved[s - 1], f[s - 1])]
  <2> HIDE DEF Put
  <2> QED BY <1>7
<1>9. Rehashed(f, n, m) = moved[n]
  BY DEF Rehashed, FirstFree
<1> HIDE DEF moved, turn
<1> DEFINE Good(i) ==
             /\ moved[i] \in Arrays(m)
             /\ Placed(moved[i], m)
             /\ Cardinality(InUse(moved[i], m)) <= Cardinality(Passed(f, n, i))
             /\ \A k \in PlainKey, v \in Value :
                  <<k, v>> \in Content(moved[i], m) <=>
                    \E s \in Slots(n) : s < i /\ f[s].key = k /\ f[s].value = v
           T == {i \in 0 .. n : Good(i)}
<1>10. 0 \in T
  <2>1. moved[0] = FreeEntries(m)
    BY <1>8
  <2>2. Passed(f, n, 0) = {} /\ \A s \in Slots(n) : ~(s < 0)
    BY DEF Passed, InUse, Slots
  <2> QED BY <2>1, <2>2, NoEntries, FS_EmptySet
<1>11. ASSUME NEW i \in 1 .. n, i - 1 \in T
       PROVE  i \in T
  <2> DEFINE g == moved[i - 1]
             e == f[i - 1]
             x == moved[i]
  <2>1. /\ i - 1 \in Slots(n) /\ e \in Entry
        /\ g \in Arrays(m)
        /\ Placed(g, m)
        /\ Cardinality(InUse(g, m)) <= Cardinality(Passed(f, n, i - 1))
        /\ \A k \in PlainKey, v \in Value :
             <<k, v>> \in Content(g, m) <=>
               \E s \in Slots(n) : s < i - 1 /\ f[s].key = k /\ f[s].value = v
    BY <1>1, <1>11
  <2>2. x = IF e.hash = 0 THEN g ELSE [g EXCEPT ![FirstFree(g, m, e.hash)] = e]
    <3>1. x = Put(g, e)
      <4> HIDE DEF Put
      <4> QED BY <1>8
    <3> QED BY <3>1
  <2>3. \A s \in Slots(n) : s < i <=> s < i - 1 \/ s = i - 1
    BY DEF Slots
  <2>4. ~(i - 1 < i - 1)
    OBVIOUS
  <2> HIDE DEF g, e, x, Put, Good, T
  <2>8. /\ \A k \in PlainKey, v \in Value :
             <<k, v>> \in Content(g, m) <=>
               \E s \in Slots(n) : s < i - 1 /\ f[s].key = k /\ f[s].value = v
    BY <2>1
  <2>9. Cardinality(InUse(g, m)) <= Cardinality(Passed(f, n, i - 1))
    BY <2>1
  <2>5. e.key # NaN => e.key \in Key /\ e.hash = Hash[e.key] /\ e.value \in Value
    BY <2>1, ArrayType DEF e
  <2>6. CASE e.hash = 0
    <3>1. e.key \notin PlainKey
      BY <2>5, <2>6, KeyFacts
    <3>2. \A k \in PlainKey, v \in Value :
            <<k, v>> \in Content(x, m) <=>
              \E s \in Slots(n) : s < i /\ f[s].key = k /\ f[s].value = v
      <4>1. \A k \in PlainKey : f[i - 1].key # k
        BY <3>1 DEF e
      <4>2. x = g
        BY <2>2, <2>6
      <4>3. \A k \in PlainKey, v \in Value :
              (\E s \in Slots(n) : s < i /\ f[s].key = k /\ f[s].value = v)
                <=> \E s \in Slots(n) : s < i - 1 /\ f[s].key = k /\ f[s].value = v
        BY <2>3, <4>1
      <4>4. Content(x, m) = Content(g, m)
        BY <4>2
      <4>5. ASSUME NEW k \in PlainKey, NEW v \in Value
            PROVE  <<k, v>> \in Content(x, m) <=>
                     \E s \in Slots(n) : s < i /\ f[s].key = k /\ f[s].value = v
        <5>1. <<k, v>> \in Content(g, m) <=>
                \E s \in Slots(n) : s < i - 1 /\ f[s].key = k /\ f[s].value = v
          BY <2>8
        <5>2. (\E s \in Slots(n) : s < i /\ f[s].key = k /\ f[s].value = v)
                <=> \E s \in Slots(n) : s < i - 1 /\ f[s].key = k /\ f[s].value = v
          BY <4>3
        <5> QED BY <4>4, <5>1, <5>2
      <4> QED BY <4>5
    <3>3. Cardinality(InUse(x, m)) <= Cardinality(Passed(f, n, i))
      <4>1. IsFiniteSet(Passed(f, n, i))
        <5>1. Passed(f, n, i) \in SUBSET InUse(f, n)
          BY DEF Passed
        <5> QED BY <5>1, InUseFinite, FS_Subset
      <4>2. Passed(f, n, i - 1) \in SUBSET Passed(f, n, i)
        BY <2>3 DEF Passed, InUse
      <4>3. /\ IsFiniteSet(Passed(f, n, i - 1))
            /\ Cardinality(Passed(f, n, i - 1)) <= Cardinality(Passed(f, n, i))
        BY <4>1, <4>2, FS_Subset
      <4>4. Cardinality(InUse(x, m)) \in Nat /\ Cardinality(Passed(f, n, i)) \in Nat
            /\ Cardinality(Passed(f, n, i - 1)) \in Nat
        BY <4>1, <4>3, InUseFinite, FS_CardinalityType
      <4>5. Cardinality(InUse(x, m)) <= Cardinality(Passed(f, n, i - 1))
        BY <2>9, <2>2, <2>6
      <4> QED BY <4>3, <4>4, <4>5
    <3>4. x \in Arrays(m) /\ Placed(x, m)
      BY <2>1, <2>2, <2>6
    <3> QED BY <3>2, <3>3, <3>4 DEF x, T, Good
  <2>7. CASE e.hash # 0
    <3>1. e.key \in Key /\ e.hash = Hash[e.key] /\ e.value \in Value
      <4>1. e.key = NaN => e = FreeEntry
        BY <2>1, ArrayType DEF e
      <4>2. FreeEntry.hash = 0
        BY DEF FreeEntry
      <4> QED BY <2>5, <2>7, <4>1, <4>2
    <3>2. /\ IsFiniteSet(Passed(f, n, i - 1))
          /\ Cardinality(Passed(f, n, i - 1)) \in Nat
          /\ Cardinality(Passed(f, n, i - 1)) <= n
      <4>1. Passed(f, n, i - 1) \in SUBSET InUse(f, n)
        BY DEF Passed
      <4>2. /\ IsFiniteSet(Passed(f, n, i - 1))
            /\ Cardinality(Passed(f, n, i - 1)) <= Cardinality(InUse(f, n))
        BY <4>1, InUseFinite, FS_Subset
      <4>3. Cardinality(Passed(f, n, i - 1)) \in Nat
        BY <4>2, FS_CardinalityType
      <4>4. Cardinality(InUse(f, n)) \in 0 .. n
        BY InUseFinite
      <4> QED BY <4>2, <4>3, <4>4
    <3>3. InUse(g, m) # Slots(m) /\ Cardinality(InUse(g, m)) \in Nat
      <4>1. Cardinality(InUse(g, m)) \in Nat /\ Cardinality(Slots(m)) = m
        BY InUseFinite
      <4> QED BY <2>1, <3>2, <4>1
    <3>4. ASSUME NEW s \in Slots(m), g[s].key \in PlainKey
          PROVE  g[s].key # e.key
      <4> SUFFICES ASSUME g[s].key = e.key PROVE FALSE
        OBVIOUS
      <4>1. g[s].value \in Value
        BY <2>1, <3>4, ArrayType, KeyFacts
      <4>2. <<g[s].key, g[s].value>> \in Content(g, m)
        BY <3>4, <4>1 DEF Content
      <4>3. PICK t \in Slots(n) : t < i - 1 /\ f[t].key = e.key
        BY <2>1, <3>4, <4>1, <4>2
      <4>4. t = i - 1
        BY <2>1, <3>4, <4>3, Once DEF e
      <4> QED BY <2>4, <4>3, <4>4
    <3>5. /\ x \in Arrays(m)
          /\ Placed(x, m)
          /\ \E s \in Slots(m) : InUse(x, m) = InUse(g, m) \cup {s}
          /\ \A j \in PlainKey, w \in Value :
               <<j, w>> \in Content(x, m) <=>
                 IF j = e.key THEN w = e.value ELSE <<j, w>> \in Content(g, m)
      <4>1. x = [g EXCEPT ![FirstFree(g, m, e.hash)] = e]
        BY <2>2, <2>7
      <4>2. \A s \in Slots(m) : g[s].key \in PlainKey => g[s].key # e.key
        BY <3>4
      <4>3. e \in Entry /\ g \in Arrays(m) /\ Placed(g, m) /\ InUse(g, m) # Slots(m)
        BY <2>1, <3>3
      <4>4. m \in Nat
        OBVIOUS
      <4> DEFINE y == [g EXCEPT ![FirstFree(g, m, e.hash)] = e]
      <4>5. /\ y \in Arrays(m)
            /\ Placed(y, m)
            /\ \E s \in Slots(m) : InUse(y, m) = InUse(g, m) \cup {s}
            /\ \A j \in PlainKey, w \in Value :
                 <<j, w>> \in Content(y, m) <=>
                   IF j = e.key THEN w = e.value ELSE <<j, w>> \in Content(g, m)
        BY <3>1, <4>2, <4>3, <4>4, Moved
      <4>6. x = y
        BY <4>1
      <4> HIDE DEF y
      <4> QED BY <4>5, <4>6
    <3>6. \A k \in PlainKey, v \in Value :
            <<k, v>> \in Content(x, m) <=>
              \E s \in Slots(n) : s < i /\ f[s].key = k /\ f[s].value = v
      <4> SUFFICES ASSUME NEW k \in PlainKey, NEW v \in Value
                   PROVE  <<k, v>> \in Content(x, m) <=>
                            \E s \in Slots(n) : s < i /\ f[s].key = k /\ f[s].value = v
        OBVIOUS
      <4>1. CASE k = e.key
        <5>1. \A s \in Slots(n) : f[s].key = k => s = i - 1
          BY <2>1, <4>1, Once DEF e
        <5> QED BY <2>1, <2>3, <3>5, <4>1, <5>1 DEF e
      <4>2. CASE k # e.key
        <5>1. f[i - 1].key # k
          BY <4>2 DEF e
        <5> QED BY <2>1, <2>3, <3>5, <4>2, <5>1
      <4> QED BY <4>1, <4>2
    <3>7. Cardinality(InUse(x, m)) <= Cardinality(Passed(f, n, i))
      <4>1. Passed(f, n, i) = Passed(f, n, i - 1) \cup {i - 1}
            /\ i - 1 \notin Passed(f, n, i - 1)
        BY <2>1, <2>3, <2>4, <3>1, KeyFacts DEF Passed, InUse, IsFree, e
      <4>2. Cardinality(Passed(f, n, i)) = Cardinality(Passed(f, n, i - 1)) + 1
        BY <3>2, <4>1, FS_AddElement
      <4>3. PICK s \in Slots(m) : InUse(x, m) = InUse(g, m) \cup {s}
        BY <3>5
      <4>4. IsFiniteSet(InUse(g, m))
        BY InUseFinite
      <4>5. Cardinality(InUse(x, m)) <= Cardinality(InUse(g, m)) + 1
        <5>1. Cardinality(InUse(g, m) \cup {s}) =
                IF s \in InUse(g, m) THEN Cardinality(InUse(g, m))
                ELSE Cardinality(InUse(g, m)) + 1
          BY <4>4, FS_AddElement
        <5> QED BY <3>3, <4>3, <5>1
      <4>6. Cardinality(InUse(x, m)) \in Nat
        BY InUseFinite
      <4>7. Cardinality(InUse(g, m)) <= Cardinality(Passed(f, n, i - 1))
        BY <2>9
      <4>8. Cardinality(InUse(g, m)) \in Nat /\ Cardinality(Passed(f, n, i - 1)) \in Nat
        BY <3>2, <3>3
      <4> HIDE DEF Put
      <4> QED BY <4>2, <4>5, <4>6, <4>7, <4>8
    <3>8. x \in Arrays(m) /\ Placed(x, m)
      BY <3>5
    <3>9. Good(i)
      BY <3>6, <3>7, <3>8 DEF x, Good
    <3> QED BY <3>9 DEF T
  <2> QED BY <2>6, <2>7
<1>12. Good(n)
  <2> HIDE DEF Good
  <2>1. \A i \in 0 .. n : i \in T
    <3> HIDE DEF T
    <3> QED BY <1>10, <1>11, Turns
  <2> QED BY <2>1
<1>13. Passed(f, n, n) = InUse(f, n)
  BY DEF Passed, InUse, Slots
<1>14. \A k \in PlainKey, v \in Value :
         <<k, v>> \in Content(f, n) <=>
           \E s \in Slots(n) : s < n /\ f[s].key = k /\ f[s].value = v
  BY DEF Content, Slots
<1> QED BY <1>9, <1>12, <1>13, <1>14

-----------------------------------------------------------------------------

\* A probe ends when some slot is free.
LEMMA FreeStops ==
  ASSUME NEW n \in Nat, NEW f, NEW k \in AnyKey, InUse(f, n) # Slots(n)
  PROVE  Stops(f, n, k) # {}
<1>1. PICK s \in Slots(n) : IsFree(f[s])
  BY DEF InUse
<1>2. n > 0 /\ Hash[k] \in Nat
  BY KeyFacts DEF Slots
<1>3. PICK d \in Slots(n) : Slot(Hash[k], n, d) = s
  BY <1>2, ProbeCovers
<1>4. d \in Stops(f, n, k)
  BY <1>1, <1>3 DEF Stops, Slot
<1> QED BY <1>4

\* What set_dict_key_value does to the array f of n entries.
Write(f, n, k, v) ==
  [f EXCEPT ![FindEntry(f, n, k)] = [hash |-> Hash[k], key |-> k, value |-> v]]

\* set_dict_key_value writes the entry that find_entry returns: its key reads the new
\* value, and every other plain key what it read before.
LEMMA Stored ==
  ASSUME NEW n \in Nat, n > 0, NEW f \in Arrays(n), Placed(f, n),
         NEW k \in Key, NEW v \in Value, Stops(f, n, k) # {}
  PROVE  /\ FindEntry(f, n, k) \in Slots(n)
         /\ Write(f, n, k, v) \in Arrays(n)
         /\ Placed(Write(f, n, k, v), n)
         /\ InUse(Write(f, n, k, v), n) = InUse(f, n) \cup {FindEntry(f, n, k)}
         /\ \A j \in PlainKey :
              Read(Write(f, n, k, v), n, j) = IF j = k THEN v ELSE Read(f, n, j)
<1> DEFINE s == FindEntry(f, n, k)
           x == [f EXCEPT ![s] = [hash |-> Hash[k], key |-> k, value |-> v]]
<1>1. /\ s \in Slots(n)
      /\ f[s].key = NaN \/ <<f[s].key, k>> \in Equal
  <2>1. k \in AnyKey
    BY KeyFacts
  <2> QED BY <2>1, FindStops
<1>2. f[s].key \in PlainKey => f[s].key = k
  <2> HIDE DEF s
  <2>1. ASSUME f[s].key \in PlainKey
        PROVE  <<f[s].key, k>> \in Equal <=> k = f[s].key
    BY <2>1, KeyFacts
  <2>2. f[s].key \in PlainKey => f[s].key # NaN
    BY KeyFacts
  <2> QED BY <1>1, <2>1, <2>2
<1>3. k \in PlainKey =>
        /\ f[s].key \in {NaN, k}
        /\ \E d \in Slots(n) :
             /\ s = Slot(Hash[k], n, d)
             /\ \A c \in 0 .. d - 1 : f[Slot(Hash[k], n, c)].key \notin {NaN, k}
  BY PlainStops
<1> HIDE DEF s
<1>4. /\ x \in Arrays(n)
      /\ Placed(x, n)
      /\ InUse(x, n) = InUse(f, n) \cup {s}
      /\ \A j \in PlainKey, w \in Value :
           <<j, w>> \in Content(x, n) <=>
             IF j = k THEN w = v ELSE <<j, w>> \in Content(f, n)
  BY <1>1, <1>2, <1>3, Written
<1> HIDE DEF x
<1>5. ASSUME NEW j \in PlainKey
      PROVE  Read(x, n, j) = IF j = k THEN v ELSE Read(f, n, j)
  <2>1. CASE j = k
    <3>1. <<j, v>> \in Content(x, n)
      BY <1>4, <2>1
    <3>2. Read(x, n, j) = v
      BY <1>4, <3>1, ReadsContent
    <3> QED BY <2>1, <3>2
  <2>2. CASE j # k
    <3>1. \A w \in Value : <<j, w>> \in Content(x, n) <=> <<j, w>> \in Content(f, n)
      BY <1>4, <2>2
    <3>2. Read(x, n, j) = Read(f, n, j)
      BY <1>4, <3>1, SameContent
    <3> QED BY <2>2, <3>2
  <2> QED BY <2>1, <2>2
<1> QED BY <1>1, <1>4, <1>5 DEF s, x, Write

\* resize_dict leaves what every plain key reads, and room for one key more.
LEMMA Grown ==
  ASSUME NEW n \in Nat, NEW f \in Arrays(n), Placed(f, n), NEW m \in Nat, n < m
  PROVE  LET g == Rehashed(f, n, m)
         IN  /\ g \in Arrays(m)
             /\ Placed(g, m)
             /\ Cardinality(InUse(g, m)) <= Cardinality(InUse(f, n))
             /\ \A k \in AnyKey : Stops(g, m, k) # {}
             /\ \A k \in PlainKey : Read(g, m, k) = Read(f, n, k)
<1> DEFINE g == Rehashed(f, n, m)
<1>1. /\ g \in Arrays(m)
      /\ Placed(g, m)
      /\ Cardinality(InUse(g, m)) <= Cardinality(InUse(f, n))
      /\ \A k \in PlainKey, v \in Value :
           <<k, v>> \in Content(g, m) <=> <<k, v>> \in Content(f, n)
  BY RehashKeeps
<1> HIDE DEF g
<1>2. InUse(g, m) # Slots(m)
  <2>1. /\ Cardinality(InUse(f, n)) \in 0 .. n
        /\ Cardinality(InUse(g, m)) \in 0 .. m
        /\ Cardinality(Slots(m)) = m
    BY InUseFinite
  <2>2. Cardinality(InUse(g, m)) < m
    BY <1>1, <2>1
  <2> QED BY <2>1, <2>2
<1>3. \A k \in AnyKey : Stops(g, m, k) # {}
  BY <1>2, FreeStops
<1>4. \A k \in PlainKey : Read(g, m, k) = Read(f, n, k)
  BY <1>1, SameContent
<1> QED BY <1>1, <1>3, <1>4 DEF g

-----------------------------------------------------------------------------

\* get_dict_value on the dictionary of the state.
LEMMA Reads ==
  ASSUME NEW k
  PROVE  /\ Lookup(k) = Read(entries, capacity, k)
         /\ Lookup(k)' = Read(entries', capacity', k)
  BY DEF Lookup, ProbeFails, Read

\* What the invariant says of the array of entries.
LEMMA Known ==
  ASSUME IInv
  PROVE  /\ capacity \in Nat /\ count \in Nat /\ MaxCapacity \in Nat
         /\ capacity <= MaxCapacity /\ count <= capacity
         /\ fixed \in BOOLEAN
         /\ entries \in Arrays(capacity)
         /\ Placed(entries, capacity)
         /\ Cardinality(InUse(entries, capacity)) <= count
         /\ Cardinality(InUse(entries, capacity)) \in Nat
         /\ fixed => count = Cardinality(InUse(entries, capacity))
         /\ ~fixed /\ capacity > 0 => count * 4 <= capacity * 3
<1>1. /\ capacity \in Nat /\ count \in Nat /\ MaxCapacity \in Nat
      /\ capacity <= MaxCapacity /\ count <= capacity
      /\ fixed \in BOOLEAN
  BY CapacityAssumption DEF IInv, TypeOK
<1>2. Used = InUse(entries, capacity)
  BY DEF Used, InUse
<1>3. Cardinality(InUse(entries, capacity)) \in Nat
  BY <1>1, InUseFinite
<1> QED BY <1>1, <1>2, <1>3 DEF IInv, LoadBound

\* What a step has to establish.
LEMMA Kept ==
  ASSUME /\ capacity' \in 0 .. MaxCapacity
         /\ count' \in 0 .. capacity'
         /\ fixed' \in BOOLEAN
         /\ status' \in {"running", "error", "crash", "spin"}
         /\ entries' \in Arrays(capacity')
         /\ Placed(entries', capacity')
         /\ Cardinality(InUse(entries', capacity')) <= count'
         /\ fixed' => count' = Cardinality(InUse(entries', capacity'))
         /\ ~fixed' /\ capacity' > 0 => count' * 4 <= capacity' * 3
         /\ status' = "crash" => capacity' = 0
         /\ status' = "spin" => fixed' /\ InUse(entries', capacity') = Slots(capacity')
  PROVE  IInv'
<1>1. Used' = InUse(entries', capacity')
  BY DEF Used, InUse
<1>2. capacity' \in Nat
  BY CapacityAssumption
<1>3. TypeOK'
  <2>1. /\ entries' \in [Slots(capacity') -> Entry]
        /\ \A s \in Used' : entries'[s].hash = Hash[entries'[s].key]
    BY <1>1, <1>2, ArrayType DEF InUse, IsFree
  <2> QED BY <2>1 DEF TypeOK, Entry
<1>4. LoadBound' /\ FailsOnlyWhenFull'
  BY <1>1 DEF LoadBound, FailsOnlyWhenFull
<1> QED BY <1>3, <1>4 DEF IInv

\* A new array has no entries: what a read returns is what it returned before.
LEMMA CreateStep ==
  ASSUME IInv, NEW n \in Literals, NEW f \in BOOLEAN, Create(n, f)
  PROVE  /\ IInv'
         /\ \A j \in PlainKey : Lookup(j)' = Lookup(j)
<1>1. n \in Nat /\ n \in 0 .. MaxCapacity /\ capacity = 0 /\ count = 0
  BY CapacityAssumption DEF Create, IInv
<1>2. /\ entries' = FreeEntries(n) /\ capacity' = n /\ count' = 0 /\ fixed' = f
      /\ status' = "running"
  BY <1>1 DEF Create
<1>3. /\ FreeEntries(n) \in Arrays(n)
      /\ Placed(FreeEntries(n), n)
      /\ InUse(FreeEntries(n), n) = {}
      /\ \A k \in PlainKey, v \in Value : <<k, v>> \notin Content(FreeEntries(n), n)
  BY <1>1, NoEntries
<1>4. Cardinality(InUse(FreeEntries(n), n)) = 0
  BY <1>3, FS_EmptySet
<1>5. IInv'
  <2>1. /\ 0 \in 0 .. n /\ ~("running" = "crash") /\ ~("running" = "spin")
        /\ n > 0 => 0 * 4 <= n * 3
    BY <1>1
  <2> QED BY <1>1, <1>2, <1>3, <1>4, <2>1, Kept
<1>6. ASSUME NEW j \in PlainKey
      PROVE  Lookup(j)' = Lookup(j)
  <2>1. Read(FreeEntries(n), n, j) = NaN
    BY <1>1, <1>3, ReadsContent
  <2>2. Read(entries, capacity, j) = NaN
    BY <1>1 DEF Read
  <2> QED BY <1>2, <2>1, <2>2, Reads
<1> QED BY <1>5, <1>6

\* The probe of a set returns, of a dictionary that has slots.
LEMMA Probed ==
  ASSUME IInv, NEW k, ProbeFails(k) = "no"
  PROVE  capacity > 0 /\ Stops(entries, capacity, k) # {}
<1>1. capacity # 0 /\ Stops(entries, capacity, k) # {}
  BY DEF ProbeFails
<1> QED BY <1>1, Known

\* The entry of an equal key is replaced.
LEMMA SetExistingStep ==
  ASSUME IInv, NEW k \in Key, NEW v \in Value, SetExisting(k, v)
  PROVE  /\ IInv'
         /\ \A j \in PlainKey : Lookup(j)' = IF j = k THEN v ELSE Lookup(j)
<1> DEFINE n == capacity
           s == FindEntry(entries, n, k)
           x == Write(entries, n, k, v)
<1>1. /\ ProbeFails(k) = "no" /\ ~IsFree(entries[s]) /\ entries' = x
      /\ capacity' = n /\ count' = count /\ fixed' = fixed /\ status' = "running"
  BY DEF SetExisting, Write
<1>2. n > 0 /\ Stops(entries, n, k) # {}
  BY <1>1, Probed
<1>3. /\ s \in Slots(n)
      /\ x \in Arrays(n)
      /\ Placed(x, n)
      /\ InUse(x, n) = InUse(entries, n) \cup {s}
      /\ \A j \in PlainKey :
           Read(x, n, j) = IF j = k THEN v ELSE Read(entries, n, j)
  <2>1. n \in Nat /\ entries \in Arrays(n) /\ Placed(entries, n)
    BY Known
  <2> QED BY <1>2, <2>1, Stored
<1> HIDE DEF x, s
<1>4. InUse(x, n) = InUse(entries, n)
  BY <1>1, <1>3 DEF InUse
<1>5. IInv'
  <2>1. /\ n \in 0 .. MaxCapacity /\ count \in 0 .. n /\ fixed \in BOOLEAN
        /\ Cardinality(InUse(x, n)) <= count
        /\ fixed => count = Cardinality(InUse(x, n))
        /\ ~fixed /\ n > 0 => count * 4 <= n * 3
    BY <1>4, Known
  <2> HIDE DEF n
  <2> QED BY <1>1, <1>3, <2>1, Kept
<1> QED BY <1>1, <1>3, <1>5, Reads

\* Three quarters of the new capacity are room for the entry that made the dictionary grow.
LEMMA GrownLoad ==
  ASSUME NEW c \in Nat, NEW n \in Nat, n > 0, c * 4 <= n * 3
  PROVE  /\ NewCapacity(n) \in Nat /\ n < NewCapacity(n)
         /\ (c + 1) * 4 <= NewCapacity(n) * 3
<1>1. MinCapacity \in Nat /\ MinCapacity > 0 /\ MinCapacity % 4 # 1
  BY CapacityAssumption
<1>2. CASE n < MinCapacity
  <2>1. NewCapacity(n) = MinCapacity
    BY <1>2 DEF NewCapacity
  <2>2. CASE n + 1 < MinCapacity
    <3>1. c * 4 <= n * 3 /\ n + 2 <= MinCapacity
      BY <1>1, <2>2
    <3>2. (c + 1) * 4 <= MinCapacity * 3
      BY <1>1, <3>1
    <3> QED BY <1>1, <1>2, <2>1, <3>2
  <2>3. CASE n + 1 = MinCapacity
    <3>1. n % 4 # 0
      <4> SUFFICES ASSUME n % 4 = 0 PROVE FALSE
        OBVIOUS
      <4>1. n = 4 * (n \div 4) + (n % 4) /\ n \div 4 \in Nat
        BY DivMod
      <4> DEFINE q == n \div 4
      <4>2. MinCapacity = 4 * q + 1 /\ q \in Nat
        BY <2>3, <4>1
      <4> HIDE DEF q
      <4>3. (4 * q + 1) % 4 = 1
        BY <4>2, OneRemainder
      <4> QED BY <1>1, <4>2, <4>3
    <3>2. c * 4 # n * 3
      <4> SUFFICES ASSUME c * 4 = n * 3 PROVE FALSE
        OBVIOUS
      <4>1. n = 4 * (n - c) + 0 /\ n - c \in Nat
        OBVIOUS
      <4>2. (4 * (n - c) + 0) % 4 = 0
        BY <4>1, OneRemainder
      <4> QED BY <3>1, <4>1, <4>2
    <3>3. (c + 1) * 4 <= MinCapacity * 3
      BY <2>3, <3>2
    <3> QED BY <1>1, <1>2, <2>1, <3>3
  <2> QED BY <1>1, <1>2, <2>2, <2>3
<1>3. CASE ~(n < MinCapacity)
  <2>1. NewCapacity(n) = n * 2
    BY <1>3 DEF NewCapacity
  <2>2. CASE n = 1
    <3>1. c = 0
      BY <2>2
    <3> QED BY <2>1, <2>2, <3>1
  <2>3. CASE n > 1
    <3>1. c * 4 + 4 <= n * 6 /\ (c + 1) * 4 = c * 4 + 4
      BY <2>3
    <3> QED BY <2>1, <2>3, <3>1
  <2> QED BY <2>2, <2>3
<1> QED BY <1>2, <1>3

\* Where a probe does not return there is no slot, or no free one in a fixed dictionary.
LEMMA ProbeStuck ==
  ASSUME IInv, NEW k \in AnyKey
  PROVE  /\ ProbeFails(k) \in {"no", "crash", "spin"}
         /\ ProbeFails(k) = "crash" => capacity = 0
         /\ ProbeFails(k) = "spin" =>
              fixed /\ InUse(entries, capacity) = Slots(capacity)
<1>1. /\ ProbeFails(k) \in {"no", "crash", "spin"}
      /\ ProbeFails(k) = "crash" => capacity = 0
      /\ ProbeFails(k) = "spin" => capacity # 0 /\ Stops(entries, capacity, k) = {}
  BY DEF ProbeFails
<1>2. ASSUME ProbeFails(k) = "spin"
      PROVE  fixed /\ InUse(entries, capacity) = Slots(capacity)
  <2>1. InUse(entries, capacity) = Slots(capacity)
    BY <1>1, <1>2, Known, FreeStops
  <2>2. Cardinality(InUse(entries, capacity)) = capacity
    BY <2>1, Known, InUseFinite
  <2>3. capacity <= count /\ capacity \in Nat /\ count \in Nat /\ capacity > 0
    BY <1>1, <1>2, <2>2, Known
  <2>4. ~(count * 4 <= capacity * 3)
    BY <2>3
  <2> QED BY <2>1, <2>3, <2>4, Known
<1> QED BY <1>1, <1>2

\* A call that ends the program changes nothing of the dictionary.
LEMMA StopStep ==
  ASSUME IInv, UNCHANGED dict,
         \/ status' = "error"
         \/ \E k \in AnyKey : ProbeFails(k) # "no" /\ status' = ProbeFails(k)
  PROVE  /\ IInv'
         /\ status' # "running"
         /\ \A j \in PlainKey : Lookup(j)' = Lookup(j)
<1>1. /\ status' \in {"error", "crash", "spin"}
      /\ status' = "crash" => capacity = 0
      /\ status' = "spin" => fixed /\ InUse(entries, capacity) = Slots(capacity)
  BY ProbeStuck
<1>2. IInv'
  <2>1. /\ capacity \in 0 .. MaxCapacity /\ count \in 0 .. capacity
    BY Known
  <2> QED BY <1>1, <2>1, Known, Kept DEF dict
<1>3. \A j \in PlainKey : Lookup(j)' = Lookup(j)
  BY Reads DEF dict
<1> QED BY <1>1, <1>2, <1>3

\* An element more, at most.
LEMMA OneMore ==
  ASSUME NEW S, IsFiniteSet(S), Cardinality(S) \in Nat, NEW s
  PROVE  /\ Cardinality(S \cup {s}) <= Cardinality(S) + 1
         /\ s \notin S => Cardinality(S \cup {s}) = Cardinality(S) + 1
<1>1. Cardinality(S \cup {s}) = IF s \in S THEN Cardinality(S) ELSE Cardinality(S) + 1
  BY FS_AddElement
<1> QED BY <1>1

\* A new key is refused and nothing changes, or is written to the array, grown first
\* when the load asks for it.
LEMMA SetNewStep ==
  ASSUME IInv, NEW k \in Key, NEW v \in Value, SetNew(k, v)
  PROVE  /\ IInv'
         /\ \/ status' = "error" /\ \A j \in PlainKey : Lookup(j)' = Lookup(j)
            \/ /\ status' = "running"
               /\ \A j \in PlainKey : Lookup(j)' = IF j = k THEN v ELSE Lookup(j)
<1>1. /\ status = "running" /\ ProbeFails(k) = "no" /\ k \in AnyKey
      /\ entries[FindEntry(entries, capacity, k)].key = NaN
      /\ capacity \in Nat /\ capacity > 0 /\ Stops(entries, capacity, k) # {}
      /\ entries \in Arrays(capacity) /\ Placed(entries, capacity)
  BY Known, Probed, KeyFacts DEF SetNew, IsFree
<1>2. CASE fixed /\ count >= capacity
  <2>1. status' = "error" /\ UNCHANGED dict
    BY <1>2 DEF SetNew
  <2>2. IInv'
    BY <2>1, StopStep
  <2>3. \A j \in PlainKey : Lookup(j)' = Lookup(j)
    BY <2>1, StopStep
  <2> QED BY <2>1, <2>2, <2>3
<1>3. CASE ~(fixed /\ count >= capacity)
  <2> DEFINE grows == Crowded(count, capacity) /\ ~fixed
             n == IF grows THEN NewCapacity(capacity) ELSE capacity
             f == IF grows THEN Rehashed(entries, capacity, n) ELSE entries
             x == Write(f, n, k, v)
             s == FindEntry(f, n, k)
             old == Cardinality(InUse(entries, capacity))
  <2>1. /\ n <= MaxCapacity /\ capacity' = n /\ entries' = x
        /\ count' = count + 1 /\ fixed' = fixed /\ status' = "running"
    BY <1>1, <1>3 DEF SetNew, Write
  <2>2. /\ n \in Nat /\ n > 0
        /\ f \in Arrays(n) /\ Placed(f, n)
        /\ Cardinality(InUse(f, n)) <= old
        /\ Stops(f, n, k) # {}
        /\ \A j \in PlainKey : Read(f, n, j) = Read(entries, capacity, j)
        /\ ~fixed => (count + 1) * 4 <= n * 3
        /\ fixed => f = entries /\ n = capacity
    <3>1. CASE grows
      <4> DEFINE m == NewCapacity(capacity)
                 g == Rehashed(entries, capacity, m)
      <4>1. n = m /\ f = g /\ ~fixed
        BY <3>1
      <4>2. /\ m \in Nat /\ capacity < m
            /\ (count + 1) * 4 <= m * 3
        BY <1>1, <4>1, Known, GrownLoad
      <4>3. /\ g \in Arrays(m)
            /\ Placed(g, m)
            /\ Cardinality(InUse(g, m)) <= old
            /\ \A j \in AnyKey : Stops(g, m, j) # {}
            /\ \A j \in PlainKey : Read(g, m, j) = Read(entries, capacity, j)
        <5> HIDE DEF m
        <5> QED BY <1>1, <4>2, Grown
      <4> HIDE DEF grows, n, f, m, g, old
      <4> QED BY <1>1, <4>1, <4>2, <4>3
    <3>2. CASE ~grows
      <4>1. n = capacity /\ f = entries
        BY <3>2
      <4>2. ~fixed => (count + 1) * 4 <= capacity * 3
        BY <3>2, Known DEF Crowded
      <4>3. old <= old
        BY Known
      <4> HIDE DEF grows, n, f
      <4> QED BY <1>1, <4>1, <4>2, <4>3
    <3> QED BY <3>1, <3>2
  <2> HIDE DEF grows, n, f
  <2>3. /\ s \in Slots(n)
        /\ x \in Arrays(n)
        /\ Placed(x, n)
        /\ InUse(x, n) = InUse(f, n) \cup {s}
        /\ \A j \in PlainKey :
             Read(x, n, j) = IF j = k THEN v ELSE Read(f, n, j)
    BY <2>2, Stored
  <2>4. \A j \in PlainKey : Lookup(j)' = IF j = k THEN v ELSE Lookup(j)
    <3> HIDE DEF x
    <3> QED BY <2>1, <2>2, <2>3, Reads
  <2> DEFINE new == Cardinality(InUse(x, n))
  <2>5. /\ new \in Nat /\ new <= n
        /\ new <= Cardinality(InUse(f, n)) + 1
        /\ s \notin InUse(f, n) => new = Cardinality(InUse(f, n)) + 1
        /\ Cardinality(InUse(f, n)) \in Nat
    <3>1. /\ IsFiniteSet(InUse(f, n)) /\ Cardinality(InUse(f, n)) \in 0 .. n
          /\ Cardinality(InUse(x, n)) \in 0 .. n
      BY <2>2, InUseFinite
    <3> HIDE DEF x, s
    <3> QED BY <2>2, <2>3, <3>1, OneMore
  <2>6. fixed => new = old + 1
    <3> SUFFICES ASSUME fixed PROVE new = old + 1
      OBVIOUS
    <3>1. f = entries /\ n = capacity
      BY <2>2
    <3>2. s \notin InUse(f, n)
      BY <1>1, <3>1 DEF InUse, IsFree
    <3> HIDE DEF x, s
    <3> QED BY <2>5, <3>1, <3>2
  <2> HIDE DEF x, new, old
  <2>7. /\ capacity \in Nat /\ count \in Nat /\ count <= capacity /\ fixed \in BOOLEAN
        /\ old <= count /\ old \in Nat
        /\ fixed => count = old
        /\ MaxCapacity \in Nat
    BY Known DEF old
  <2>8. /\ n \in 0 .. MaxCapacity
        /\ count + 1 \in 0 .. n
        /\ new <= count + 1
        /\ fixed => count + 1 = new
    <3>1. n \in 0 .. MaxCapacity
      BY <2>1, <2>2, <2>7
    <3>2. new <= count + 1
      <4>1. Cardinality(InUse(f, n)) <= old /\ Cardinality(InUse(f, n)) \in Nat
        BY <2>2, <2>5
      <4>2. new <= Cardinality(InUse(f, n)) + 1 /\ new \in Nat
        BY <2>5
      <4>3. old <= count /\ old \in Nat /\ count \in Nat
        BY <2>7
      <4> QED BY <4>1, <4>2, <4>3
    <3>3. fixed => count + 1 = new
      <4>1. ASSUME fixed PROVE new = old + 1 /\ count = old
        BY <2>6, <2>7, <4>1
      <4> QED BY <4>1
    <3>4. count + 1 \in 0 .. n
      BY <1>3, <2>2, <2>7
    <3> QED BY <3>1, <3>2, <3>3, <3>4
  <2>9. IInv'
    BY <2>1, <2>2, <2>3, <2>7, <2>8, Kept DEF new
  <2> QED BY <2>1, <2>4, <2>9
<1> QED BY <1>2, <1>3

-----------------------------------------------------------------------------

\* The dictionary as the abstract specification sees it.
Map == [k \in PlainKey |-> Lookup(k)]

\* Before it is created a dictionary is empty.
LEMMA InitHolds ==
  ASSUME Init
  PROVE  /\ IInv
         /\ Map = [k \in PlainKey |-> NaN]
<1>1. /\ FreeEntries(0) \in Arrays(0)
      /\ Placed(FreeEntries(0), 0)
      /\ InUse(FreeEntries(0), 0) = {}
  BY NoEntries
<1>2. Used = {} /\ Cardinality({}) = 0
  BY <1>1, FS_EmptySet DEF Init, Used, InUse
<1>3. TypeOK
  <2>1. entries \in [Slots(0) -> Entry]
    BY <1>1, ArrayType DEF Init
  <2>2. capacity \in 0 .. MaxCapacity /\ count \in 0 .. capacity
    BY CapacityAssumption DEF Init
  <2>3. /\ fixed \in BOOLEAN
        /\ status \in {"none", "running", "error", "crash", "spin"}
        /\ capacity = 0
    BY DEF Init
  <2> QED BY <1>2, <2>1, <2>2, <2>3 DEF TypeOK, Entry
<1>4. LoadBound /\ FailsOnlyWhenFull
  BY <1>2 DEF Init, LoadBound, FailsOnlyWhenFull
<1>5. \A k \in PlainKey : Lookup(k) = NaN
  BY Reads DEF Init, Read
<1> QED BY <1>1, <1>3, <1>4, <1>5 DEF Init, IInv, Map

\* Every call preserves the invariant, and is a step of the function or none.
LEMMA StepHolds ==
  ASSUME IInv, [Next]_vars
  PROVE  IInv' /\ [Abstract!Next]_(Abstract!vars)
<1> DEFINE Same == \A j \in PlainKey : Lookup(j)' = Lookup(j)
<1>1. Same => Map' = Map
  BY DEF Map
<1>2. ASSUME NEW k \in Key, NEW v \in Value, status = "running", status' = "running",
             \A j \in PlainKey : Lookup(j)' = IF j = k THEN v ELSE Lookup(j)
      PROVE  [Abstract!Next]_(Abstract!vars)
  <2>1. CASE k \in PlainKey
    <3>1. Map' = [Map EXCEPT ![k] = v]
      BY <1>2, <2>1 DEF Map
    <3> QED BY <1>2, <2>1, <3>1 DEF Map, Abstract!Next, Abstract!Set
  <2>2. CASE k \notin PlainKey
    <3>1. Map' = Map
      BY <1>2, <2>2 DEF Map
    <3> QED BY <1>2, <3>1 DEF Map, Abstract!vars
  <2> QED BY <2>1, <2>2
<1>3. ASSUME status = "running", UNCHANGED dict,
             \/ status' = "error"
             \/ \E k \in AnyKey : ProbeFails(k) # "no" /\ status' = ProbeFails(k)
      PROVE  IInv' /\ [Abstract!Next]_(Abstract!vars)
  <2>1. IInv' /\ status' # "running" /\ Map' = Map
    BY <1>1, <1>3, StopStep
  <2> QED BY <1>3, <2>1 DEF Map, Abstract!Next, Abstract!Stop
<1>4. ASSUME NEW n \in Literals, NEW f \in BOOLEAN, Create(n, f)
      PROVE  IInv' /\ [Abstract!Next]_(Abstract!vars)
  <2>1. IInv' /\ Map' = Map
    BY <1>1, <1>4, CreateStep
  <2>2. status = "none" /\ status' = "running"
    BY <1>4 DEF Create
  <2> QED BY <2>1, <2>2 DEF Map, Abstract!Next, Abstract!Create
<1>5. ASSUME NEW k \in Key, NEW v \in Value, SetExisting(k, v)
      PROVE  IInv' /\ [Abstract!Next]_(Abstract!vars)
  <2>1. status = "running" /\ status' = "running"
    BY <1>5 DEF SetExisting
  <2> QED BY <1>2, <1>5, <2>1, SetExistingStep
<1>6. ASSUME NEW k \in Key, NEW v \in Value, SetNew(k, v)
      PROVE  IInv' /\ [Abstract!Next]_(Abstract!vars)
  <2>1. status = "running"
    BY <1>6 DEF SetNew
  <2>2. IInv'
    BY <1>6, SetNewStep
  <2>3. CASE status' = "error" /\ Same
    BY <1>1, <2>1, <2>2, <2>3 DEF Map, Abstract!Next, Abstract!Stop
  <2>4. CASE /\ status' = "running"
             /\ \A j \in PlainKey : Lookup(j)' = IF j = k THEN v ELSE Lookup(j)
    BY <1>2, <2>1, <2>2, <2>4
  <2> QED BY <1>6, <2>2, <2>3, <2>4, SetNewStep
<1>7. ASSUME NEW k \in Key, SetFails(k)
      PROVE  IInv' /\ [Abstract!Next]_(Abstract!vars)
  BY <1>3, <1>7, KeyFacts DEF SetFails
<1>8. ASSUME NEW k \in BadKey, SetBadKey(k)
      PROVE  IInv' /\ [Abstract!Next]_(Abstract!vars)
  BY <1>3, <1>8 DEF SetBadKey
<1>9. ASSUME NEW k \in AnyKey, GetStops(k)
      PROVE  IInv' /\ [Abstract!Next]_(Abstract!vars)
  BY <1>3, <1>9 DEF GetStops
<1>10. ASSUME UNCHANGED vars
       PROVE  IInv' /\ [Abstract!Next]_(Abstract!vars)
  <2>1. UNCHANGED <<entries, capacity, count, fixed, status, Used>>
    BY <1>10 DEF vars, Used
  <2>2. IInv'
    BY <2>1 DEF IInv, TypeOK, LoadBound, FailsOnlyWhenFull
  <2>3. Map' = Map
    BY <1>1, <2>1, Reads
  <2> QED BY <2>1, <2>2, <2>3 DEF Map, Abstract!vars
<1> QED BY <1>4, <1>5, <1>6, <1>7, <1>8, <1>9, <1>10 DEF Next, Stopped

\* The invariant holds of every reachable state.
LEMMA Inductive == Spec => []IInv
<1> QED BY InitHolds, StepHolds, PTL DEF Spec

\* The state of a dictionary is of its type, and every entry in use carries the hash of
\* its own key, through every set, growth and failure of mobjects.c.
THEOREM TypeCorrect == Spec => []TypeOK
<1>1. IInv => TypeOK
  BY DEF IInv
<1> QED BY <1>1, Inductive, PTL

\* dict->count never falls behind the entries in use and is exact for a fixed dictionary,
\* and a dictionary that may grow is never more than three quarters full.
THEOREM LoadStaysBounded == Spec => []LoadBound
<1>1. IInv => LoadBound
  BY DEF IInv
<1> QED BY <1>1, Inductive, PTL

\* find_entry always returns, but for a dictionary without slots and a full fixed one.
THEOREM ProbesEnd == Spec => []FailsOnlyWhenFull
<1>1. IInv => FailsOnlyWhenFull
  BY DEF IInv
<1> QED BY <1>1, Inductive, PTL

\* For its plain keys a dictionary is a function: what was set last is what is read,
\* through collisions, wrap-around and growth, and whatever the other keys do.
THEOREM DictIsFunction == Spec => ImplementsDictSpec
<1>1. Init => Abstract!Init
  BY InitHolds DEF Map, Abstract!Init, Init
<1> QED BY <1>1, Inductive, StepHolds, PTL DEF Spec, ImplementsDictSpec, Abstract!Spec
=============================================================================
