------------------------------ MODULE ListProofs ------------------------------
(***************************************************************************)
(* The registers never hold a dangling reference, set_list_element never   *)
(* writes past the end of a list that may grow, and an instruction changes *)
(* no list that another one may see but the one it names.                  *)
(***************************************************************************)
EXTENDS List, DataLemmas

\* What an element may be when there are n lists, and a list of such elements.
Element(n) == Scalar \cup {Ref(l) : l \in 1 .. n}
ListOfType(E) == [values : Seq(E), capacity : Int, fixed : BOOLEAN]

\* A list in which every element has its slot.
Covered(l) == Len(l.values) <= l.capacity \/ (l.fixed /\ l.values = <<>>)

\* What every step preserves: the fixed lists are covered while the program runs, the
\* others always.
IInv == /\ TypeOK
        /\ \A l \in DOMAIN lists : Covered(lists[l]) \/ (lists[l].fixed /\ status = "error")

\* What OperandsKept says of a step.
OthersKept == \A l \in DOMAIN lists :
                lists'[l] # lists[l] => R' = R /\ Ref(l) \in {R[r] : r \in Reg}

-----------------------------------------------------------------------------

\* The lists as a function: what TypeOK says, without sequences.
LEMMA ListsType ==
  ASSUME TypeOK
  PROVE  /\ Len(lists) \in Nat
         /\ DOMAIN lists = 1 .. Len(lists)
         /\ Refs = {Ref(l) : l \in 1 .. Len(lists)}
         /\ lists \in Seq(ListOfType(Element(Len(lists))))
         /\ \A l \in 1 .. Len(lists) :
              /\ lists[l] \in ListOfType(Element(Len(lists)))
              /\ lists[l].values \in Seq(Element(Len(lists)))
              /\ lists[l].capacity \in Int
              /\ lists[l].fixed \in BOOLEAN
              /\ Len(lists[l].values) \in Nat
<1>1. lists \in Seq(ListOfType(Scalar \cup Refs))
  BY DEF TypeOK, ListOfType
<1>2. Len(lists) \in Nat /\ DOMAIN lists = 1 .. Len(lists)
  BY <1>1, LenProperties
<1>3. Refs = {Ref(l) : l \in 1 .. Len(lists)}
  BY <1>2 DEF Refs
<1>4. lists \in Seq(ListOfType(Element(Len(lists))))
  BY <1>1, <1>3 DEF Element
<1>5. \A l \in 1 .. Len(lists) : lists[l] \in ListOfType(Element(Len(lists)))
  BY <1>4, ElementOfSeq
<1>6. \A l \in 1 .. Len(lists) : /\ lists[l].values \in Seq(Element(Len(lists)))
                                 /\ lists[l].capacity \in Int
                                 /\ lists[l].fixed \in BOOLEAN
  BY <1>5 DEF ListOfType
<1>7. \A l \in 1 .. Len(lists) : Len(lists[l].values) \in Nat
  BY <1>6, LenProperties
<1> QED BY <1>2, <1>3, <1>4, <1>5, <1>6, <1>7

\* A register that holds a list holds the reference of one.
LEMMA HeldList ==
  ASSUME TypeOK, NEW r \in Reg, HoldsList(r)
  PROVE  /\ R[r][1] \in 1 .. Len(lists)
         /\ R[r] = Ref(R[r][1])
         /\ ListOf(r) = lists[R[r][1]]
<1>1. PICK l \in 1 .. Len(lists) : R[r] = Ref(l)
  BY ListsType DEF HoldsList
<1> QED BY <1>1 DEF Ref, ListOf

\* A list more leaves the elements what they are.
LEMMA MoreElements ==
  ASSUME NEW n \in Nat
  PROVE  /\ Element(n) \subseteq Element(n + 1)
         /\ \A s \in Seq(Element(n)) : s \in Seq(Element(n + 1))
         /\ \A l \in ListOfType(Element(n)) : l \in ListOfType(Element(n + 1))
<1>1. Element(n) \subseteq Element(n + 1)
  BY DEF Element
<1>2. \A s \in Seq(Element(n)) : s \in Seq(Element(n + 1))
  BY <1>1, SeqDef, LenProperties, ElementOfSeq
<1>3. \A l \in ListOfType(Element(n)) : l \in ListOfType(Element(n + 1))
  BY <1>2 DEF ListOfType
<1> QED BY <1>1, <1>2, <1>3

\* set_list_element at position 0 puts the element behind the others, in a slot of its
\* own unless the list is fixed.
LEMMA PushedOne ==
  ASSUME NEW E, NEW l \in ListOfType(E), NEW e \in E
  PROVE  /\ Pushed(l, e) \in ListOfType(E)
         /\ Pushed(l, e).values = Append(l.values, e)
         /\ Pushed(l, e).fixed = l.fixed
         /\ l.fixed => Pushed(l, e).capacity = l.capacity
         /\ ~l.fixed /\ Len(l.values) <= l.capacity =>
              Len(Pushed(l, e).values) <= Pushed(l, e).capacity
<1>1. l.values \in Seq(E) /\ l.capacity \in Int /\ l.fixed \in BOOLEAN
  BY DEF ListOfType
<1>2. /\ Append(l.values, e) \in Seq(E) /\ Len(Append(l.values, e)) = Len(l.values) + 1
      /\ Len(l.values) \in Nat
  BY <1>1, Appended, LenProperties
<1>3. NewCapacity(l) \in Int
  BY <1>1, <1>2, NumbersAssumption DEF NewCapacity
<1>4. /\ Pushed(l, e) \in ListOfType(E)
      /\ Pushed(l, e).values = Append(l.values, e)
      /\ Pushed(l, e).capacity = NewCapacity(l)
      /\ Pushed(l, e).fixed = l.fixed
  <2> DEFINE v == Append(l.values, e)
             c == NewCapacity(l)
  <2>1. v \in Seq(E) /\ c \in Int
    BY <1>2, <1>3
  <2>2. Pushed(l, e) = [l EXCEPT !.values = v, !.capacity = c]
    BY DEF Pushed
  <2> HIDE DEF v, c
  <2>3. /\ [l EXCEPT !.values = v, !.capacity = c] \in ListOfType(E)
        /\ [l EXCEPT !.values = v, !.capacity = c].values = v
        /\ [l EXCEPT !.values = v, !.capacity = c].capacity = c
        /\ [l EXCEPT !.values = v, !.capacity = c].fixed = l.fixed
    BY <2>1 DEF ListOfType
  <2> QED BY <2>2, <2>3 DEF v, c
<1>5. l.fixed => NewCapacity(l) = l.capacity
  BY DEF NewCapacity
<1>6. ASSUME ~l.fixed, Len(l.values) <= l.capacity
      PROVE  Len(l.values) + 1 <= NewCapacity(l)
  <2>1. MinCapacity \in Nat /\ MinCapacity > 0
    BY NumbersAssumption
  <2>2. NewCapacity(l) = IF Len(l.values) < l.capacity THEN l.capacity
                         ELSE IF l.capacity < MinCapacity THEN MinCapacity
                         ELSE l.capacity * 2
    BY <1>6 DEF NewCapacity
  <2> QED BY <1>1, <1>2, <1>6, <2>1, <2>2
<1> QED BY <1>1, <1>2, <1>3, <1>4, <1>5, <1>6 DEF ListOfType

\* Pushing a sequence, element by element, puts it behind what the list had.
LEMMA PushedMany ==
  ASSUME NEW E, NEW l \in ListOfType(E), NEW s \in Seq(E)
  PROVE  /\ PushedAll(l, s) \in ListOfType(E)
         /\ PushedAll(l, s).values = l.values \o s
         /\ PushedAll(l, s).fixed = l.fixed
         /\ l.fixed => PushedAll(l, s).capacity = l.capacity
         /\ ~l.fixed /\ Len(l.values) <= l.capacity =>
              Len(PushedAll(l, s).values) <= PushedAll(l, s).capacity
<1> DEFINE S == ListOfType(E)
           n == Len(s)
           turn == [p \in (1 .. n) \X S |-> Pushed(p[2], s[p[1]])]
           pushed[i \in 0 .. n] == IF i = 0 THEN l ELSE Pushed(pushed[i - 1], s[i])
<1>1. /\ n \in Nat /\ \A i \in 1 .. n : s[i] \in E
      /\ l.values \in Seq(E) /\ Len(l.values) \in Nat
      /\ l.capacity \in Int /\ l.fixed \in BOOLEAN
  <2>1. l.values \in Seq(E) /\ l.capacity \in Int /\ l.fixed \in BOOLEAN
    BY DEF ListOfType
  <2> QED BY <2>1, LenProperties, ElementOfSeq
<1>2. turn \in [(1 .. n) \X S -> S]
  <2>1. \A p \in (1 .. n) \X S : Pushed(p[2], s[p[1]]) \in S
    BY <1>1, PushedOne
  <2> HIDE DEF S
  <2> QED BY <2>1
<1>3. PICK h : Iteration(h, S, n, l, turn)
  <2> HIDE DEF turn, n
  <2> QED BY <1>1, <1>2, Iterates
<1>4. \A i \in 1 .. n : h[i - 1] \in S /\ h[i] = Pushed(h[i - 1], s[i])
  <2> HIDE DEF S
  <2>1. \A i \in 1 .. n : i - 1 \in 0 .. n
    BY <1>1
  <2>2. \A i \in 1 .. n : h[i - 1] \in S
    BY <1>3, <2>1 DEF Iteration
  <2>3. \A i \in 1 .. n : <<i, h[i - 1]>> \in (1 .. n) \X S
    BY <2>2
  <2> QED BY <1>3, <2>2, <2>3 DEF Iteration
<1>5. h = [i \in 0 .. n |-> IF i = 0 THEN l ELSE Pushed(h[i - 1], s[i])]
  <2> HIDE DEF S
  <2> QED BY <1>3, <1>4 DEF Iteration
<1>6. pushed = [i \in 0 .. n |-> IF i = 0 THEN l ELSE Pushed(pushed[i - 1], s[i])]
  BY <1>5
<1>7. PushedAll(l, s) = pushed[n]
  BY DEF PushedAll
<1> HIDE DEF pushed, turn
<1> DEFINE m == Len(l.values)
           Good(i) ==
             /\ pushed[i] \in S
             /\ Len(pushed[i].values) = m + i
             /\ \A j \in 1 .. m : pushed[i].values[j] = l.values[j]
             /\ \A j \in 1 .. i : pushed[i].values[m + j] = s[j]
             /\ pushed[i].fixed = l.fixed
             /\ l.fixed => pushed[i].capacity = l.capacity
             /\ ~l.fixed /\ Len(l.values) <= l.capacity =>
                  Len(pushed[i].values) <= pushed[i].capacity
           T == {i \in 0 .. n : Good(i)}
<1>8. 0 \in T
  <2>1. pushed[0] = l
    BY <1>1, <1>6
  <2> QED BY <1>1, <2>1
<1>9. ASSUME NEW i \in 1 .. n, i - 1 \in T
      PROVE  i \in T
  <2> DEFINE x == pushed[i - 1]
             y == pushed[i]
  <2>1. /\ x \in S
        /\ Len(x.values) = m + (i - 1)
        /\ \A j \in 1 .. m : x.values[j] = l.values[j]
        /\ \A j \in 1 .. i - 1 : x.values[m + j] = s[j]
        /\ x.fixed = l.fixed
        /\ l.fixed => x.capacity = l.capacity
        /\ ~l.fixed /\ Len(l.values) <= l.capacity => Len(x.values) <= x.capacity
    BY <1>9
  <2>2. y = Pushed(x, s[i]) /\ s[i] \in E /\ i \in Nat /\ i > 0 /\ m \in Nat
    BY <1>1, <1>6
  <2> HIDE DEF x, y, Good, T, n, m, S
  <2>3. /\ y \in ListOfType(E)
        /\ y.values = Append(x.values, s[i])
        /\ y.fixed = x.fixed
        /\ x.fixed => y.capacity = x.capacity
        /\ ~x.fixed /\ Len(x.values) <= x.capacity => Len(y.values) <= y.capacity
    BY <2>1, <2>2, PushedOne DEF S
  <2>4. /\ Len(y.values) = m + i
        /\ \A j \in 1 .. m + (i - 1) : y.values[j] = x.values[j]
        /\ y.values[m + i] = s[i]
    <3>1. x.values \in Seq(E)
      BY <2>1 DEF S, ListOfType
    <3>2. m + (i - 1) + 1 = m + i
      BY <2>2
    <3> QED BY <2>1, <2>2, <2>3, <3>1, <3>2, Appended
  <2>5. \A j \in 1 .. m : y.values[j] = l.values[j]
    BY <2>1, <2>2, <2>4
  <2>6. \A j \in 1 .. i : y.values[m + j] = s[j]
    <3> SUFFICES ASSUME NEW j \in 1 .. i PROVE y.values[m + j] = s[j]
      OBVIOUS
    <3>1. CASE j = i
      BY <2>4, <3>1
    <3>2. CASE j # i
      <4>1. j \in 1 .. i - 1 /\ m + j \in 1 .. m + (i - 1)
        BY <2>2, <3>2
      <4> QED BY <2>1, <2>4, <4>1
    <3> QED BY <3>1, <3>2
  <2>7. Good(i)
    BY <2>1, <2>3, <2>4, <2>5, <2>6 DEF Good, y, S, m
  <2> QED BY <2>7 DEF T
<1>10. Good(n)
  <2> HIDE DEF Good
  <2>1. \A i \in 0 .. n : i \in T
    <3> HIDE DEF T, n
    <3> QED BY <1>1, <1>8, <1>9, Turns
  <2> QED BY <1>1, <2>1
<1> DEFINE z == pushed[n]
<1>11. z.values = l.values \o s
  <2>1. /\ z \in S /\ Len(z.values) = m + n
        /\ \A j \in 1 .. m : z.values[j] = l.values[j]
        /\ \A j \in 1 .. n : z.values[m + j] = s[j]
    BY <1>10
  <2> HIDE DEF z
  <2>2. z.values \in Seq(E)
    BY <2>1 DEF ListOfType
  <2>3. /\ l.values \o s \in Seq(E)
        /\ Len(l.values \o s) = m + n
        /\ \A j \in 1 .. m + n :
             (l.values \o s)[j] = IF j <= m THEN l.values[j] ELSE s[j - m]
    BY <1>1, ConcatProperties
  <2>4. \A j \in 1 .. m + n : z.values[j] = (l.values \o s)[j]
    <3> SUFFICES ASSUME NEW j \in 1 .. m + n PROVE z.values[j] = (l.values \o s)[j]
      OBVIOUS
    <3>1. CASE j <= m
      BY <1>1, <2>1, <2>3, <3>1
    <3>2. CASE ~(j <= m)
      <4>1. j - m \in 1 .. n /\ m + (j - m) = j
        BY <1>1, <3>2
      <4>2. z.values[m + (j - m)] = s[j - m]
        BY <2>1, <4>1
      <4> QED BY <2>3, <3>2, <4>1, <4>2
    <3> QED BY <3>1, <3>2
  <2> QED BY <2>1, <2>2, <2>3, <2>4, SeqEqual
<1> QED BY <1>7, <1>10, <1>11

\* Pushing keeps every element in its slot, unless it is refused.
LEMMA PushedCovered ==
  ASSUME NEW E, NEW l \in ListOfType(E), NEW s \in Seq(E), Covered(l)
  PROVE  Covered(PushedAll(l, s)) \/ (PushedAll(l, s).fixed /\ Refuses(l, s))
<1> DEFINE x == PushedAll(l, s)
<1>1. /\ x.values = l.values \o s
      /\ x.fixed = l.fixed
      /\ l.fixed => x.capacity = l.capacity
      /\ ~l.fixed /\ Len(l.values) <= l.capacity => Len(x.values) <= x.capacity
  BY PushedMany
<1> HIDE DEF x
<1>2. /\ l.values \in Seq(E) /\ Len(l.values) \in Nat /\ l.capacity \in Int
      /\ l.fixed \in BOOLEAN /\ Len(s) \in Nat
  <2>1. l.values \in Seq(E) /\ l.capacity \in Int /\ l.fixed \in BOOLEAN
    BY DEF ListOfType
  <2> QED BY <2>1, LenProperties
<1>3. Len(x.values) = Len(l.values) + Len(s)
  BY <1>1, <1>2, ConcatProperties
<1>4. CASE ~l.fixed
  BY <1>1, <1>4 DEF Covered, x
<1>5. CASE l.fixed /\ s = <<>>
  <2>1. x.values = l.values
    BY <1>1, <1>2, <1>5, ConcatEmptySeq
  <2>2. Covered(x)
    BY <1>1, <1>5, <2>1 DEF Covered
  <2> QED BY <2>2 DEF x
<1>6. CASE l.fixed /\ s # <<>>
  <2>1. CASE Refuses(l, s)
    BY <1>1, <1>6, <2>1 DEF x
  <2>2. CASE ~Refuses(l, s)
    <3>1. ~(Len(l.values) + Len(s) > l.capacity)
      BY <1>6, <2>2 DEF Refuses
    <3>2. Len(x.values) <= x.capacity
      BY <1>1, <1>2, <1>3, <1>6, <3>1
    <3> QED BY <3>2 DEF Covered, x
  <2> QED BY <2>1, <2>2
<1> QED BY <1>2, <1>4, <1>5, <1>6 DEF x

-----------------------------------------------------------------------------

\* A list built in a register: the reference is the new list, and no other list is touched.
LEMMA BuildKeeps ==
  ASSUME IInv, Running, NEW a \in Reg, NEW refused \in BOOLEAN,
         NEW l \in ListOfType(Element(Len(lists) + 1)),
         Covered(l) \/ (l.fixed /\ refused), Build(a, l, refused)
  PROVE  IInv' /\ OthersKept
<1> DEFINE n == Len(lists)
           S == ListOfType(Element(n + 1))
<1>1. /\ n \in Nat /\ DOMAIN lists = 1 .. n
      /\ lists \in Seq(S)
  <2>1. /\ n \in Nat /\ DOMAIN lists = 1 .. n
        /\ \A k \in 1 .. n : lists[k] \in ListOfType(Element(n))
        /\ lists \in Seq(ListOfType(Element(n)))
    BY ListsType DEF IInv
  <2>2. \A k \in 1 .. n : lists[k] \in S
    BY <2>1, MoreElements
  <2> HIDE DEF S, n
  <2>3. lists \in Seq(S)
    BY <2>1, <2>2, LenProperties, SeqDef DEF n
  <2> QED BY <2>1, <2>3
<1>2. /\ lists' = Append(lists, l)
      /\ R' = [R EXCEPT ![a] = Ref(n + 1)]
      /\ status' = IF refused THEN "error" ELSE "running"
  BY DEF Build, Goes, Running
<1>3. /\ lists' \in Seq(S) /\ Len(lists') = n + 1 /\ DOMAIN lists' = 1 .. n + 1
      /\ \A k \in 1 .. n : lists'[k] = lists[k]
      /\ lists'[n + 1] = l
  <2> HIDE DEF S
  <2>1. l \in S
    BY DEF S
  <2> QED BY <1>1, <1>2, <2>1, Appended
<1> HIDE DEF n
<1>4. Refs' = {Ref(k) : k \in 1 .. n + 1}
  BY <1>3 DEF Refs
<1>5. R' \in [Reg -> Scalar \cup {NaN} \cup Refs'] /\ R'[a] = Ref(n + 1)
  <2>1. R \in [Reg -> Scalar \cup {NaN} \cup Refs]
    BY DEF IInv, TypeOK
  <2>2. Refs \subseteq Refs' /\ Ref(n + 1) \in Refs'
    <3>1. Refs = {Ref(k) : k \in 1 .. n}
      BY <1>1 DEF Refs
    <3>2. n + 1 \in 1 .. n + 1 /\ \A k \in 1 .. n : k \in 1 .. n + 1
      BY <1>1
    <3> QED BY <1>4, <3>1, <3>2, Zenon
  <2> HIDE DEF Ref
  <2> QED BY <1>2, <2>1, <2>2
<1>6. TypeOK'
  <2>1. Element(n + 1) = Scalar \cup Refs'
    BY <1>4 DEF Element
  <2>2. lists' \in Seq([values : Seq(Scalar \cup Refs'), capacity : Int, fixed : BOOLEAN])
    BY <1>3, <2>1 DEF ListOfType
  <2> QED BY <1>2, <1>5, <2>2 DEF TypeOK
<1>7. ASSUME NEW k \in DOMAIN lists'
      PROVE  Covered(lists'[k]) \/ (lists'[k].fixed /\ status' = "error")
  <2>1. CASE k = n + 1
    BY <1>2, <1>3, <2>1
  <2>2. CASE k # n + 1
    <3>1. k \in DOMAIN lists /\ lists'[k] = lists[k]
      BY <1>1, <1>3, <2>2
    <3>2. status # "error"
      BY DEF Running
    <3> QED BY <3>1, <3>2 DEF IInv
  <2> QED BY <2>1, <2>2
<1> QED BY <1>1, <1>3, <1>6, <1>7 DEF IInv, OthersKept, n

\* A list changed in place, by an instruction that leaves the registers as they are.
LEMMA InPlaceKeeps ==
  ASSUME IInv, Running, NEW a \in Reg, HoldsList(a), NEW refused \in BOOLEAN,
         NEW x \in ListOfType(Element(Len(lists))),
         Covered(x) \/ (x.fixed /\ refused),
         lists' = [lists EXCEPT ![R[a][1]] = x], R' = R, Goes(refused)
  PROVE  IInv' /\ OthersKept /\ Len(lists') = Len(lists)
<1> DEFINE n == Len(lists)
           S == ListOfType(Element(n))
           i == R[a][1]
<1>1. /\ n \in Nat /\ DOMAIN lists = 1 .. n /\ lists \in Seq(S)
      /\ i \in 1 .. n /\ R[a] = Ref(i)
  BY ListsType, HeldList DEF IInv
<1>2. /\ lists' \in Seq(S) /\ Len(lists') = n /\ DOMAIN lists' = 1 .. n
      /\ lists'[i] = x /\ \A k \in 1 .. n : k # i => lists'[k] = lists[k]
  <2>1. lists' = [lists EXCEPT ![i] = x] /\ x \in S
    OBVIOUS
  <2> HIDE DEF S, n, i
  <2>2. lists' \in Seq(S) /\ Len(lists') = n
    <3>1. /\ [lists EXCEPT ![i] = x] \in Seq(S)
          /\ Len([lists EXCEPT ![i] = x]) = Len(lists)
      BY <1>1, <2>1, ExceptSeq DEF n
    <3> QED BY <2>1, <3>1 DEF n
  <2> QED BY <1>1, <2>1, <2>2, LenProperties
<1>3. status' = IF refused THEN "error" ELSE "running"
  BY DEF Goes, Running
<1> HIDE DEF n, i
<1>4. Refs' = Refs /\ Element(n) = Scalar \cup Refs
  BY <1>1, <1>2 DEF Refs, Element
<1>5. TypeOK'
  <2>1. lists' \in Seq([values : Seq(Scalar \cup Refs'), capacity : Int, fixed : BOOLEAN])
    BY <1>2, <1>4 DEF ListOfType
  <2> QED BY <1>3, <1>4, <2>1 DEF TypeOK, IInv
<1>6. ASSUME NEW k \in DOMAIN lists'
      PROVE  Covered(lists'[k]) \/ (lists'[k].fixed /\ status' = "error")
  <2>1. CASE k = i
    BY <1>2, <1>3, <2>1
  <2>2. CASE k # i
    <3>1. k \in DOMAIN lists /\ lists'[k] = lists[k]
      BY <1>1, <1>2, <2>2
    <3>2. status # "error"
      BY DEF Running
    <3> QED BY <3>1, <3>2 DEF IInv
  <2> QED BY <2>1, <2>2
<1>7. OthersKept
  BY <1>1, <1>2 DEF OthersKept
<1> QED BY <1>2, <1>5, <1>6, <1>7 DEF IInv, n

\* An instruction that only assigns a register.
LEMMA AssignKeeps ==
  ASSUME IInv, NEW a \in Reg, NEW v \in Scalar \cup {NaN} \cup Refs,
         R' = [R EXCEPT ![a] = v], UNCHANGED <<lists, status>>
  PROVE  IInv' /\ OthersKept
<1>1. Refs' = Refs
  BY DEF Refs
<1>2. TypeOK'
  BY <1>1 DEF IInv, TypeOK
<1>3. \A l \in DOMAIN lists' : Covered(lists'[l]) \/ (lists'[l].fixed /\ status' = "error")
  BY DEF IInv
<1> QED BY <1>2, <1>3 DEF IInv, OthersKept

\* An instruction that ends the program.
LEMMA FailKeeps ==
  ASSUME IInv, Running, UNCHANGED <<lists, R>>, status' \in {"error", "endless"}
  PROVE  IInv' /\ OthersKept
<1>1. Refs' = Refs
  BY DEF Refs
<1>2. TypeOK'
  BY <1>1 DEF IInv, TypeOK
<1>3. \A l \in DOMAIN lists' : Covered(lists'[l])
  BY DEF IInv, Running
<1> QED BY <1>2, <1>3 DEF IInv, OthersKept

\* The element that an index names is in the list.
LEMMA SlotInside ==
  ASSUME NEW E, NEW l \in ListOfType(E), NEW p \in Int, InBounds(l, p)
  PROVE  SlotOf(l, p) \in 1 .. Len(l.values) /\ l.values[SlotOf(l, p)] \in E
<1>1. l.values \in Seq(E) /\ Len(l.values) \in Nat
  BY LenProperties DEF ListOfType
<1>2. SlotOf(l, p) \in 1 .. Len(l.values)
  BY <1>1 DEF SlotOf, InBounds
<1> QED BY <1>1, <1>2, ElementOfSeq

\* One element more, in its slot unless it is refused.
LEMMA OnePushed ==
  ASSUME NEW E, NEW l \in ListOfType(E), NEW e \in E, Covered(l)
  PROVE  Covered(Pushed(l, e)) \/ (Pushed(l, e).fixed /\ Refuses(l, <<e>>))
<1> DEFINE x == Pushed(l, e)
<1>1. /\ x.values = Append(l.values, e)
      /\ x.fixed = l.fixed
      /\ l.fixed => x.capacity = l.capacity
      /\ ~l.fixed /\ Len(l.values) <= l.capacity => Len(x.values) <= x.capacity
  BY PushedOne
<1> HIDE DEF x
<1>2. /\ Len(l.values) \in Nat /\ l.capacity \in Int /\ l.fixed \in BOOLEAN
      /\ Len(x.values) = Len(l.values) + 1
  <2>1. l.values \in Seq(E) /\ l.capacity \in Int /\ l.fixed \in BOOLEAN
    BY DEF ListOfType
  <2> QED BY <1>1, <2>1, LenProperties, Appended
<1>3. CASE ~l.fixed
  BY <1>1, <1>3 DEF Covered, x
<1>4. CASE l.fixed
  <2>1. CASE Len(l.values) + 1 > l.capacity
    <3>1. Len(<<e>>) = 1 /\ <<e>> # <<>>
      OBVIOUS
    <3>2. Refuses(l, <<e>>)
      BY <1>4, <2>1, <3>1 DEF Refuses
    <3> QED BY <1>1, <1>4, <3>2 DEF x
  <2>2. CASE ~(Len(l.values) + 1 > l.capacity)
    <3>1. Len(x.values) <= x.capacity
      BY <1>1, <1>2, <1>4, <2>2
    <3> QED BY <3>1 DEF Covered, x
  <2> QED BY <2>1, <2>2
<1> QED BY <1>2, <1>3, <1>4

\* What the list of a register is, while the program runs.
LEMMA ReadList ==
  ASSUME IInv, Running, NEW r \in Reg, HoldsList(r)
  PROVE  /\ ListOf(r) \in ListOfType(Element(Len(lists)))
         /\ ListOf(r) \in ListOfType(Element(Len(lists) + 1))
         /\ ListOf(r).values \in Seq(Element(Len(lists)))
         /\ ListOf(r).values \in Seq(Element(Len(lists) + 1))
         /\ Len(ListOf(r).values) \in Nat
         /\ Covered(ListOf(r))
<1>1. /\ R[r][1] \in 1 .. Len(lists) /\ ListOf(r) = lists[R[r][1]]
      /\ Len(lists) \in Nat /\ DOMAIN lists = 1 .. Len(lists)
  BY HeldList, ListsType DEF IInv
<1>2. /\ ListOf(r) \in ListOfType(Element(Len(lists)))
      /\ ListOf(r).values \in Seq(Element(Len(lists)))
      /\ Len(ListOf(r).values) \in Nat
  BY <1>1, ListsType DEF IInv
<1>3. Covered(ListOf(r))
  <2>1. status # "error"
    BY DEF Running
  <2> QED BY <1>1, <2>1 DEF IInv
<1> QED BY <1>1, <1>2, <1>3, MoreElements

\* A scalar or a list may be an element.
LEMMA Elements ==
  ASSUME IInv
  PROVE  /\ Scalar \subseteq Element(Len(lists)) /\ Scalar \subseteq Element(Len(lists) + 1)
         /\ Element(Len(lists)) \subseteq Scalar \cup {NaN} \cup Refs
         /\ Ref(Len(lists) + 1) \in Element(Len(lists) + 1)
<1>1. Len(lists) \in Nat /\ Refs = {Ref(l) : l \in 1 .. Len(lists)}
  BY ListsType DEF IInv
<1>2. Len(lists) + 1 \in 1 .. Len(lists) + 1
  BY <1>1
<1> QED BY <1>1, <1>2 DEF Element

-----------------------------------------------------------------------------

\* OP_CREATE_LIST, with a stated capacity or without.
LEMMA CreateKeeps ==
  ASSUME IInv, NEW a \in Reg,
         CreateList(a) \/ \E n \in FixedSizes : CreateFixed(a, n)
  PROVE  IInv' /\ OthersKept
<1> DEFINE E == Element(Len(lists) + 1)
<1>1. /\ EmptyList(0, FALSE) \in ListOfType(E) /\ Covered(EmptyList(0, FALSE))
      /\ \A n \in Int :
           EmptyList(n, TRUE) \in ListOfType(E) /\ Covered(EmptyList(n, TRUE))
  <2> HIDE DEF E
  <2>1. <<>> \in Seq(E) /\ Len(<<>>) = 0
    OBVIOUS
  <2> QED BY <2>1 DEF EmptyList, ListOfType, Covered
<1>2. CASE CreateList(a)
  <2>1. Running /\ Build(a, EmptyList(0, FALSE), FALSE)
    BY <1>2 DEF CreateList
  <2> QED BY <1>1, <2>1, BuildKeeps
<1>3. ASSUME NEW n \in FixedSizes, CreateFixed(a, n)
      PROVE  IInv' /\ OthersKept
  <2>1. Running /\ Build(a, EmptyList(n, TRUE), FALSE)
    BY <1>3 DEF CreateFixed
  <2>2. n \in Int
    BY NumbersAssumption
  <2> QED BY <1>1, <2>1, <2>2, BuildKeeps
<1> QED BY <1>2, <1>3

\* OP_PUSH_LIST.
LEMMA PushKeeps ==
  ASSUME IInv, NEW a \in Reg, NEW s \in SeqOf(Scalar, 2), Push(a, s)
  PROVE  IInv' /\ OthersKept
<1> DEFINE l == ListOf(a)
           x == PushedAll(l, s)
<1>1. /\ Running /\ HoldsList(a) /\ R' = R /\ Goes(Refuses(l, s))
      /\ lists' = [lists EXCEPT ![R[a][1]] = x]
  BY HeldList DEF Push, IInv
<1>2. s \in Seq(Element(Len(lists)))
  <2>1. PICK m \in 0 .. 2 : s \in [1 .. m -> Scalar]
    BY DEF SeqOf
  <2> DEFINE E == Element(Len(lists))
  <2>2. s \in [1 .. m -> E] /\ m \in Nat
    BY <2>1, Elements
  <2> HIDE DEF E
  <2>3. s \in UNION {[1 .. k -> E] : k \in Nat}
    BY <2>2
  <2>4. Seq(E) = UNION {[1 .. k -> E] : k \in Nat}
    BY SeqDef, Zenon
  <2> QED BY <2>3, <2>4 DEF E
<1>3. l \in ListOfType(Element(Len(lists))) /\ Covered(l)
  BY <1>1, ReadList
<1>4. x \in ListOfType(Element(Len(lists)))
  BY <1>2, <1>3, PushedMany
<1>5. Covered(x) \/ (x.fixed /\ Refuses(l, s))
  BY <1>2, <1>3, PushedCovered
<1>6. Refuses(l, s) \in BOOLEAN
  BY <1>3 DEF Refuses, ListOfType
<1> HIDE DEF x, l
<1> QED BY <1>1, <1>4, <1>5, <1>6, InPlaceKeeps

\* OP_SET_INDEX: an element replaced, an error, or an element more.
LEMMA SetIndexKeeps ==
  ASSUME IInv, NEW a \in Reg, NEW p \in Positions, NEW c \in Reg, SetIndex(a, p, c)
  PROVE  IInv' /\ OthersKept
<1> DEFINE l == ListOf(a)
           E == Element(Len(lists))
<1>1. /\ Running /\ HoldsList(a) /\ R' = R /\ R[c] \in Scalar /\ p \in Int
  BY NumbersAssumption DEF SetIndex
<1>2. /\ l \in ListOfType(E) /\ Covered(l) /\ R[c] \in E
      /\ l = lists[R[a][1]]
  BY <1>1, ReadList, HeldList, Elements DEF IInv
<1>3. CASE InBounds(l, p) /\ UNCHANGED status
           /\ lists' = [lists EXCEPT ![R[a][1]].values[SlotOf(l, p)] = R[c]]
  <2> DEFINE x == [l EXCEPT !.values[SlotOf(l, p)] = R[c]]
  <2>1. lists' = [lists EXCEPT ![R[a][1]] = x]
    BY <1>2, <1>3
  <2>2. SlotOf(l, p) \in 1 .. Len(l.values) /\ l.values \in Seq(E)
    BY <1>1, <1>2, <1>3, SlotInside DEF ListOfType
  <2> DEFINE v == [l.values EXCEPT ![SlotOf(l, p)] = R[c]]
  <2>3. v \in Seq(E) /\ Len(v) = Len(l.values)
    <3> HIDE DEF E, l
    <3> QED BY <1>2, <2>2, ExceptSeq
  <2>4. x = [l EXCEPT !.values = v]
    BY <1>2
  <2>5. /\ x \in ListOfType(E) /\ x.values = v
        /\ x.capacity = l.capacity /\ x.fixed = l.fixed
    <3> HIDE DEF v, E, x, l
    <3> QED BY <1>2, <2>3, <2>4 DEF ListOfType
  <2>6. Covered(x)
    <3>1. l.values = <<>> => v = <<>>
      <4> HIDE DEF v, l
      <4> QED BY <2>2, <2>3, EmptySeq
    <3> HIDE DEF v, E, x, l
    <3> QED BY <1>2, <2>3, <2>5, <3>1 DEF Covered
  <2>7. Goes(FALSE)
    BY <1>3 DEF Goes
  <2> HIDE DEF x
  <2> QED BY <1>1, <2>1, <2>5, <2>6, <2>7, InPlaceKeeps
<1>4. CASE status' = "error" /\ UNCHANGED lists
  BY <1>1, <1>4, FailKeeps
<1>5. CASE /\ Goes(Refuses(l, <<R[c]>>))
           /\ lists' = [lists EXCEPT ![R[a][1]] = Pushed(@, R[c])]
  <2> DEFINE x == Pushed(l, R[c])
  <2>1. lists' = [lists EXCEPT ![R[a][1]] = x]
    BY <1>2, <1>5
  <2>2. x \in ListOfType(E)
    BY <1>2, PushedOne
  <2>3. Covered(x) \/ (x.fixed /\ Refuses(l, <<R[c]>>))
    BY <1>2, OnePushed
  <2>4. Refuses(l, <<R[c]>>) \in BOOLEAN
    BY <1>2 DEF Refuses, ListOfType
  <2> HIDE DEF x, l
  <2> QED BY <1>1, <1>5, <2>1, <2>2, <2>3, <2>4, InPlaceKeeps
<1> QED BY <1>3, <1>4, <1>5 DEF SetIndex

\* OP_ADD: a copy and one element more.
LEMMA AddKeeps ==
  ASSUME IInv, NEW a \in Reg, NEW b \in Reg, NEW c \in Reg, Add(a, b, c)
  PROVE  IInv' /\ OthersKept
<1> DEFINE e == IF a = c THEN Ref(Len(lists) + 1) ELSE R[c]
           l == ListOf(b)
           x == Pushed(l, e)
           E == Element(Len(lists) + 1)
<1>1. Running /\ HoldsList(b) /\ R[c] \in Scalar /\ Build(a, x, Refuses(l, <<e>>))
  BY DEF Add
<1>2. l \in ListOfType(E) /\ Covered(l) /\ e \in E
  BY <1>1, ReadList, Elements
<1>3. x \in ListOfType(E)
  <2> HIDE DEF e, l, E
  <2> QED BY <1>2, PushedOne
<1>4. Covered(x) \/ (x.fixed /\ Refuses(l, <<e>>))
  <2> HIDE DEF e, l, E
  <2> QED BY <1>2, OnePushed
<1>5. Refuses(l, <<e>>) \in BOOLEAN
  <2> HIDE DEF e, l
  <2> QED BY <1>2 DEF Refuses, ListOfType
<1> HIDE DEF x, l, e
<1> QED BY <1>1, <1>3, <1>4, <1>5, BuildKeeps

\* OP_MUL: a copy, and its elements again.
LEMMA MulKeeps ==
  ASSUME IInv, NEW a \in Reg, NEW b \in Reg, NEW n \in Times, NEW isInt \in BOOLEAN,
         Mul(a, b, n, isInt)
  PROVE  IInv' /\ OthersKept
<1> DEFINE l == ListOf(b)
           v == l.values
           s == [i \in 1 .. n * Len(v) |-> v[((i - 1) % Len(v)) + 1]]
           x == PushedAll(l, s)
           E == Element(Len(lists) + 1)
           refused == ~isInt \/ Refuses(l, s)
<1>1. Running /\ HoldsList(b) /\ Build(a, x, refused) /\ n \in Nat
  BY NumbersAssumption DEF Mul
<1>2. l \in ListOfType(E) /\ Covered(l) /\ v \in Seq(E) /\ Len(v) \in Nat
  BY <1>1, ReadList
<1>3. s \in Seq(E)
  <2> HIDE DEF v, E
  <2>1. n * Len(v) \in Nat
    BY <1>1, <1>2
  <2>2. ASSUME NEW i \in 1 .. n * Len(v)
        PROVE  v[((i - 1) % Len(v)) + 1] \in E
    <3>1. Len(v) > 0
      <4> SUFFICES ASSUME Len(v) = 0 PROVE FALSE
        BY <1>2
      <4>1. n * Len(v) = 0
        BY <1>1
      <4> QED BY <4>1
    <3>2. i - 1 \in Nat
      BY <2>1
    <3>3. (i - 1) % Len(v) \in 0 .. Len(v) - 1
      BY <1>2, <3>1, <3>2, DivMod
    <3> DEFINE j == (i - 1) % Len(v)
    <3>4. j + 1 \in 1 .. Len(v)
      <4> HIDE DEF j
      <4>1. j \in 0 .. Len(v) - 1
        BY <3>3 DEF j
      <4> QED BY <1>2, <4>1
    <3> QED BY <1>2, <3>4, ElementOfSeq
  <2>3. s \in [1 .. n * Len(v) -> E]
    BY <2>2
  <2> HIDE DEF s
  <2> DEFINE m == n * Len(v)
  <2>4. s \in UNION {[1 .. k -> E] : k \in Nat}
    BY <2>1, <2>3
  <2>5. Seq(E) = UNION {[1 .. k -> E] : k \in Nat}
    BY SeqDef, Zenon
  <2> QED BY <2>4, <2>5
<1> HIDE DEF s, l, E, v
<1>4. x \in ListOfType(E)
  BY <1>2, <1>3, PushedMany
<1>5. Covered(x) \/ (x.fixed /\ refused)
  BY <1>2, <1>3, PushedCovered
<1>6. refused \in BOOLEAN
  BY DEF Refuses
<1> HIDE DEF x, refused
<1> QED BY <1>1, <1>4, <1>5, <1>6, BuildKeeps DEF E

\* OP_CONCAT: a new list of the elements of both, or none.
LEMMA ConcatKeeps ==
  ASSUME IInv, NEW a \in Reg, NEW b \in Reg, NEW c \in Reg, Concat(a, b, c)
  PROVE  IInv' /\ OthersKept
<1> DEFINE left == IF b = a THEN <<>> ELSE ListOf(b).values
           right == IF c = a THEN <<>> ELSE ListOf(c).values
           n == Len(ListOf(b).values) + Len(ListOf(c).values)
           x == PushedAll(EmptyList(n, FALSE), left \o right)
           E == Element(Len(lists) + 1)
<1>1. Running /\ HoldsList(b) /\ HoldsList(c)
  BY DEF Concat
<1>2. /\ left \in Seq(E) /\ right \in Seq(E) /\ n \in Nat
  <2>1. /\ ListOf(b).values \in Seq(E) /\ ListOf(c).values \in Seq(E)
        /\ Len(ListOf(b).values) \in Nat /\ Len(ListOf(c).values) \in Nat
    BY <1>1, ReadList
  <2> HIDE DEF E
  <2>2. <<>> \in Seq(E)
    OBVIOUS
  <2>3. n \in Nat
    <3>1. \A i, j \in Nat : i + j \in Nat
      OBVIOUS
    <3> QED BY <2>1, <3>1
  <2>4. left \in Seq(E)
    BY <2>1, <2>2, Zenon
  <2>5. right \in Seq(E)
    BY <2>1, <2>2, Zenon
  <2> QED BY <2>3, <2>4, <2>5
<1>3. CASE c = a /\ left # <<>>
  <2>1. status' = "endless" /\ UNCHANGED <<lists, R>>
    BY <1>3 DEF Concat
  <2> QED BY <1>1, <1>3, <2>1, FailKeeps
<1>4. CASE ~(c = a /\ left # <<>>)
  <2>1. Build(a, x, FALSE)
    BY <1>4 DEF Concat
  <2> HIDE DEF left, right, n, E
  <2>2. left \o right \in Seq(E)
    BY <1>2, ConcatProperties
  <2>3. /\ EmptyList(n, FALSE) \in ListOfType(E) /\ Covered(EmptyList(n, FALSE))
        /\ EmptyList(n, FALSE).values = <<>> /\ EmptyList(n, FALSE).fixed = FALSE
    <3>1. <<>> \in Seq(E) /\ Len(<<>>) = 0
      OBVIOUS
    <3> QED BY <1>2, <3>1 DEF EmptyList, ListOfType, Covered
  <2>4. x \in ListOfType(E) /\ x.fixed = FALSE
    BY <2>2, <2>3, PushedMany
  <2>5. Covered(x)
    BY <2>2, <2>3, <2>4, PushedCovered
  <2> HIDE DEF x
  <2> QED BY <1>1, <2>1, <2>4, <2>5, BuildKeeps DEF E
<1> QED BY <1>3, <1>4

\* Every instruction preserves the invariant, and changes only the list it names.
LEMMA StepKeeps ==
  ASSUME IInv, [Next]_vars
  PROVE  IInv' /\ OthersKept
<1>1. ASSUME NEW a \in Reg, NEW s \in Scalar, LoadK(a, s)
      PROVE  IInv' /\ OthersKept
  BY <1>1, AssignKeeps DEF LoadK
<1>2. ASSUME NEW a \in Reg, NEW b \in Reg, Move(a, b)
      PROVE  IInv' /\ OthersKept
  <2>1. R[b] \in Scalar \cup {NaN} \cup Refs
    BY DEF IInv, TypeOK
  <2> QED BY <1>2, <2>1, AssignKeeps DEF Move
<1>3. ASSUME NEW a \in Reg, NEW b \in Reg, NEW p \in Positions, GetIndex(a, b, p)
      PROVE  IInv' /\ OthersKept
  <2> DEFINE v == IF InBounds(ListOf(b), p) THEN ListOf(b).values[SlotOf(ListOf(b), p)]
                  ELSE NaN
  <2>1. /\ Running /\ HoldsList(b) /\ R' = [R EXCEPT ![a] = v]
        /\ UNCHANGED <<lists, status>> /\ p \in Int
    BY <1>3, NumbersAssumption DEF GetIndex
  <2>2. v \in Scalar \cup {NaN} \cup Refs
    <3>1. CASE InBounds(ListOf(b), p)
      <4>1. ListOf(b).values[SlotOf(ListOf(b), p)] \in Element(Len(lists))
        BY <2>1, <3>1, ReadList, SlotInside
      <4> QED BY <3>1, <4>1, Elements
    <3>2. CASE ~InBounds(ListOf(b), p)
      BY <3>2
    <3> QED BY <3>1, <3>2
  <2> HIDE DEF v
  <2> QED BY <2>1, <2>2, AssignKeeps
<1>4. CASE TypeFails
  BY <1>4, FailKeeps DEF TypeFails
<1>5. CASE UNCHANGED vars
  <2>1. UNCHANGED <<lists, R, status>>
    BY <1>5 DEF vars
  <2>2. Refs' = Refs
    BY <2>1 DEF Refs
  <2>3. TypeOK'
    BY <2>1, <2>2 DEF IInv, TypeOK
  <2> QED BY <2>1, <2>3 DEF IInv, OthersKept
<1> QED BY <1>1, <1>2, <1>3, <1>4, <1>5, CreateKeeps, PushKeeps, SetIndexKeeps, MulKeeps,
           AddKeeps, ConcatKeeps DEF Next, Stopped

\* Before the first instruction there are no lists.
LEMMA InitHolds == Init => IInv
<1> SUFFICES ASSUME Init PROVE IInv
  OBVIOUS
<1>1. lists = <<>> /\ DOMAIN <<>> = {} /\ R = [r \in Reg |-> NaN] /\ status = "running"
  BY DEF Init
<1>2. TypeOK
  <2>1. lists \in Seq([values : Seq(Scalar \cup Refs), capacity : Int, fixed : BOOLEAN])
    BY <1>1
  <2> QED BY <1>1, <2>1 DEF TypeOK
<1> QED BY <1>1, <1>2 DEF IInv

\* The invariant holds of every reachable state.
LEMMA Inductive == Spec => []IInv
<1> QED BY InitHolds, StepKeeps, PTL DEF Spec

\* No register and no element is a reference to a list that is not there, and the fields
\* of a list keep their types.
THEOREM TypeCorrect == Spec => []TypeOK
<1>1. IInv => TypeOK
  BY DEF IInv
<1> QED BY <1>1, Inductive, PTL

\* set_list_element, which writes without a look at the capacity, has a slot for every
\* element of a list that may grow, after any pushes, copies and concatenations; past the
\* end of a fixed list it writes only with the error that ends the program.
THEOREM SlotsCoverElements == Spec => []CapacityCovers
<1>1. IInv => CapacityCovers
  BY DEF IInv, CapacityCovers, Covered
<1> QED BY <1>1, Inductive, PTL

\* +, * and <> work on copies: an instruction changes at most the list it names, in place,
\* and then no register.
THEOREM OperandsStay == Spec => OperandsKept
<1>1. IInv /\ [Next]_vars =>
        [\A l \in DOMAIN lists :
           lists'[l] # lists[l] => R' = R /\ Ref(l) \in {R[r] : r \in Reg}]_vars
  BY StepKeeps DEF OthersKept
<1> QED BY <1>1, Inductive, PTL DEF Spec, OperandsKept
==============================================================================
