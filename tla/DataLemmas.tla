------------------------------ MODULE DataLemmas ------------------------------
(***************************************************************************)
(* Facts about numbers and sequences that the proofs of several components *)
(* need.  Induction is by the least counterexample: LeastOf takes a set of *)
(* numbers, where the induction theorems of the library take an operator.  *)
(***************************************************************************)
EXTENDS Integers, SequenceTheorems, WellFoundedInduction, TLAPS

\* A set of natural numbers has a least element: the counterexamples to a claim
\* about the turns of a loop, in the proofs about the loops of the code.
LEMMA LeastOf ==
  ASSUME NEW T, T \subseteq Nat, T # {}
  PROVE  \E n \in T : \A m \in T : n <= m
<1> DEFINE R == {ss \in Nat \X Nat : ss[1] < ss[2]}
<1>1. IsWellFoundedOn(R, Nat)
  BY NatLessThanWellFounded DEF OpToRel
<1>2. \A m, n \in Nat : m < n => <<m, n>> \in R
  OBVIOUS
<1> HIDE DEF R
<1>3. PICK n \in T : \A m \in T : ~(<<m, n>> \in R)
  BY <1>1, WFMin
<1>4. \A m \in T : m \in Nat /\ n \in Nat /\ ~(m < n)
  BY <1>2, <1>3, Zenon
<1>5. \A m \in T : n <= m
  BY <1>4
<1> QED BY <1>5

\* A set of the turns of a loop that has the first, and with each the next, has
\* them all.
LEMMA Turns ==
  ASSUME NEW n \in Nat, NEW T, 0 \in T,
         \A i \in 1 .. n : i - 1 \in T => i \in T
  PROVE  \A i \in 0 .. n : i \in T
<1> DEFINE C == {i \in 0 .. n : i \notin T}
<1> SUFFICES ASSUME C # {} PROVE FALSE
  OBVIOUS
<1>1. C \subseteq Nat
  OBVIOUS
<1>2. PICK i \in C : \A j \in C : i <= j
  <2> HIDE DEF C
  <2> QED BY <1>1, LeastOf
<1>3. i # 0 /\ i \in 1 .. n /\ i \notin T
  BY <1>2
<1>4. i - 1 \notin C /\ i - 1 \in 0 .. n
  BY <1>2, <1>3
<1> QED BY <1>3, <1>4

\* The states of a loop of n turns: turn[<<i, x>>] is what the i-th makes of x.
Iteration(f, S, n, a, turn) == /\ f \in [0 .. n -> S]
                               /\ f[0] = a
                               /\ \A i \in 1 .. n : f[i] = turn[<<i, f[i - 1]>>]

\* A loop that computes its state from the one before has a state at each turn:
\* the recursive functions of the model that stand for a loop exist.
LEMMA Iterates ==
  ASSUME NEW S, NEW n \in Nat, NEW a \in S, NEW g \in [(1 .. n) \X S -> S]
  PROVE  \E f : Iteration(f, S, n, a, g)
<1> DEFINE Upto(m, f) == Iteration(f, S, m, a, g)
           T == {m \in 0 .. n : \E f : Upto(m, f)}
<1>1. 0 \in T
  <2>1. Upto(0, [i \in 0 .. 0 |-> a])
    BY DEF Iteration
  <2> HIDE DEF Upto
  <2> QED BY <2>1
<1>2. ASSUME NEW m \in 1 .. n, m - 1 \in T
      PROVE  m \in T
  <2>1. PICK f : Upto(m - 1, f)
    BY <1>2
  <2>2. f \in [0 .. m - 1 -> S] /\ f[0] = a /\ \A i \in 1 .. m - 1 : f[i] = g[<<i, f[i - 1]>>]
    BY <2>1 DEF Iteration
  <2> DEFINE h == [i \in 0 .. m |-> IF i = m THEN g[<<m, f[m - 1]>>] ELSE f[i]]
  <2>3. m - 1 \in 0 .. m - 1 /\ f[m - 1] \in S /\ <<m, f[m - 1]>> \in (1 .. n) \X S
    BY <2>2
  <2>4. h \in [0 .. m -> S]
    BY <2>2, <2>3
  <2>5. h[0] = a
    BY <2>2
  <2>6. \A i \in 1 .. m : h[i] = g[<<i, h[i - 1]>>]
    <3>1. h[m] = g[<<m, f[m - 1]>>] /\ h[m - 1] = f[m - 1]
      BY <2>3
    <3>2. \A i \in 1 .. m - 1 : h[i] = f[i] /\ h[i - 1] = f[i - 1]
      OBVIOUS
    <3> HIDE DEF h
    <3>3. \A i \in 1 .. m : i = m \/ i \in 1 .. m - 1
      OBVIOUS
    <3> QED BY <2>2, <3>1, <3>2, <3>3
  <2> HIDE DEF h
  <2>7. Upto(m, h)
    BY <2>4, <2>5, <2>6 DEF Iteration
  <2> HIDE DEF Upto
  <2> QED BY <2>7
<1>3. n \in T
  <2> HIDE DEF T
  <2>1. \A i \in 0 .. n : i \in T
    BY <1>1, <1>2, Turns
  <2> QED BY <2>1
<1> QED BY <1>3

-----------------------------------------------------------------------------

\* The first k elements of a sequence: what is left of a stack.
LEMMA Popped ==
  ASSUME NEW S, NEW s \in Seq(S), NEW k \in 0 .. Len(s)
  PROVE  /\ SubSeq(s, 1, k) \in Seq(S)
         /\ Len(SubSeq(s, 1, k)) = k
         /\ DOMAIN SubSeq(s, 1, k) = 1 .. k
         /\ 1 .. k \subseteq DOMAIN s
         /\ \A j \in 1 .. k : SubSeq(s, 1, k)[j] = s[j]
<1>1. Len(s) \in Nat /\ DOMAIN s = 1 .. Len(s) /\ \A j \in 1 .. Len(s) : s[j] \in S
  BY LenProperties, ElementOfSeq
<1>2. k \in Int /\ 1 \in Int /\ \A j \in 1 .. k : s[j] \in S
  BY <1>1
<1>3. /\ SubSeq(s, 1, k) \in Seq(S)
      /\ Len(SubSeq(s, 1, k)) = IF 1 <= k THEN k - 1 + 1 ELSE 0
      /\ \A j \in 1 .. k - 1 + 1 : SubSeq(s, 1, k)[j] = s[1 + j - 1]
  BY <1>2, SubSeqProperties
<1>4. Len(SubSeq(s, 1, k)) = k
  BY <1>1, <1>3
<1>5. DOMAIN SubSeq(s, 1, k) = 1 .. k
  BY <1>3, <1>4, LenProperties
<1>6. \A j \in 1 .. k : SubSeq(s, 1, k)[j] = s[j]
  BY <1>1, <1>3
<1>7. 1 .. k \subseteq DOMAIN s
  BY <1>1
<1> QED BY <1>3, <1>4, <1>5, <1>6, <1>7

\* The elements of a sequence from the k-th on.
LEMMA Rest ==
  ASSUME NEW S, NEW s \in Seq(S), NEW k \in 1 .. Len(s) + 1
  PROVE  /\ SubSeq(s, k, Len(s)) \in Seq(S)
         /\ Len(SubSeq(s, k, Len(s))) = Len(s) - k + 1
         /\ \A j \in 1 .. Len(s) - k + 1 : SubSeq(s, k, Len(s))[j] = s[k + j - 1]
<1>1. Len(s) \in Nat /\ \A j \in 1 .. Len(s) : s[j] \in S
  BY LenProperties, ElementOfSeq
<1>2. k \in Int /\ Len(s) \in Int /\ \A j \in k .. Len(s) : s[j] \in S
  BY <1>1
<1>3. /\ SubSeq(s, k, Len(s)) \in Seq(S)
      /\ Len(SubSeq(s, k, Len(s))) = IF k <= Len(s) THEN Len(s) - k + 1 ELSE 0
      /\ \A j \in 1 .. Len(s) - k + 1 : SubSeq(s, k, Len(s))[j] = s[k + j - 1]
  BY <1>2, SubSeqProperties
<1>4. Len(SubSeq(s, k, Len(s))) = Len(s) - k + 1
  BY <1>1, <1>3
<1> QED BY <1>3, <1>4

\* One more element at the end.
LEMMA Appended ==
  ASSUME NEW S, NEW s \in Seq(S), NEW e \in S
  PROVE  /\ Append(s, e) \in Seq(S)
         /\ Len(Append(s, e)) = Len(s) + 1
         /\ DOMAIN Append(s, e) = 1 .. Len(s) + 1
         /\ \A j \in 1 .. Len(s) : Append(s, e)[j] = s[j]
         /\ Append(s, e)[Len(s) + 1] = e
<1>1. Append(s, e) \in Seq(S) /\ Len(Append(s, e)) = Len(s) + 1
  BY AppendProperties
<1> QED BY <1>1, LenProperties, AppendProperties

-----------------------------------------------------------------------------

\* Division with remainder.
LEMMA DivMod ==
  ASSUME NEW n \in Nat, n > 0, NEW x \in Nat
  PROVE  x = n * (x \div n) + (x % n) /\ x % n \in 0 .. n - 1 /\ x \div n \in Nat
  OBVIOUS

\* There is one remainder only.
LEMMA OneRemainder ==
  ASSUME NEW n \in Nat, n > 0, NEW q \in Nat, NEW r \in 0 .. n - 1
  PROVE  (n * q + r) % n = r
<1> DEFINE x == n * q + r
           p == x \div n
           m == x % n
<1>1. x \in Nat
  OBVIOUS
<1>2. x = n * p + m /\ m \in 0 .. n - 1 /\ p \in Nat
  <2> HIDE DEF x
  <2> QED BY <1>1, DivMod
<1>3. n * q + r = n * p + m
  BY <1>2
<1>4. ASSUME NEW a \in Int, NEW b \in Int, a < b
      PROVE  n * b >= n * a + n
  BY <1>4
<1> HIDE DEF p, m
<1>5. ~(p < q) /\ ~(q < p)
  <2>1. (p < q => n * q >= n * p + n) /\ (q < p => n * p >= n * q + n)
    BY <1>2, <1>4
  <2>2. n * q \in Int /\ n * p \in Int
    BY <1>2
  <2> QED BY <1>2, <1>3, <2>1, <2>2
<1>6. m = r
  BY <1>2, <1>3, <1>5
<1> QED BY <1>6 DEF m

\* A table of n slots seen from a hash h: d steps on, past the end or not.
LEMMA Wraps ==
  ASSUME NEW n \in Nat, n > 0, NEW h \in Nat, NEW d \in 0 .. n - 1
  PROVE  /\ h % n \in 0 .. n - 1
         /\ (h + d) % n = IF (h % n) + d < n THEN (h % n) + d ELSE (h % n) + d - n
<1> DEFINE q == h \div n
           r == h % n
<1>1. h = n * q + r /\ r \in 0 .. n - 1 /\ q \in Nat
  BY DivMod
<1> HIDE DEF q, r
<1>2. CASE r + d < n
  <2>1. h + d = n * q + (r + d) /\ r + d \in 0 .. n - 1
    BY <1>1, <1>2
  <2>2. (n * q + (r + d)) % n = r + d
    BY <1>1, <2>1, OneRemainder
  <2> QED BY <1>1, <1>2, <2>1, <2>2 DEF r
<1>3. CASE ~(r + d < n)
  <2>1. /\ h + d = n * (q + 1) + (r + d - n) /\ r + d - n \in 0 .. n - 1
        /\ q + 1 \in Nat
    BY <1>1, <1>3
  <2>2. (n * (q + 1) + (r + d - n)) % n = r + d - n
    BY <2>1, OneRemainder
  <2> QED BY <1>1, <1>3, <2>1, <2>2 DEF r
<1> QED BY <1>2, <1>3
=============================================================================
