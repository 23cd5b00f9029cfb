------------------------- MODULE RegisterArrayProofs -------------------------
(***************************************************************************)
(* The sorted array of free registers implements the set of free registers *)
(* of RegisterPool, whatever the sizes asked for and the order in which    *)
(* registers come back; what is proved of the pool holds of the array.     *)
(***************************************************************************)
EXTENDS RegisterArray, FiniteSetTheorems, DataLemmas

Register == 0 .. MaxRegs - 1

\* The sequences that free_regs may be.
Increasing(s) == \A i, j \in DOMAIN s : i < j => s[i] < s[j]
Arrays == {s \in Seq(Register) : Increasing(s)}

\* What every step preserves: alloc_regs finds the runs of the set of free registers
\* because the array is sorted, and the array stays sorted because a register that
\* is freed is not in it (OneOwner).
IInv == TypeOK /\ Sorted /\ OneOwner

-----------------------------------------------------------------------------
(* The pool: what the array is to implement.                                *)

\* What TypeOK says of the symbol table, in the form the steps below use.
LEMMA LocalsType ==
  ASSUME NEW s \in Seq([reg : Pool!Register, depth : Int])
  PROVE  Pool!Locals(s) \subseteq Pool!Register
<1>1. \A k \in DOMAIN s : s[k] \in [reg : Pool!Register, depth : Int]
  BY LenProperties, ElementOfSeq
<1> QED BY <1>1 DEF Pool!Locals

\* symbol_define adds the register of the new symbol to the variables' registers.
LEMMA LocalsAppend ==
  ASSUME NEW s \in Seq([reg : Pool!Register, depth : Int]),
         NEW e \in [reg : Pool!Register, depth : Int]
  PROVE  Pool!Locals(Append(s, e)) = Pool!Locals(s) \cup {e.reg}
<1>1. /\ DOMAIN Append(s, e) = DOMAIN s \cup {Len(s) + 1}
      /\ \A k \in DOMAIN s : Append(s, e)[k] = s[k]
      /\ Append(s, e)[Len(s) + 1] = e
  OBVIOUS
<1> QED BY <1>1 DEF Pool!Locals

\* end_scope leaves a prefix of the symbol table.
LEMMA Prefix ==
  ASSUME NEW s \in Seq([reg : Pool!Register, depth : Int]), NEW k \in 0 .. Len(s)
  PROVE  /\ SubSeq(s, 1, k) \in Seq([reg : Pool!Register, depth : Int])
         /\ DOMAIN SubSeq(s, 1, k) = 1 .. k
         /\ 1 .. k \subseteq DOMAIN s
         /\ \A j \in 1 .. k : SubSeq(s, 1, k)[j] = s[j]
         /\ Pool!Locals(SubSeq(s, 1, k)) \subseteq Pool!Locals(s)
<1> DEFINE Sym == [reg : Pool!Register, depth : Int]
<1>1. s \in Seq(Sym)
  OBVIOUS
<1>2. /\ SubSeq(s, 1, k) \in Seq(Sym)
      /\ DOMAIN SubSeq(s, 1, k) = 1 .. k
      /\ 1 .. k \subseteq DOMAIN s
      /\ \A j \in 1 .. k : SubSeq(s, 1, k)[j] = s[j]
  <2> HIDE DEF Sym
  <2> QED BY <1>1, Popped
<1> QED BY <1>2 DEF Pool!Locals

-----------------------------------------------------------------------------

\* The registers a request takes are registers, and the pool stays within them.
LEMMA TakeType ==
  ASSUME Pool!TypeOK, NEW n \in Nat \ {0}, NEW start, Pool!Take(n, start)
  PROVE  /\ Pool!Run(start, n) \subseteq Pool!Register
         /\ start \in Pool!Register
         /\ Elements(free_regs)' \subseteq Pool!Register
         /\ next_reg' \in 0 .. MaxRegs
<1>1. CASE Pool!TakeRun(n, start)
  <2>1. start \in Elements(free_regs) /\ Pool!Run(start, n) \subseteq Elements(free_regs)
    BY <1>1 DEF Pool!TakeRun, Pool!Starts
  <2> QED BY <1>1, <2>1 DEF Pool!TakeRun, Pool!TypeOK
<1>2. CASE Pool!TakeFresh(n, start)
  BY <1>2, MaxRegsAssumption DEF Pool!TakeFresh, Pool!Fits, Pool!Run, Pool!TypeOK, Pool!Register
<1> QED BY <1>1, <1>2 DEF Pool!Take

\* No operation of the compiler on its registers takes the state out of its types.
LEMMA PoolTypeStep == Pool!TypeOK /\ [Pool!Next]_(Pool!vars) => Pool!TypeOK'
<1> SUFFICES ASSUME Pool!TypeOK, [Pool!Next]_(Pool!vars) PROVE Pool!TypeOK'
  OBVIOUS
<1>1. CASE \E n \in Runs, start \in 0 .. MaxRegs - 1 : Pool!Alloc(n, start)
  <2>1. PICK n \in Runs, start \in 0 .. MaxRegs - 1 : Pool!Alloc(n, start)
    BY <1>1
  <2>2. n \in Nat \ {0} /\ Pool!Take(n, start)
    BY <2>1, RunsAssumption DEF Pool!Alloc
  <2> QED BY <2>1, <2>2, TakeType DEF Pool!Alloc, Pool!TypeOK
<1>2. CASE \E start \in 0 .. MaxRegs - 1 : Pool!Define(start)
  <2>1. PICK start \in 0 .. MaxRegs - 1 : Pool!Define(start)
    BY <1>2
  <2>2. /\ start \in Pool!Register
        /\ Elements(free_regs)' \subseteq Pool!Register
        /\ next_reg' \in 0 .. MaxRegs
    BY <2>1, TakeType DEF Pool!Define
  <2>3. symbols' \in Seq([reg : Pool!Register, depth : Int])
    BY <2>1, <2>2 DEF Pool!Define, Pool!TypeOK
  <2> QED BY <2>1, <2>2, <2>3 DEF Pool!Define, Pool!TypeOK
<1>3. CASE \E n \in Runs \cup {1} : Pool!LimitExceeded(n)
  BY <1>3 DEF Pool!LimitExceeded, Pool!TypeOK
<1>4. CASE \E S \in SUBSET (held \cup Pool!Locals(symbols)) : Pool!Free(S)
  <2>1. Pool!Locals(symbols) \subseteq Pool!Register
    BY LocalsType DEF Pool!TypeOK
  <2> QED BY <1>4, <2>1 DEF Pool!Free, Pool!TypeOK
<1>5. CASE Pool!BeginScope
  BY <1>5, MaxScopesAssumption DEF Pool!BeginScope, Pool!TypeOK
<1>6. CASE \E k \in 0 .. Len(symbols) : Pool!EndScope(k)
  <2>1. PICK k \in 0 .. Len(symbols) : Pool!EndScope(k)
    BY <1>6
  <2>2. symbols' \in Seq([reg : Pool!Register, depth : Int])
    BY <2>1, Prefix DEF Pool!EndScope, Pool!TypeOK
  <2>3. Pool!Locals(symbols) \subseteq Pool!Register
    BY LocalsType DEF Pool!TypeOK
  <2> QED BY <2>1, <2>2, <2>3, MaxScopesAssumption DEF Pool!EndScope, Pool!TypeOK
<1>7. CASE UNCHANGED Pool!vars
  BY <1>7 DEF Pool!vars, Pool!TypeOK
<1> QED BY <1>1, <1>2, <1>3, <1>4, <1>5, <1>6, <1>7 DEF Pool!Next

\* The state has its types, in every instance of the register pool: alloc_regs
\* never hands out, and free_temp_reg never takes back, a register past the last.
THEOREM PoolTypeCorrect == Pool!Spec => []Pool!TypeOK
<1>1. Pool!Init => Pool!TypeOK
  <2> SUFFICES ASSUME Pool!Init PROVE Pool!TypeOK
    OBVIOUS
  <2>1. symbols \in Seq([reg : Pool!Register, depth : Int])
    BY EmptySeq DEF Pool!Init
  <2>2. scope_depth \in Int
    BY DepthsAssumption DEF Pool!Init
  <2>3. next_reg \in 0 .. MaxRegs /\ scopes \in 0 .. MaxScopes
    BY MaxRegsAssumption, MaxScopesAssumption DEF Pool!Init
  <2> QED BY <2>1, <2>2, <2>3 DEF Pool!Init, Pool!TypeOK
<1>2. Pool!TypeOK /\ [Pool!Next]_(Pool!vars) => Pool!TypeOK'
  BY PoolTypeStep
<1> QED BY <1>1, <1>2, PTL DEF Pool!Spec

-----------------------------------------------------------------------------

\* What alloc_regs hands out had no owner: it was free, or had never been used.
LEMMA TakesUnowned ==
  ASSUME Pool!TypeOK, Pool!OneOwner, NEW n \in Nat \ {0}, NEW start, Pool!Take(n, start)
  PROVE  /\ start \in Pool!Run(start, n)
         /\ Pool!Run(start, n) \cap (held \cup Pool!Locals(symbols)) = {}
         /\ Elements(free_regs)' \cap Pool!Run(start, n) = {}
         /\ Elements(free_regs)' \subseteq Elements(free_regs)
         /\ Elements(free_regs)' \cup Pool!Run(start, n) \cup held
              \cup Pool!Locals(symbols) = 0 .. next_reg' - 1
<1>0. start \in Int
  BY TakeType DEF Pool!Register
<1>1. start \in Pool!Run(start, n)
  BY <1>0 DEF Pool!Run
<1>2. CASE Pool!TakeRun(n, start)
  <2>1. Pool!Run(start, n) \subseteq Elements(free_regs)
    BY <1>2 DEF Pool!TakeRun, Pool!Starts
  <2>2. Elements(free_regs)' = Elements(free_regs) \ Pool!Run(start, n) /\ next_reg' = next_reg
    BY <1>2 DEF Pool!TakeRun
  <2> QED BY <1>1, <2>1, <2>2 DEF Pool!OneOwner
<1>3. CASE Pool!TakeFresh(n, start)
  <2>1. start = next_reg /\ next_reg' = next_reg + n /\ Elements(free_regs)' = Elements(free_regs)
    BY <1>3 DEF Pool!TakeFresh
  <2>2. /\ Pool!Run(start, n) \cap (0 .. next_reg - 1) = {}
        /\ (0 .. next_reg - 1) \cup Pool!Run(start, n) = 0 .. next_reg' - 1
    BY <2>1 DEF Pool!Run, Pool!TypeOK
  <2> QED BY <1>1, <2>1, <2>2 DEF Pool!OneOwner
<1> QED BY <1>2, <1>3 DEF Pool!Take

\* No operation gives a register a second owner, or loses one: alloc_regs,
\* symbol_define, free_temp_reg, free_regs_block, end_scope.
LEMMA PoolOwnerStep == Pool!TypeOK /\ Pool!OneOwner /\ [Pool!Next]_(Pool!vars) => Pool!OneOwner'
<1> SUFFICES ASSUME Pool!TypeOK, Pool!OneOwner, [Pool!Next]_(Pool!vars) PROVE Pool!OneOwner'
  OBVIOUS
<1>1. CASE \E n \in Runs, start \in 0 .. MaxRegs - 1 : Pool!Alloc(n, start)
  <2>1. PICK n \in Runs, start \in 0 .. MaxRegs - 1 : Pool!Alloc(n, start)
    BY <1>1
  <2>2. n \in Nat \ {0} /\ Pool!Take(n, start)
    BY <2>1, RunsAssumption DEF Pool!Alloc
  <2>3. symbols' = symbols /\ held' = held \cup Pool!Run(start, n)
    BY <2>1 DEF Pool!Alloc
  <2> QED BY <2>2, <2>3, TakesUnowned DEF Pool!OneOwner
<1>2. CASE \E start \in 0 .. MaxRegs - 1 : Pool!Define(start)
  <2>1. PICK start \in 0 .. MaxRegs - 1 : Pool!Define(start)
    BY <1>2
  <2>2. Pool!Take(1, start) /\ start \in Pool!Register
    BY <2>1, TakeType DEF Pool!Define
  <2>3. Pool!Run(start, 1) = {start}
    BY <2>2 DEF Pool!Run, Pool!Register
  <2> DEFINE e == [reg |-> start, depth |-> scope_depth]
  <2>4. /\ symbols \in Seq([reg : Pool!Register, depth : Int])
        /\ e \in [reg : Pool!Register, depth : Int]
    BY <2>2 DEF Pool!TypeOK
  <2>5. symbols' = Append(symbols, e) /\ held' = held
    BY <2>1 DEF Pool!Define
  <2>6. Pool!Locals(symbols') = Pool!Locals(symbols) \cup {start}
    BY <2>4, <2>5, LocalsAppend
  <2>7. start \notin Pool!Locals(symbols)
    BY <2>2, <2>3, TakesUnowned
  <2>8. ASSUME NEW j \in DOMAIN symbols', NEW k \in DOMAIN symbols',
               symbols'[j].reg = symbols'[k].reg
        PROVE  j = k
    <3>1. /\ DOMAIN symbols' = DOMAIN symbols \cup {Len(symbols) + 1}
          /\ \A i \in DOMAIN symbols : symbols'[i] = symbols[i]
          /\ symbols'[Len(symbols) + 1].reg = start
      BY <2>4, <2>5
    <3>2. \A i \in DOMAIN symbols : symbols[i].reg # start
      BY <2>7 DEF Pool!Locals
    <3> QED BY <2>8, <3>1, <3>2 DEF Pool!OneOwner
  <2>9. /\ Elements(free_regs)' \cap {start} = {}
        /\ Elements(free_regs)' \subseteq Elements(free_regs)
        /\ Elements(free_regs)' \cup {start} \cup held
             \cup Pool!Locals(symbols) = 0 .. next_reg' - 1
        /\ start \notin held
    BY <2>2, <2>3, TakesUnowned
  <2> QED BY <2>5, <2>6, <2>8, <2>9 DEF Pool!OneOwner
<1>3. CASE \E n \in Runs \cup {1} : Pool!LimitExceeded(n)
  BY <1>3 DEF Pool!LimitExceeded, Pool!OneOwner
<1>4. CASE \E S \in SUBSET (held \cup Pool!Locals(symbols)) : Pool!Free(S)
  BY <1>4 DEF Pool!Free, Pool!OneOwner
<1>5. CASE Pool!BeginScope
  BY <1>5 DEF Pool!BeginScope, Pool!OneOwner
<1>6. CASE \E k \in 0 .. Len(symbols) : Pool!EndScope(k)
  <2>1. PICK k \in 0 .. Len(symbols) : Pool!EndScope(k)
    BY <1>6
  <2>2. /\ symbols' = SubSeq(symbols, 1, k)
        /\ Elements(free_regs)'
             = Elements(free_regs) \cup (Pool!Locals(symbols) \ Pool!Locals(symbols'))
        /\ next_reg' = next_reg
        /\ held' = held
    BY <2>1 DEF Pool!EndScope
  <2>3. /\ DOMAIN symbols' = 1 .. k
        /\ 1 .. k \subseteq DOMAIN symbols
        /\ \A j \in 1 .. k : symbols'[j] = symbols[j]
        /\ Pool!Locals(symbols') \subseteq Pool!Locals(symbols)
    <3>1. symbols \in Seq([reg : Pool!Register, depth : Int])
      BY DEF Pool!TypeOK
    <3> QED BY <2>2, <3>1, Prefix
  <2>4. \A i, j \in DOMAIN symbols' : symbols'[i].reg = symbols'[j].reg => i = j
    BY <2>3 DEF Pool!OneOwner
  <2> QED BY <2>2, <2>3, <2>4 DEF Pool!OneOwner
<1>7. CASE UNCHANGED Pool!vars
  BY <1>7 DEF Pool!vars, Pool!OneOwner
<1> QED BY <1>1, <1>2, <1>3, <1>4, <1>5, <1>6, <1>7 DEF Pool!Next

\* A register the compiler has used is free, holds one temporary, or is the
\* register of one variable, whatever the sequence of requests, releases and
\* scopes: neither alloc_regs nor end_scope can make two values share one.
THEOREM PoolRegistersHaveOneOwner == Pool!Spec => []Pool!OneOwner
<1>1. Pool!Init => Pool!OneOwner
  BY DEF Pool!Init, Pool!OneOwner, Pool!Locals
<1>2. Pool!TypeOK /\ Pool!OneOwner /\ [Pool!Next]_(Pool!vars) => Pool!OneOwner'
  BY PoolOwnerStep
<1> QED BY <1>1, <1>2, PoolTypeCorrect, PTL DEF Pool!Spec

-----------------------------------------------------------------------------

\* An array of free registers is a sequence of registers, each once.
LEMMA ArrayType ==
  ASSUME NEW s \in Arrays
  PROVE  /\ Len(s) \in Nat
         /\ DOMAIN s = 1 .. Len(s)
         /\ \A i \in 1 .. Len(s) : s[i] \in Register /\ s[i] \in Int
         /\ Elements(s) = {s[i] : i \in 1 .. Len(s)}
         /\ Elements(s) \subseteq Register
<1>1. s \in Seq(Register)
  BY DEF Arrays
<1>2. Len(s) \in Nat /\ DOMAIN s = 1 .. Len(s) /\ \A i \in 1 .. Len(s) : s[i] \in Register
  BY <1>1, LenProperties, ElementOfSeq
<1>3. \A r \in Register : r \in Int
  BY DEF Register
<1> QED BY <1>2, <1>3 DEF Elements

\* The elements of an array keep the order of their places.
LEMMA Ordered ==
  ASSUME NEW s \in Arrays, NEW i \in 1 .. Len(s), NEW j \in 1 .. Len(s)
  PROVE  /\ i < j <=> s[i] < s[j]
         /\ i = j <=> s[i] = s[j]
<1>1. \A k, l \in 1 .. Len(s) : k < l => s[k] < s[l]
  BY ArrayType DEF Arrays, Increasing
<1>2. s[i] \in Int /\ s[j] \in Int /\ i \in Int /\ j \in Int
  BY ArrayType
<1> QED BY <1>1, <1>2

\* There is room in the array for a register that is not in it: free_temp_reg's test
\* of REG_POOL_MAX never loses one.
LEMMA RoomLeft ==
  ASSUME NEW s \in Arrays, NEW reg \in Register, reg \notin Elements(s)
  PROVE  Len(s) < MaxRegs
<1> SUFFICES ASSUME Len(s) >= MaxRegs PROVE FALSE
  BY ArrayType, MaxRegsAssumption
<1> DEFINE T == Register \ {reg}
<1>1. IsFiniteSet(1 .. Len(s)) /\ Cardinality(1 .. Len(s)) = Len(s)
  <2>1. 1 \in Int /\ Len(s) \in Int /\ Len(s) >= 0
    BY ArrayType
  <2>2. /\ IsFiniteSet(1 .. Len(s))
        /\ Cardinality(1 .. Len(s)) = IF 1 > Len(s) THEN 0 ELSE Len(s) - 1 + 1
    BY <2>1, FS_Interval, Zenon
  <2> QED BY <2>1, <2>2
<1>2. IsFiniteSet(Register) /\ Cardinality(Register) = MaxRegs
  <2>1. 0 \in Int /\ MaxRegs - 1 \in Int /\ MaxRegs > 0
    BY MaxRegsAssumption
  <2>2. /\ IsFiniteSet(0 .. MaxRegs - 1)
        /\ Cardinality(0 .. MaxRegs - 1) = IF 0 > MaxRegs - 1 THEN 0 ELSE MaxRegs - 1 - 0 + 1
    BY <2>1, FS_Interval, Zenon
  <2> QED BY <2>1, <2>2, MaxRegsAssumption DEF Register
<1>3. IsFiniteSet(T) /\ Cardinality(T) = MaxRegs - 1
  BY <1>2, FS_RemoveElement
<1>4. s \in [1 .. Len(s) -> T]
  <2>1. s \in [1 .. Len(s) -> Register]
    BY LenProperties DEF Arrays
  <2> QED BY <2>1, ArrayType
<1>5. \E i, j \in 1 .. Len(s) : i # j /\ s[i] = s[j]
  <2>1. Cardinality(T) < Cardinality(1 .. Len(s))
    BY <1>1, <1>3, MaxRegsAssumption, ArrayType
  <2> HIDE DEF T
  <2> QED BY <1>1, <1>3, <1>4, <2>1, FS_PigeonHole
<1> QED BY <1>5, Ordered

\* Before is the place at which free_temp_reg's loop stops.
LEMMA BeforeStops ==
  ASSUME NEW s \in Arrays, NEW reg \in Int
  PROVE  /\ Before(s, reg) \in 0 .. Len(s)
         /\ \A j \in 1 .. Before(s, reg) : s[j] < reg
         /\ \A j \in Before(s, reg) + 1 .. Len(s) : s[j] >= reg
<1> DEFINE Stop(i) == i = Len(s) \/ s[i + 1] >= reg
           T == {i \in 0 .. Len(s) : Stop(i)}
<1>1. Len(s) \in Nat /\ \A i \in 1 .. Len(s) : s[i] \in Int
  BY ArrayType
<1>2. T \subseteq Nat /\ Len(s) \in T
  BY <1>1
<1>3. PICK i \in T : \A j \in T : i <= j
  <2> HIDE DEF T
  <2> QED BY <1>2, LeastOf
<1>4. \A j \in 1 .. i : s[j] < reg
  <2> SUFFICES ASSUME NEW j \in 1 .. i PROVE s[j] < reg
    OBVIOUS
  <2>1. j - 1 \notin T /\ j - 1 \in 0 .. Len(s) /\ s[j] \in Int
    <3>1. j \in 1 .. Len(s) /\ j - 1 \in 0 .. Len(s) /\ ~(i <= j - 1)
      BY <1>1, <1>3
    <3> HIDE DEF T
    <3> QED BY <1>1, <1>3, <3>1
  <2>2. ~(s[j - 1 + 1] >= reg)
    BY <2>1
  <2> QED BY <2>1, <2>2
<1>5. i \in 0 .. Len(s) /\ Stop(i) /\ \A j \in 1 .. i : s[j] < reg
  BY <1>3, <1>4
<1>6. /\ Before(s, reg) \in 0 .. Len(s)
      /\ Stop(Before(s, reg))
      /\ \A j \in 1 .. Before(s, reg) : s[j] < reg
  BY <1>5 DEF Before
<1>7. \A j \in Before(s, reg) + 1 .. Len(s) : s[j] >= reg
  <2> SUFFICES ASSUME NEW j \in Before(s, reg) + 1 .. Len(s) PROVE s[j] >= reg
    OBVIOUS
  <2> DEFINE b == Before(s, reg)
  <2>1. b \in 0 .. Len(s) /\ b + 1 \in 1 .. Len(s) /\ j \in 1 .. Len(s)
        /\ (j = b + 1 \/ b + 1 < j) /\ b # Len(s)
    BY <1>1, <1>6
  <2>2. s[b + 1] >= reg /\ s[b + 1] \in Int /\ s[j] \in Int
    BY <1>1, <1>6, <2>1
  <2> HIDE DEF b
  <2>3. j = b + 1 \/ s[b + 1] < s[j]
    BY <2>1, Ordered
  <2> QED BY <2>2, <2>3
<1> QED BY <1>6, <1>7

\* free_temp_reg's insertion moves the registers above the new one up by a place.
LEMMA InsertedPlaces ==
  ASSUME NEW s \in Arrays, NEW reg \in Register
  PROVE  LET b == Before(s, reg)
             t == Inserted(s, reg)
         IN  /\ t \in Seq(Register)
             /\ Len(t) = Len(s) + 1
             /\ \A j \in 1 .. b : t[j] = s[j]
             /\ t[b + 1] = reg
             /\ \A j \in b + 2 .. Len(s) + 1 : t[j] = s[j - 1]
<1> DEFINE b == Before(s, reg)
           below == SubSeq(s, 1, b)
           above == SubSeq(s, b + 1, Len(s))
           t == (below \o <<reg>>) \o above
<1>1. s \in Seq(Register) /\ reg \in Int
  BY DEF Arrays, Register
<1>2. Len(s) \in Nat /\ b \in 0 .. Len(s)
  BY <1>1, ArrayType, BeforeStops
<1>3. /\ below \in Seq(Register) /\ Len(below) = b
      /\ \A j \in 1 .. b : below[j] = s[j]
  <2> HIDE DEF b
  <2> QED BY <1>1, <1>2, Popped
<1>4. /\ above \in Seq(Register) /\ Len(above) = Len(s) - b
      /\ \A j \in 1 .. Len(s) - b : above[j] = s[b + j]
  <2> HIDE DEF b
  <2>1. b + 1 \in 1 .. Len(s) + 1
    BY <1>2
  <2>2. /\ above \in Seq(Register) /\ Len(above) = Len(s) - (b + 1) + 1
        /\ \A j \in 1 .. Len(s) - (b + 1) + 1 : above[j] = s[(b + 1) + j - 1]
    BY <1>1, <2>1, Rest
  <2> QED BY <1>2, <2>2
<1> HIDE DEF b, below, above
<1>5. /\ <<reg>> \in Seq(Register) /\ Len(<<reg>>) = 1 /\ <<reg>>[1] = reg
  OBVIOUS
<1>6. /\ below \o <<reg>> \in Seq(Register)
      /\ Len(below \o <<reg>>) = b + 1
      /\ \A j \in 1 .. b + 1 : (below \o <<reg>>)[j] = IF j <= b THEN below[j] ELSE <<reg>>[j - b]
  BY <1>3, <1>5, ConcatProperties
<1>7. /\ t \in Seq(Register)
      /\ Len(t) = (b + 1) + (Len(s) - b)
      /\ \A j \in 1 .. (b + 1) + (Len(s) - b) :
           t[j] = IF j <= b + 1 THEN (below \o <<reg>>)[j] ELSE above[j - (b + 1)]
  BY <1>4, <1>6, ConcatProperties
<1> DEFINE front == below \o <<reg>>
<1> HIDE DEF t, front
<1>8. Len(t) = Len(s) + 1
  BY <1>2, <1>7
<1>9. \A j \in 1 .. b : t[j] = s[j]
  <2>1. \A j \in 1 .. b : j \in 1 .. b + 1 /\ j \in 1 .. (b + 1) + (Len(s) - b) /\ j <= b
    BY <1>2
  <2> QED BY <1>2, <1>3, <1>6, <1>7, <2>1
<1>10. t[b + 1] = reg
  <2>1. b + 1 \in 1 .. b + 1 /\ b + 1 \in 1 .. (b + 1) + (Len(s) - b) /\ ~(b + 1 <= b)
        /\ b + 1 - b = 1
    BY <1>2
  <2> QED BY <1>5, <1>6, <1>7, <2>1
<1>11. \A j \in b + 2 .. Len(s) + 1 : t[j] = s[j - 1]
  <2>1. \A j \in b + 2 .. Len(s) + 1 :
          /\ j \in 1 .. (b + 1) + (Len(s) - b) /\ ~(j <= b + 1)
          /\ j - (b + 1) \in 1 .. Len(s) - b /\ b + (j - (b + 1)) = j - 1
    BY <1>2
  <2> QED BY <1>4, <1>7, <2>1
<1> QED BY <1>7, <1>8, <1>9, <1>10, <1>11 DEF Inserted, t, below, above, b

\* A register that was not in the array is there, and the array is still sorted.
LEMMA InsertedKeeps ==
  ASSUME NEW s \in Arrays, NEW reg \in Register, reg \notin Elements(s)
  PROVE  /\ Inserted(s, reg) \in Arrays
         /\ Elements(Inserted(s, reg)) = Elements(s) \cup {reg}
<1> DEFINE b == Before(s, reg)
           t == Inserted(s, reg)
<1>1. /\ reg \in Int /\ Len(s) \in Nat /\ \A j \in 1 .. Len(s) : s[j] \in Int
      /\ Elements(s) = {s[i] : i \in 1 .. Len(s)}
  BY ArrayType DEF Register
<1>2. /\ b \in 0 .. Len(s)
      /\ \A j \in 1 .. b : s[j] < reg
      /\ \A j \in b + 1 .. Len(s) : s[j] >= reg
  BY <1>1, BeforeStops
<1>3. /\ t \in Seq(Register)
      /\ Len(t) = Len(s) + 1
      /\ \A j \in 1 .. b : t[j] = s[j]
      /\ t[b + 1] = reg
      /\ \A j \in b + 2 .. Len(s) + 1 : t[j] = s[j - 1]
  BY InsertedPlaces
<1>4. \A j \in b + 1 .. Len(s) : s[j] > reg
  <2>1. \A j \in b + 1 .. Len(s) : j \in 1 .. Len(s) /\ s[j] # reg
    BY <1>1, <1>2
  <2> QED BY <1>1, <1>2, <2>1
<1>5. DOMAIN t = 1 .. Len(s) + 1
  BY <1>3, LenProperties
<1> HIDE DEF b, t
<1>6. Increasing(t)
  <2> SUFFICES ASSUME NEW i \in 1 .. Len(s) + 1, NEW j \in 1 .. Len(s) + 1, i < j
               PROVE  t[i] < t[j]
    BY <1>5 DEF Increasing
  <2>1. CASE j <= b
    <3>1. i \in 1 .. b /\ j \in 1 .. b /\ i \in 1 .. Len(s) /\ j \in 1 .. Len(s)
      BY <1>1, <1>2, <2>1
    <3> QED BY <1>3, <3>1, Ordered
  <2>2. CASE i <= b /\ j = b + 1
    <3>1. i \in 1 .. b
      BY <1>2, <2>2
    <3> QED BY <1>2, <1>3, <2>2, <3>1
  <2>3. CASE i <= b /\ j > b + 1
    <3>1. i \in 1 .. b /\ j \in b + 2 .. Len(s) + 1
          /\ i \in 1 .. Len(s) /\ j - 1 \in 1 .. Len(s) /\ i < j - 1
      BY <1>1, <1>2, <2>3
    <3> QED BY <1>3, <3>1, Ordered
  <2>4. CASE i = b + 1
    <3>1. j \in b + 2 .. Len(s) + 1 /\ j - 1 \in b + 1 .. Len(s)
      BY <1>1, <1>2, <2>4
    <3>2. s[j - 1] > reg /\ s[j - 1] \in Int
      BY <1>1, <1>2, <1>4, <3>1
    <3> QED BY <1>1, <1>3, <2>4, <3>1, <3>2
  <2>5. CASE i > b + 1
    <3>1. i \in b + 2 .. Len(s) + 1 /\ j \in b + 2 .. Len(s) + 1
          /\ i - 1 \in 1 .. Len(s) /\ j - 1 \in 1 .. Len(s) /\ i - 1 < j - 1
      BY <1>1, <1>2, <2>5
    <3> QED BY <1>3, <3>1, Ordered
  <2> QED BY <1>1, <1>2, <2>1, <2>2, <2>3, <2>4, <2>5
<1>7. Elements(t) = Elements(s) \cup {reg}
  <2>1. \A j \in 1 .. Len(s) + 1 : t[j] \in Elements(s) \cup {reg}
    <3> SUFFICES ASSUME NEW j \in 1 .. Len(s) + 1 PROVE t[j] \in Elements(s) \cup {reg}
      OBVIOUS
    <3>1. CASE j \in 1 .. b
      <4>1. j \in 1 .. Len(s)
        BY <1>1, <1>2, <3>1
      <4> QED BY <1>1, <1>3, <3>1, <4>1
    <3>2. CASE j = b + 1
      BY <1>3, <3>2
    <3>3. CASE j \in b + 2 .. Len(s) + 1
      <4>1. j - 1 \in 1 .. Len(s)
        BY <1>1, <1>2, <3>3
      <4> QED BY <1>1, <1>3, <3>3, <4>1
    <3> QED BY <1>1, <1>2, <3>1, <3>2, <3>3
  <2>2. reg \in Elements(t)
    <3>1. b + 1 \in 1 .. Len(s) + 1
      BY <1>1, <1>2
    <3> QED BY <1>3, <1>5, <3>1 DEF Elements
  <2>3. \A j \in 1 .. Len(s) : s[j] \in Elements(t)
    <3> SUFFICES ASSUME NEW j \in 1 .. Len(s) PROVE s[j] \in Elements(t)
      OBVIOUS
    <3>1. CASE j \in 1 .. b
      <4>1. j \in 1 .. Len(s) + 1 /\ t[j] = s[j]
        BY <1>1, <1>3, <3>1
      <4> QED BY <1>5, <4>1 DEF Elements
    <3>2. CASE j \in b + 1 .. Len(s)
      <4>1. j + 1 \in 1 .. Len(s) + 1 /\ j + 1 \in b + 2 .. Len(s) + 1 /\ (j + 1) - 1 = j
        BY <1>1, <1>2, <3>2
      <4>2. t[j + 1] = s[j]
        BY <1>3, <4>1
      <4> QED BY <1>5, <4>1, <4>2 DEF Elements
    <3> QED BY <1>1, <1>2, <3>1, <3>2
  <2> QED BY <1>1, <1>5, <2>1, <2>2, <2>3 DEF Elements
<1> QED BY <1>3, <1>6, <1>7 DEF Arrays, t

\* free_temp_reg: the register is in the array afterwards, unless a variable has it.
LEMMA FreedKeeps ==
  ASSUME NEW s \in Arrays, NEW syms, NEW reg \in Register
  PROVE  /\ Freed(s, syms, reg) \in Arrays
         /\ Elements(Freed(s, syms, reg)) = Elements(s) \cup ({reg} \ Locals(syms))
<1>1. CASE reg \in Locals(syms) \/ reg \in Elements(s)
  BY <1>1 DEF Freed
<1>2. CASE reg \notin Locals(syms) /\ reg \notin Elements(s)
  <2>1. Freed(s, syms, reg) = Inserted(s, reg)
    <3>1. ~(Len(s) >= MaxRegs)
      BY <1>2, RoomLeft, ArrayType, MaxRegsAssumption
    <3> QED BY <1>2, <3>1 DEF Freed
  <2> QED BY <1>2, <2>1, InsertedKeeps
<1> QED BY <1>1, <1>2

-----------------------------------------------------------------------------

\* free_regs_block frees every register of the run, in whatever order they lie.
LEMMA FreedRunKeeps ==
  ASSUME NEW s \in Arrays, NEW syms, NEW start \in Int, NEW n \in Nat,
         Run(start, n) \subseteq Register
  PROVE  /\ FreedRun(s, syms, start, n) \in Arrays
         /\ Elements(FreedRun(s, syms, start, n)) =
              Elements(s) \cup (Run(start, n) \ Locals(syms))
<1> DEFINE turn == [p \in (1 .. n) \X Arrays |-> Freed(p[2], syms, start + p[1] - 1)]
           after[i \in 0 .. n] == IF i = 0 THEN s ELSE Freed(after[i - 1], syms, start + i - 1)
<1>1. \A i \in 1 .. n : start + i - 1 \in Register
  BY DEF Run
<1>2. turn \in [(1 .. n) \X Arrays -> Arrays]
  BY <1>1, FreedKeeps
<1>3. PICK f : Iteration(f, Arrays, n, s, turn)
  <2> HIDE DEF turn
  <2> QED BY <1>2, Iterates
<1>4. \A i \in 1 .. n : f[i] = Freed(f[i - 1], syms, start + i - 1)
  <2>1. \A i \in 1 .. n : <<i, f[i - 1]>> \in (1 .. n) \X Arrays
    BY <1>3 DEF Iteration
  <2> QED BY <1>3, <2>1 DEF Iteration
<1>5. f = [i \in 0 .. n |-> IF i = 0 THEN s ELSE Freed(f[i - 1], syms, start + i - 1)]
  BY <1>3, <1>4 DEF Iteration
<1>6. after = [i \in 0 .. n |-> IF i = 0 THEN s ELSE Freed(after[i - 1], syms, start + i - 1)]
  BY <1>5
<1>7. FreedRun(s, syms, start, n) = after[n]
  BY DEF FreedRun
<1> HIDE DEF after, turn
<1> DEFINE T == {i \in 0 .. n : /\ after[i] \in Arrays
                                /\ Elements(after[i]) =
                                     Elements(s) \cup (Run(start, i) \ Locals(syms))}
<1>8. 0 \in T
  <2>1. after[0] = s /\ Run(start, 0) = {}
    BY <1>6 DEF Run
  <2> QED BY <2>1
<1>9. ASSUME NEW i \in 1 .. n, i - 1 \in T
      PROVE  i \in T
  <2>1. after[i] = Freed(after[i - 1], syms, start + i - 1)
    BY <1>6
  <2>2. /\ after[i] \in Arrays
        /\ Elements(after[i]) = Elements(after[i - 1]) \cup ({start + i - 1} \ Locals(syms))
    BY <1>1, <1>9, <2>1, FreedKeeps
  <2>3. Run(start, i) = Run(start, i - 1) \cup {start + i - 1}
    BY DEF Run
  <2> QED BY <1>9, <2>2, <2>3
<1>10. n \in T
  <2> HIDE DEF T
  <2>1. \A i \in 0 .. n : i \in T
    BY <1>8, <1>9, Turns
  <2> QED BY <2>1
<1> QED BY <1>7, <1>10

\* end_scope frees the registers of the symbols it drops, when no register has two.
LEMMA FreedScopeKeeps ==
  ASSUME NEW s \in Arrays, NEW syms \in Seq([reg : Register, depth : Int]),
         NEW kept \in 0 .. Len(syms),
         \A j, k \in DOMAIN syms : syms[j].reg = syms[k].reg => j = k
  PROVE  /\ FreedScope(s, syms, kept) \in Arrays
         /\ Elements(FreedScope(s, syms, kept)) =
              Elements(s) \cup (Locals(syms) \ Locals(SubSeq(syms, 1, kept)))
<1> DEFINE Sym == [reg : Register, depth : Int]
           n == Len(syms) - kept
           left(i) == SubSeq(syms, 1, Len(syms) - i)
           reg(i) == syms[Len(syms) - i + 1].reg
           turn == [p \in (1 .. n) \X Arrays |-> Freed(p[2], left(p[1]), reg(p[1]))]
           after[i \in 0 .. n] == IF i = 0 THEN s ELSE Freed(after[i - 1], left(i), reg(i))
<1>0. /\ Len(syms) \in Nat /\ n \in Nat /\ Len(syms) - n = kept
      /\ DOMAIN syms = 1 .. Len(syms)
      /\ \A j \in 1 .. Len(syms) : syms[j].reg \in Register
  <2>1. syms \in Seq(Sym)
    OBVIOUS
  <2> HIDE DEF Sym
  <2>2. /\ Len(syms) \in Nat /\ DOMAIN syms = 1 .. Len(syms)
        /\ \A j \in 1 .. Len(syms) : syms[j] \in Sym
    BY <2>1, LenProperties, ElementOfSeq
  <2> USE DEF Sym
  <2> QED BY <2>2
<1>1. \A i \in 1 .. n : reg(i) \in Register
  BY <1>0
<1>2. turn \in [(1 .. n) \X Arrays -> Arrays]
  <2> HIDE DEF reg, left, n
  <2> QED BY <1>1, FreedKeeps
<1>3. PICK f : Iteration(f, Arrays, n, s, turn)
  <2> HIDE DEF turn, n
  <2> QED BY <1>0, <1>2, Iterates
<1>4. \A i \in 1 .. n : f[i] = Freed(f[i - 1], left(i), reg(i))
  <2> HIDE DEF reg, left, n
  <2>1. \A i \in 1 .. n : <<i, f[i - 1]>> \in (1 .. n) \X Arrays
    BY <1>0, <1>3 DEF Iteration
  <2> QED BY <1>3, <2>1 DEF Iteration
<1>5. f = [i \in 0 .. n |-> IF i = 0 THEN s ELSE Freed(f[i - 1], left(i), reg(i))]
  <2> HIDE DEF reg, left, n
  <2> QED BY <1>0, <1>3, <1>4 DEF Iteration
<1>6. after = [i \in 0 .. n |-> IF i = 0 THEN s ELSE Freed(after[i - 1], left(i), reg(i))]
  <2> HIDE DEF reg, left, n
  <2> QED BY <1>5
<1>7. FreedScope(s, syms, kept) = after[n]
  BY DEF FreedScope
<1> DEFINE dropped(i) == {syms[j].reg : j \in Len(syms) - i + 1 .. Len(syms)}
           T == {i \in 0 .. n : /\ after[i] \in Arrays
                                /\ Elements(after[i]) = Elements(s) \cup dropped(i)}
<1>8. 0 \in T
  <2>1. after[0] = s
    <3> HIDE DEF after, n
    <3> QED BY <1>0, <1>6
  <2>2. dropped(0) = {}
    BY <1>0
  <2> HIDE DEF after, dropped, n
  <2> QED BY <1>0, <2>1, <2>2
<1>9. ASSUME NEW i \in 1 .. n, i - 1 \in T
      PROVE  i \in T
  <2>1. after[i] = Freed(after[i - 1], left(i), reg(i))
    <3> HIDE DEF after, reg, left, n
    <3> QED BY <1>0, <1>6
  <2>2. reg(i) \notin Locals(left(i))
    <3>1. Len(syms) - i \in 0 .. Len(syms) /\ Len(syms) - i + 1 \in 1 .. Len(syms)
      BY <1>0
    <3>2. /\ DOMAIN left(i) = 1 .. Len(syms) - i
          /\ \A j \in 1 .. Len(syms) - i : left(i)[j] = syms[j]
      <4>1. syms \in Seq(Sym)
        OBVIOUS
      <4> HIDE DEF Sym
      <4> QED BY <3>1, <4>1, Popped
    <3>3. \A j \in 1 .. Len(syms) - i : j \in 1 .. Len(syms) /\ j # Len(syms) - i + 1
      BY <1>0
    <3>4. \A j \in 1 .. Len(syms) - i : syms[j].reg # reg(i)
      BY <1>0, <3>1, <3>3
    <3> HIDE DEF left, reg
    <3> QED BY <3>2, <3>4 DEF Locals
  <2>3. /\ after[i] \in Arrays
        /\ Elements(after[i]) = Elements(after[i - 1]) \cup {reg(i)}
    <3>1. after[i - 1] \in Arrays
      BY <1>9
    <3> HIDE DEF after, reg, left, n
    <3> QED BY <1>1, <2>1, <2>2, <3>1, FreedKeeps
  <2>4. dropped(i) = dropped(i - 1) \cup {reg(i)}
    <3>1. Len(syms) - i + 1 .. Len(syms) =
            (Len(syms) - (i - 1) + 1 .. Len(syms)) \cup {Len(syms) - i + 1}
      <4>1. \A m \in Nat : i <= m =>
              m - i + 1 .. m = (m - (i - 1) + 1 .. m) \cup {m - i + 1}
        BY <1>0
      <4>2. i <= Len(syms)
        BY <1>0
      <4> QED BY <1>0, <4>1, <4>2
    <3> QED BY <3>1
  <2>5. Elements(after[i - 1]) = Elements(s) \cup dropped(i - 1)
    BY <1>9
  <2> HIDE DEF after, reg, dropped, n
  <2> QED BY <2>3, <2>4, <2>5
<1>10. n \in T
  <2> HIDE DEF T, n
  <2>1. \A i \in 0 .. n : i \in T
    BY <1>0, <1>8, <1>9, Turns
  <2> QED BY <1>0, <2>1
<1>11. dropped(n) = Locals(syms) \ Locals(SubSeq(syms, 1, kept))
  <2>1. /\ DOMAIN SubSeq(syms, 1, kept) = 1 .. kept
        /\ \A j \in 1 .. kept : SubSeq(syms, 1, kept)[j] = syms[j]
    <3>1. syms \in Seq(Sym)
      OBVIOUS
    <3> HIDE DEF Sym
    <3> QED BY <3>1, Popped
  <2>2. Locals(SubSeq(syms, 1, kept)) = {syms[j].reg : j \in 1 .. kept}
    BY <2>1 DEF Locals
  <2>3. dropped(n) = {syms[j].reg : j \in kept + 1 .. Len(syms)}
    BY <1>0
  <2>4. 1 .. Len(syms) = (1 .. kept) \cup (kept + 1 .. Len(syms))
        /\ (1 .. kept) \cap (kept + 1 .. Len(syms)) = {}
    BY <1>0
  <2>5. Locals(syms) = {syms[j].reg : j \in 1 .. Len(syms)}
    BY <1>0 DEF Locals
  <2>6. \A j \in kept + 1 .. Len(syms), k \in 1 .. kept :
          syms[j].reg # syms[k].reg
    BY <1>0, <2>4
  <2> HIDE DEF dropped, n
  <2> QED BY <2>2, <2>3, <2>4, <2>5, <2>6
<1>12. after[n] \in Arrays /\ Elements(after[n]) = Elements(s) \cup dropped(n)
  BY <1>10
<1> HIDE DEF after, dropped, n
<1> QED BY <1>7, <1>11, <1>12

-----------------------------------------------------------------------------

\* The second loop of alloc_regs removes nothing when nothing is to be removed.
LEMMA WithoutNone ==
  ASSUME NEW s \in Arrays, NEW regs, Elements(s) \cap regs = {}
  PROVE  Without(s, regs) = s
<1> DEFINE kept[i \in 0 .. Len(s)] ==
             IF i = 0 THEN <<>>
             ELSE IF s[i] \in regs THEN kept[i - 1] ELSE Append(kept[i - 1], s[i])
           f == [i \in 0 .. Len(s) |-> SubSeq(s, 1, i)]
<1>1. /\ s \in Seq(Register) /\ Len(s) \in Nat
      /\ \A i \in 1 .. Len(s) : s[i] \notin regs
  BY ArrayType DEF Arrays
<1>2. \A i \in 1 .. Len(s) : SubSeq(s, 1, i) = Append(SubSeq(s, 1, i - 1), s[i])
  <2> SUFFICES ASSUME NEW i \in 1 .. Len(s)
               PROVE  SubSeq(s, 1, i) = Append(SubSeq(s, 1, i - 1), s[i])
    OBVIOUS
  <2>1. i - 1 \in 0 .. Len(s) /\ i \in 0 .. Len(s) /\ s[i] \in Register
    BY <1>1, ArrayType
  <2>2. /\ SubSeq(s, 1, i) \in Seq(Register) /\ Len(SubSeq(s, 1, i)) = i
        /\ \A j \in 1 .. i : SubSeq(s, 1, i)[j] = s[j]
    BY <1>1, <2>1, Popped
  <2>3. /\ SubSeq(s, 1, i - 1) \in Seq(Register) /\ Len(SubSeq(s, 1, i - 1)) = i - 1
        /\ \A j \in 1 .. i - 1 : SubSeq(s, 1, i - 1)[j] = s[j]
    BY <1>1, <2>1, Popped
  <2> DEFINE t == Append(SubSeq(s, 1, i - 1), s[i])
  <2>4. /\ t \in Seq(Register) /\ Len(t) = i - 1 + 1
        /\ \A j \in 1 .. i - 1 : t[j] = SubSeq(s, 1, i - 1)[j]
        /\ t[i - 1 + 1] = s[i]
    BY <2>1, <2>3, Appended
  <2> HIDE DEF t
  <2>5. Len(t) = i /\ t[i] = s[i]
    BY <2>4
  <2>6. \A j \in 1 .. i : t[j] = s[j]
    BY <2>3, <2>4, <2>5
  <2>7. t = SubSeq(s, 1, i)
    BY <2>2, <2>4, <2>5, <2>6, SeqEqual
  <2> QED BY <2>7 DEF t
<1>3. SubSeq(s, 1, 0) = <<>> /\ SubSeq(s, 1, Len(s)) = s
  BY <1>1, SubSeqEmpty, SubSeqFull
<1>4. f = [i \in 0 .. Len(s) |->
             IF i = 0 THEN <<>>
             ELSE IF s[i] \in regs THEN f[i - 1] ELSE Append(f[i - 1], s[i])]
  <2>1. f[0] = <<>>
    BY <1>1, <1>3
  <2>2. \A i \in 1 .. Len(s) : f[i] = Append(f[i - 1], s[i])
    <3>1. \A i \in 1 .. Len(s) : i \in 0 .. Len(s) /\ i - 1 \in 0 .. Len(s)
      BY <1>1
    <3>2. \A i \in 0 .. Len(s) : f[i] = SubSeq(s, 1, i)
      OBVIOUS
    <3> HIDE DEF f
    <3> QED BY <1>2, <3>1, <3>2
  <2>3. f = [i \in 0 .. Len(s) |-> f[i]]
    OBVIOUS
  <2>4. \A i \in 0 .. Len(s) : i = 0 \/ i \in 1 .. Len(s)
    BY <1>1
  <2> HIDE DEF f
  <2>5. \A i \in 0 .. Len(s) :
          f[i] = IF i = 0 THEN <<>>
                 ELSE IF s[i] \in regs THEN f[i - 1] ELSE Append(f[i - 1], s[i])
    BY <1>1, <2>1, <2>2, <2>4
  <2> QED BY <2>3, <2>5
<1>5. kept = [i \in 0 .. Len(s) |->
                IF i = 0 THEN <<>>
                ELSE IF s[i] \in regs THEN kept[i - 1] ELSE Append(kept[i - 1], s[i])]
  <2> HIDE DEF f
  <2> QED BY <1>4
<1>6. Without(s, regs) = kept[Len(s)]
  BY DEF Without
<1> HIDE DEF kept
<1> DEFINE T == {i \in 0 .. Len(s) : kept[i] = SubSeq(s, 1, i)}
<1>7. 0 \in T
  BY <1>1, <1>3, <1>5
<1>8. ASSUME NEW i \in 1 .. Len(s), i - 1 \in T
      PROVE  i \in T
  <2>1. i \in 0 .. Len(s) /\ i # 0 /\ s[i] \notin regs
    BY <1>1
  <2>2. kept[i] = Append(kept[i - 1], s[i])
    BY <1>5, <2>1
  <2>3. kept[i - 1] = SubSeq(s, 1, i - 1)
    BY <1>8
  <2>4. kept[i] = SubSeq(s, 1, i)
    BY <1>2, <2>2, <2>3
  <2> QED BY <2>1, <2>4
<1>9. Len(s) \in T
  <2> HIDE DEF T
  <2>1. \A i \in 0 .. Len(s) : i \in T
    BY <1>1, <1>7, <1>8, Turns
  <2> QED BY <1>1, <2>1
<1> QED BY <1>3, <1>6, <1>9

\* Consecutive registers are in consecutive places of a sorted array: the first loop
\* of alloc_regs, which looks at places, misses no run.
LEMMA RunInPlace ==
  ASSUME NEW s \in Arrays, NEW n \in Nat \ {0}, NEW k \in 1 .. Len(s),
         Run(s[k], n) \subseteq Elements(s)
  PROVE  \A j \in 0 .. n - 1 : k + j <= Len(s) /\ s[k + j] = s[k] + j
<1> DEFINE T == {j \in 0 .. n - 1 : k + j <= Len(s) /\ s[k + j] = s[k] + j}
<1>0. /\ Len(s) \in Nat /\ k \in Nat /\ s[k] \in Int
      /\ Elements(s) = {s[i] : i \in 1 .. Len(s)}
      /\ \A i \in 1 .. Len(s) : s[i] \in Int
  BY ArrayType
<1>1. 0 \in T
  BY <1>0
<1>2. ASSUME NEW j \in 1 .. n - 1, j - 1 \in T
      PROVE  j \in T
  <2>1. /\ k + (j - 1) <= Len(s) /\ s[k + (j - 1)] = s[k] + (j - 1)
        /\ k + (j - 1) \in 1 .. Len(s)
    BY <1>0, <1>2
  <2>2. s[k] + j \in Elements(s)
    <3>1. j \in 0 .. n - 1
      OBVIOUS
    <3>2. s[k] + j \in Run(s[k], n)
      BY <1>0, <3>1 DEF Run
    <3> QED BY <3>2
  <2>3. PICK m \in 1 .. Len(s) : s[m] = s[k] + j
    BY <1>0, <2>2
  <2>4. s[k + (j - 1)] < s[m]
    BY <1>0, <2>1, <2>3
  <2>5. k + (j - 1) < m
    BY <2>1, <2>4, Ordered
  <2>6. m = k + j
    <3> SUFFICES ASSUME m # k + j PROVE FALSE
      OBVIOUS
    <3>1. k + j \in 1 .. Len(s) /\ k + (j - 1) < k + j /\ k + j < m
      BY <1>0, <2>1, <2>5
    <3>2. s[k + (j - 1)] < s[k + j] /\ s[k + j] < s[m] /\ s[k + j] \in Int
      BY <1>0, <2>1, <3>1, Ordered
    <3> QED BY <1>0, <2>1, <2>3, <3>2
  <2> QED BY <1>0, <2>3, <2>6
<1>3. \A j \in 0 .. n - 1 : j \in T
  <2> HIDE DEF T
  <2>1. n - 1 \in Nat
    OBVIOUS
  <2> QED BY <1>1, <1>2, <2>1, Turns
<1> QED BY <1>3

\* remove_free_reg_at on n consecutive places takes n registers out.
LEMMA CutKeeps ==
  ASSUME NEW s \in Arrays, NEW n \in Nat \ {0}, NEW i \in 1 .. Len(s),
         i + n - 1 <= Len(s)
  PROVE  LET t == SubSeq(s, 1, i - 1) \o SubSeq(s, i + n, Len(s))
         IN  /\ t \in Arrays
             /\ Elements(t) = Elements(s) \ {s[j] : j \in i .. i + n - 1}
<1> DEFINE below == SubSeq(s, 1, i - 1)
           above == SubSeq(s, i + n, Len(s))
           t == below \o above
<1>1. /\ s \in Seq(Register) /\ Len(s) \in Nat
      /\ Elements(s) = {s[j] : j \in 1 .. Len(s)}
  BY ArrayType DEF Arrays
<1>2. /\ below \in Seq(Register) /\ Len(below) = i - 1
      /\ \A j \in 1 .. i - 1 : below[j] = s[j]
  <2>1. i - 1 \in 0 .. Len(s)
    BY <1>1
  <2> QED BY <1>1, <2>1, Popped
<1>3. /\ above \in Seq(Register) /\ Len(above) = Len(s) - (i + n) + 1
      /\ \A j \in 1 .. Len(s) - (i + n) + 1 : above[j] = s[(i + n) + j - 1]
  <2>1. i + n \in 1 .. Len(s) + 1
    BY <1>1
  <2> QED BY <1>1, <2>1, Rest
<1> HIDE DEF below, above
<1>4. /\ t \in Seq(Register) /\ Len(t) = (i - 1) + (Len(s) - (i + n) + 1)
      /\ \A j \in 1 .. (i - 1) + (Len(s) - (i + n) + 1) :
           t[j] = IF j <= i - 1 THEN below[j] ELSE above[j - (i - 1)]
  <2>1. /\ t \in Seq(Register) /\ Len(t) = Len(below) + Len(above)
        /\ \A j \in 1 .. Len(below) + Len(above) :
             t[j] = IF j <= Len(below) THEN below[j] ELSE above[j - Len(below)]
    BY <1>2, <1>3, ConcatProperties
  <2> HIDE DEF t
  <2> QED BY <1>2, <1>3, <2>1
<1> HIDE DEF t
<1> DEFINE m == Len(s) - n
           place(j) == IF j < i THEN j ELSE j + n
<1>5. Len(t) = m /\ DOMAIN t = 1 .. m /\ m \in Nat
  <2>1. Len(t) = m /\ m \in Nat
    BY <1>1, <1>4
  <2> HIDE DEF m
  <2> QED BY <1>4, <2>1, LenProperties
<1>6. ASSUME NEW j \in 1 .. m
      PROVE  /\ t[j] = s[place(j)]
             /\ place(j) \in 1 .. Len(s)
             /\ place(j) \notin i .. i + n - 1
  <2>1. CASE j < i
    <3>1. j \in 1 .. i - 1 /\ j \in 1 .. (i - 1) + (Len(s) - (i + n) + 1) /\ j <= i - 1
      BY <1>1, <2>1
    <3>2. t[j] = s[j]
      BY <1>2, <1>4, <3>1
    <3> QED BY <1>1, <2>1, <3>2
  <2>2. CASE ~(j < i)
    <3>1. /\ j \in 1 .. (i - 1) + (Len(s) - (i + n) + 1) /\ ~(j <= i - 1)
          /\ j - (i - 1) \in 1 .. Len(s) - (i + n) + 1
          /\ (i + n) + (j - (i - 1)) - 1 = j + n
      BY <1>1, <2>2
    <3>2. t[j] = s[j + n]
      BY <1>3, <1>4, <3>1
    <3> QED BY <1>1, <2>2, <3>2
  <2> QED BY <2>1, <2>2
<1>7. Increasing(t)
  <2> SUFFICES ASSUME NEW j \in 1 .. m, NEW k \in 1 .. m, j < k
               PROVE  t[j] < t[k]
    BY <1>5 DEF Increasing
  <2>1. place(j) < place(k)
    BY <1>5
  <2> HIDE DEF m, place
  <2> QED BY <1>6, <2>1, Ordered
<1>8. Elements(t) = Elements(s) \ {s[j] : j \in i .. i + n - 1}
  <2>1. Elements(t) \subseteq Elements(s) \ {s[j] : j \in i .. i + n - 1}
    <3> SUFFICES ASSUME NEW j \in 1 .. m
                 PROVE  t[j] \in Elements(s) \ {s[k] : k \in i .. i + n - 1}
      BY <1>5 DEF Elements
    <3>1. \A k \in i .. i + n - 1 : k \in 1 .. Len(s)
      BY <1>1
    <3> HIDE DEF m, place
    <3> QED BY <1>1, <1>6, <3>1, Ordered
  <2>2. ASSUME NEW k \in 1 .. Len(s), s[k] \notin {s[j] : j \in i .. i + n - 1}
        PROVE  s[k] \in Elements(t)
    <3>1. k \notin i .. i + n - 1
      BY <2>2
    <3>2. CASE k < i
      <4>1. k \in 1 .. m /\ place(k) = k
        BY <1>1, <3>2
      <4> HIDE DEF m, place
      <4> QED BY <1>5, <1>6, <4>1 DEF Elements
    <3>3. CASE k > i + n - 1
      <4>1. k - n \in 1 .. m /\ place(k - n) = k
        BY <1>1, <3>3
      <4> HIDE DEF m, place
      <4> QED BY <1>5, <1>6, <4>1 DEF Elements
    <3> QED BY <1>1, <3>1, <3>2, <3>3
  <2> QED BY <1>1, <2>1, <2>2
<1> QED BY <1>4, <1>7, <1>8 DEF Arrays, t, below, above

-----------------------------------------------------------------------------

\* The places of the array at which alloc_regs finds a run are the runs of the set.
LEMMA RunsAreStarts ==
  ASSUME free_regs \in Arrays, NEW n \in Nat \ {0}
  PROVE  /\ \A i \in RunsAt(n) :
              /\ i \in 1 .. Len(free_regs) /\ i + n - 1 <= Len(free_regs)
              /\ {free_regs[j] : j \in i .. i + n - 1} = Run(free_regs[i], n)
              /\ free_regs[i] \in Pool!Starts(n)
         /\ \A r \in Pool!Starts(n) : \E i \in RunsAt(n) : free_regs[i] = r
<1> DEFINE s == free_regs
<1>1. /\ Len(s) \in Nat
      /\ Elements(s) = {s[i] : i \in 1 .. Len(s)}
      /\ \A i \in 1 .. Len(s) : s[i] \in Int
  BY ArrayType
<1>2. ASSUME NEW i \in RunsAt(n)
      PROVE  /\ i \in 1 .. Len(s) /\ i + n - 1 <= Len(s)
             /\ {s[j] : j \in i .. i + n - 1} = Run(s[i], n)
             /\ s[i] \in Pool!Starts(n)
  <2>1. i \in 1 .. Len(s) /\ i + n - 1 <= Len(s) /\ s[i] \in Elements(s)
    BY <1>1 DEF RunsAt
  <2>2. \A j \in 0 .. n - 1 : s[i + j] = s[i] + j
    <3>1. \A j \in 1 .. n - 1 : s[i + j] = s[i] + j
      BY DEF RunsAt
    <3>2. s[i + 0] = s[i] + 0
      BY <1>1, <2>1
    <3>3. \A j \in 0 .. n - 1 : j = 0 \/ j \in 1 .. n - 1
      OBVIOUS
    <3> QED BY <3>1, <3>2, <3>3
  <2>3. {s[j] : j \in i .. i + n - 1} = Run(s[i], n)
    <3> SUFFICES ASSUME NEW x
                 PROVE  (\E j \in i .. i + n - 1 : x = s[j]) <=> x \in Run(s[i], n)
      OBVIOUS
    <3>1. ASSUME NEW j \in i .. i + n - 1
          PROVE  s[j] \in Run(s[i], n)
      <4>1. j - i \in 0 .. n - 1 /\ i + (j - i) = j
        BY <2>1
      <4>2. s[j] = s[i] + (j - i)
        BY <2>2, <4>1
      <4>3. \A a \in Int, d \in 0 .. n - 1 : a + d \in Run(a, n)
        BY DEF Run
      <4> HIDE DEF s
      <4> QED BY <1>1, <2>1, <4>1, <4>2, <4>3
    <3>2. ASSUME x \in Run(s[i], n)
          PROVE  \E j \in i .. i + n - 1 : x = s[j]
      <4>1. \A a \in Int : \A y \in Run(a, n) : y - a \in 0 .. n - 1 /\ a + (y - a) = y
        BY DEF Run
      <4>2. x - s[i] \in 0 .. n - 1 /\ s[i] + (x - s[i]) = x
        BY <1>1, <2>1, <3>2, <4>1
      <4>3. s[i + (x - s[i])] = x
        BY <2>2, <4>2
      <4>4. i + (x - s[i]) \in i .. i + n - 1
        BY <2>1, <4>2
      <4> QED BY <4>3, <4>4
    <3> QED BY <3>1, <3>2
  <2>4. Run(s[i], n) \subseteq Elements(s)
    <3>1. i .. i + n - 1 \subseteq 1 .. Len(s)
      BY <1>1, <2>1
    <3> QED BY <1>1, <2>3, <3>1
  <2> QED BY <2>1, <2>3, <2>4 DEF Pool!Starts, Pool!Run, Run
<1>3. ASSUME NEW r \in Pool!Starts(n)
      PROVE  \E i \in RunsAt(n) : s[i] = r
  <2>1. r \in Elements(s) /\ Run(r, n) \subseteq Elements(s)
    BY DEF Pool!Starts, Pool!Run, Run
  <2>2. PICK i \in 1 .. Len(s) : s[i] = r
    BY <1>1, <2>1
  <2>3. \A j \in 0 .. n - 1 : i + j <= Len(s) /\ s[i + j] = s[i] + j
    BY <2>1, <2>2, RunInPlace
  <2>4. i \in RunsAt(n)
    <3>1. n - 1 \in 0 .. n - 1 /\ \A j \in 1 .. n - 1 : j \in 0 .. n - 1
      OBVIOUS
    <3>2. i + (n - 1) <= Len(s) /\ \A j \in 1 .. n - 1 : s[i + j] = s[i] + j
      BY <2>3, <3>1
    <3>3. i \in 1 .. Len(s) - n + 1
      BY <1>1, <3>2
    <3> QED BY <3>2, <3>3 DEF RunsAt
  <2> QED BY <2>2, <2>4
<1> QED BY <1>2, <1>3

\* alloc_regs takes the first run of free registers, and new ones only when there is
\* no run.
LEMMA AllocMaps ==
  ASSUME IInv, NEW n \in Nat \ {0}, NEW start, AllocRegs(n, start)
  PROVE  free_regs' \in Arrays /\ Pool!Take(n, start)
<1>1. free_regs \in Arrays /\ next_reg \in 0 .. MaxRegs
  BY DEF IInv, TypeOK, Sorted, Arrays, Increasing, Register
<1>2. CASE AllocRun(n, start)
  <2>1. PICK i \in RunsAt(n) :
          /\ \A k \in RunsAt(n) : i <= k
          /\ start = free_regs[i]
          /\ free_regs' = SubSeq(free_regs, 1, i - 1)
                          \o SubSeq(free_regs, i + n, Len(free_regs))
          /\ UNCHANGED next_reg
    BY <1>2 DEF AllocRun
  <2>2. /\ i \in 1 .. Len(free_regs) /\ i + n - 1 <= Len(free_regs)
        /\ {free_regs[j] : j \in i .. i + n - 1} = Run(start, n)
        /\ start \in Pool!Starts(n)
    BY <1>1, <2>1, RunsAreStarts
  <2>3. /\ free_regs' \in Arrays
        /\ Elements(free_regs') = Elements(free_regs) \ Run(start, n)
    BY <1>1, <2>1, <2>2, CutKeeps
  <2>4. ASSUME NEW r \in Pool!Starts(n)
        PROVE  start <= r
    <3>1. PICK k \in RunsAt(n) : free_regs[k] = r
      BY <1>1, RunsAreStarts
    <3>2. k \in 1 .. Len(free_regs) /\ i <= k
      BY <1>1, <2>1, <3>1, RunsAreStarts
    <3>3. /\ start \in Int /\ r \in Int
          /\ i = k \/ i < k
      BY <1>1, <2>1, <2>2, <3>1, <3>2, ArrayType
    <3> QED BY <1>1, <2>1, <2>2, <3>1, <3>2, <3>3, Ordered
  <2>5. Pool!TakeRun(n, start)
    BY <2>1, <2>2, <2>3, <2>4 DEF Pool!TakeRun, Pool!Run, Run
  <2> QED BY <2>3, <2>5 DEF Pool!Take, AllocRegs
<1>3. CASE AllocFresh(n, start)
  <2>1. Elements(free_regs) \cap Run(start, n) = {}
    <3>1. Elements(free_regs) \subseteq 0 .. next_reg - 1
      BY DEF IInv, OneOwner
    <3>2. start = next_reg
      BY <1>3 DEF AllocFresh
    <3>3. Run(next_reg, n) \cap (0 .. next_reg - 1) = {}
      BY <1>1 DEF Run
    <3> QED BY <3>1, <3>2, <3>3
  <2>2. free_regs' = free_regs
    BY <1>1, <1>3, <2>1, WithoutNone DEF AllocFresh
  <2>3. Pool!Starts(n) = {}
    BY <1>1, <1>3, RunsAreStarts DEF AllocFresh
  <2>4. Pool!TakeFresh(n, start)
    BY <1>3, <2>2, <2>3 DEF AllocFresh, Pool!TakeFresh, Pool!Fits, Fits
  <2> QED BY <1>1, <2>2, <2>4 DEF Pool!Take, AllocRegs
<1> QED BY <1>2, <1>3 DEF AllocRegs

\* Every step of the array keeps it sorted and is a step of the set of free registers.
LEMMA StepMaps == IInv /\ [Next]_vars => free_regs' \in Arrays /\ [Pool!Next]_(Pool!vars)
<1> SUFFICES ASSUME IInv, [Next]_vars
             PROVE  free_regs' \in Arrays /\ [Pool!Next]_(Pool!vars)
  OBVIOUS
<1>0. /\ free_regs \in Arrays
      /\ symbols \in Seq([reg : Register, depth : Int])
      /\ held \subseteq Register
      /\ \A j, k \in DOMAIN symbols : symbols[j].reg = symbols[k].reg => j = k
  BY DEF IInv, TypeOK, Sorted, OneOwner, Arrays, Increasing, Register
<1>1. Locals(symbols) = Pool!Locals(symbols)
  BY DEF Locals, Pool!Locals
<1>2. CASE \E n \in Runs, start \in 0 .. MaxRegs - 1 : Alloc(n, start)
  <2>1. PICK n \in Runs, start \in 0 .. MaxRegs - 1 : Alloc(n, start)
    BY <1>2
  <2>2. n \in Nat \ {0} /\ AllocRegs(n, start)
    BY <2>1, RunsAssumption DEF Alloc
  <2>3. free_regs' \in Arrays /\ Pool!Take(n, start)
    BY <2>2, AllocMaps
  <2>4. Pool!Alloc(n, start)
    BY <2>1, <2>3 DEF Alloc, Pool!Alloc, Pool!Run, Run
  <2> QED BY <2>3, <2>4 DEF Pool!Next
<1>3. CASE \E n \in Runs \cup {1} : LimitExceeded(n)
  <2>1. PICK n \in Runs \cup {1} : LimitExceeded(n)
    BY <1>3
  <2>2. n \in Nat \ {0}
    BY RunsAssumption
  <2>3. Pool!Starts(n) = {}
    BY <1>0, <2>1, <2>2, RunsAreStarts DEF LimitExceeded
  <2>4. Pool!LimitExceeded(n) /\ free_regs' = free_regs
    BY <2>1, <2>3 DEF LimitExceeded, Pool!LimitExceeded, Pool!Fits, Fits
  <2> QED BY <1>0, <2>4 DEF Pool!Next
<1>4. CASE \E start \in 0 .. MaxRegs - 1 : Define(start)
  <2>1. PICK start \in 0 .. MaxRegs - 1 : Define(start)
    BY <1>4
  <2>2. free_regs' \in Arrays /\ Pool!Take(1, start)
    BY <2>1, AllocMaps DEF Define
  <2>3. Pool!Define(start)
    BY <2>1, <2>2 DEF Define, Pool!Define
  <2> QED BY <2>2, <2>3 DEF Pool!Next
<1>5. CASE \E reg \in held \cup Locals(symbols) : FreeTemp(reg)
  <2>1. PICK reg \in held \cup Locals(symbols) : FreeTemp(reg)
    BY <1>5
  <2>2. reg \in Register
    <3>1. \A k \in DOMAIN symbols : symbols[k] \in [reg : Register, depth : Int]
      BY <1>0, LenProperties, ElementOfSeq
    <3>2. Locals(symbols) \subseteq Register
      BY <3>1 DEF Locals
    <3> QED BY <1>0, <3>2
  <2>3. /\ free_regs' \in Arrays
        /\ Elements(free_regs') = Elements(free_regs) \cup ({reg} \ Locals(symbols))
    BY <1>0, <2>1, <2>2, FreedKeeps DEF FreeTemp
  <2>4. Pool!Free({reg}) /\ {reg} \in SUBSET (held \cup Pool!Locals(symbols))
    BY <1>1, <2>1, <2>3 DEF FreeTemp, Pool!Free
  <2> QED BY <2>3, <2>4 DEF Pool!Next
<1>6. CASE \E n \in Runs, start \in held : FreeBlock(start, n)
  <2>1. PICK n \in Runs, start \in held : FreeBlock(start, n)
    BY <1>6
  <2>2. n \in Nat /\ start \in Int /\ Run(start, n) \subseteq Register
    <3>1. n \in Nat /\ start \in Register
      BY <1>0, <2>1, RunsAssumption
    <3>2. Run(start, n) \subseteq held
      BY <2>1 DEF FreeBlock
    <3>3. start \in Int
      BY <3>1 DEF Register
    <3> QED BY <1>0, <3>1, <3>2, <3>3
  <2>3. /\ free_regs' \in Arrays
        /\ Elements(free_regs') = Elements(free_regs) \cup (Run(start, n) \ Locals(symbols))
    BY <1>0, <2>1, <2>2, FreedRunKeeps DEF FreeBlock
  <2>4. /\ Pool!Free(Run(start, n))
        /\ Run(start, n) \in SUBSET (held \cup Pool!Locals(symbols))
    BY <1>1, <2>1, <2>3 DEF FreeBlock, Pool!Free
  <2> QED BY <2>3, <2>4 DEF Pool!Next
<1>7. CASE BeginScope
  <2>1. Pool!BeginScope /\ free_regs' = free_regs
    BY <1>7 DEF BeginScope, Pool!BeginScope
  <2> QED BY <1>0, <2>1 DEF Pool!Next
<1>8. CASE \E kept \in 0 .. Len(symbols) : EndScope(kept)
  <2>1. PICK kept \in 0 .. Len(symbols) : EndScope(kept)
    BY <1>8
  <2>2. /\ free_regs' \in Arrays
        /\ Elements(free_regs') =
             Elements(free_regs) \cup (Locals(symbols) \ Locals(SubSeq(symbols, 1, kept)))
    BY <1>0, <2>1, FreedScopeKeeps DEF EndScope
  <2>3. Pool!EndScope(kept)
    BY <2>1, <2>2 DEF EndScope, Pool!EndScope, Survives, Pool!Survives, Locals, Pool!Locals
  <2> QED BY <2>1, <2>2, <2>3 DEF Pool!Next
<1>9. CASE UNCHANGED vars
  BY <1>0, <1>9 DEF vars, Pool!vars
<1> QED BY <1>2, <1>3, <1>4, <1>5, <1>6, <1>7, <1>8, <1>9 DEF Next

-----------------------------------------------------------------------------

\* The compiler starts with an empty array, no symbol and no temporary: the pool's
\* first state.
LEMMA InitHolds == Init => IInv /\ Pool!Init
<1> SUFFICES ASSUME Init PROVE IInv /\ Pool!Init
  OBVIOUS
<1>1. /\ free_regs \in Seq(0 .. MaxRegs - 1)
      /\ symbols \in Seq([reg : 0 .. MaxRegs - 1, depth : Int])
      /\ DOMAIN free_regs = {} /\ DOMAIN symbols = {}
  BY EmptySeq DEF Init
<1>2. TypeOK
  <2>1. scope_depth \in Int
    BY DepthsAssumption DEF Init
  <2>2. next_reg \in 0 .. MaxRegs /\ scopes \in 0 .. MaxScopes
    BY MaxRegsAssumption, MaxScopesAssumption DEF Init
  <2> QED BY <1>1, <2>1, <2>2 DEF Init, TypeOK
<1>3. Elements(free_regs) = {} /\ Locals(symbols) = {} /\ 0 .. next_reg - 1 = {}
  BY <1>1 DEF Init, Elements, Locals
<1>4. Sorted
  BY <1>1 DEF Sorted
<1>5. OneOwner
  BY <1>1, <1>3 DEF Init, OneOwner
<1>6. Pool!Init
  BY <1>3 DEF Init, Pool!Init
<1> QED BY <1>2, <1>4, <1>5, <1>6 DEF IInv

\* No step leaves the invariant: the array stays sorted because no register comes back
\* twice, and no register comes back twice because the pool it implements has one
\* owner for each.
LEMMA InvStep == IInv /\ [Next]_vars => IInv'
<1> SUFFICES ASSUME IInv, [Next]_vars PROVE IInv'
  OBVIOUS
<1>1. free_regs' \in Arrays /\ [Pool!Next]_(Pool!vars)
  BY StepMaps
<1>2. Elements(free_regs) \subseteq Register
  BY ArrayType DEF IInv, TypeOK, Sorted, Arrays, Increasing, Register
<1>3. Pool!TypeOK /\ Pool!OneOwner
  BY <1>2 DEF IInv, TypeOK, OneOwner, Pool!TypeOK, Pool!OneOwner,
              Pool!Register, Register, Locals, Pool!Locals
<1>4. Pool!TypeOK'
  BY <1>1, <1>3, PoolTypeStep,
     MaxRegsAssumption, RunsAssumption, DepthsAssumption, MaxScopesAssumption
<1>5. Pool!OneOwner'
  BY <1>1, <1>3, PoolOwnerStep,
     MaxRegsAssumption, RunsAssumption, DepthsAssumption, MaxScopesAssumption
<1>6. TypeOK'
  BY <1>1, <1>4 DEF TypeOK, Pool!TypeOK, Pool!Register, Arrays, Register
<1>7. Sorted'
  BY <1>1 DEF Sorted, Arrays, Increasing
<1>8. OneOwner'
  BY <1>5 DEF OneOwner, Pool!OneOwner, Locals, Pool!Locals
<1> QED BY <1>6, <1>7, <1>8 DEF IInv

\* The invariant holds in every state.
LEMMA Invariant == Spec => []IInv
  BY InitHolds, InvStep, PTL DEF Spec

\* The array of free registers, the symbols' registers and the temporaries stay within
\* the machine's registers: alloc_regs and free_temp_reg never write past
\* REG_POOL_MAX, whatever the sizes and the order.
THEOREM TypeCorrect == Spec => []TypeOK
<1>1. IInv => TypeOK
  BY DEF IInv
<1> QED BY <1>1, Invariant, PTL

\* The array stays sorted, without duplicates, in whatever order free_temp_reg,
\* free_regs_block and end_scope give registers back.
THEOREM StaysSorted == Spec => []Sorted
<1>1. IInv => Sorted
  BY DEF IInv
<1> QED BY <1>1, Invariant, PTL

\* Every register used so far is in the array, held as a temporary or a variable's,
\* and only one of them: alloc_regs hands out no register that holds a value, and
\* free_temp_reg, free_regs_block and end_scope lose none.
THEOREM RegistersHaveOneOwner == Spec => []OneOwner
<1>1. IInv => OneOwner
  BY DEF IInv
<1> QED BY <1>1, Invariant, PTL

\* The sorted array implements the set of free registers: a search of consecutive
\* places finds the first run of consecutive registers whenever there is one.
THEOREM ArrayImplementsPool == Spec => ImplementsRegisterPool
<1>1. Init => Pool!Init
  BY InitHolds
<1>2. IInv /\ [Next]_vars => [Pool!Next]_(Pool!vars)
  BY StepMaps
<1> QED BY <1>1, <1>2, Invariant, PTL DEF Spec, ImplementsRegisterPool, Pool!Spec
=============================================================================
