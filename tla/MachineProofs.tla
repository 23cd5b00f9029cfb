---------------------------- MODULE MachineProofs ----------------------------
(***************************************************************************)
(* What generate_bydecode writes is what vm_run reads, and a chunk that is *)
(* sound never takes vm_run out of its types: whatever it computes, no     *)
(* reference dangles, the program counter stays in the code, and no        *)
(* register is read before it is written.                                  *)
(***************************************************************************)
EXTENDS Machine, DataLemmas

-----------------------------------------------------------------------------
(* Words.                                                                    *)

\* The widths of the fields of an instruction.
LEMMA Widths ==
  /\ 2 ^ 7 = 128 /\ 2 ^ 8 = 256 /\ 2 ^ 9 = 512
  /\ 2 ^ 15 = 32768 /\ 2 ^ 16 = 65536 /\ 2 ^ 18 = 262144
  /\ MAX_sBx = 131071
  BY DEF MAX_sBx

\* Whatever is put into a word, its fields are within their widths.
LEMMA WordType ==
  ASSUME NEW op, NEW x \in Int, NEW y \in Int
  PROVE  IsWord(Word(op, x, y))
  BY Widths DEF IsWord, Word

\* Two operands below 256 are read back from the two halves of Bx.
LEMMA HalvesReadBack ==
  ASSUME NEW op, NEW x \in Byte, NEW y \in Byte, NEW z \in Byte
  PROVE  LET w == CREATE_ABC(op, x, y, z)
         IN GET_A(w) = x /\ GET_B(w) = y /\ GET_C(w) = z
<1> DEFINE w == CREATE_ABC(op, x, y, z)
<1>1. x \in 0 .. 255 /\ y \in 0 .. 255 /\ z \in 0 .. 255
  BY Widths DEF Byte
<1>2. y % 512 = y /\ z % 512 = z /\ x % 256 = x
  BY <1>1
<1>3. w.bx = y * 512 + z /\ w.a = x
  <2>1. (y * 512 + z) % 262144 = y * 512 + z
    BY <1>1
  <2> QED BY <1>2, <2>1, Widths DEF CREATE_ABC, Word
<1>4. ((y * 512 + z) \div 512) % 256 = y /\ ((y * 512 + z) % 512) % 256 = z
  BY <1>1
<1> QED BY <1>3, <1>4, Widths DEF GET_A, GET_B, GET_C

\* The capacity register, or none, is read back as a signed byte.
LEMMA CapacityReadsBack ==
  ASSUME NEW op, NEW x \in Byte, NEW y \in -1 .. 2 ^ 7 - 1, NEW z \in Byte
  PROVE  LET w == CREATE_ABC(op, x, y, z)
         IN GET_A(w) = x /\ CapacityOf(w) = y /\ GET_C(w) = z
<1> DEFINE w == CREATE_ABC(op, x, y, z)
<1> DEFINE m == IF y = -1 THEN 511 ELSE y
<1>1. x \in 0 .. 255 /\ y \in -1 .. 127 /\ z \in 0 .. 255
  BY Widths DEF Byte
<1>2. y % 512 = m /\ z % 512 = z /\ x % 256 = x
  BY <1>1
<1>3. w.bx = m * 512 + z /\ w.a = x
  <2>1. (m * 512 + z) % 262144 = m * 512 + z
    BY <1>1
  <2> HIDE DEF m
  <2> QED BY <1>2, <2>1, Widths DEF CREATE_ABC, Word
<1>4. (m * 512 + z) \div 512 = m /\ ((m * 512 + z) % 512) % 256 = z
  BY <1>1
<1>5. Signed(m, 256) = y
  <2>1. m % 256 = (IF y = -1 THEN 255 ELSE y)
    BY <1>1
  <2> HIDE DEF m
  <2> QED BY <1>1, <2>1 DEF Signed
<1> HIDE DEF m
<1> QED BY <1>3, <1>4, <1>5, Widths DEF GET_A, GET_C, CapacityOf

\* An operand that has Bx to itself is read back, into 16 bits and, if it is a
\* register, into 8.
LEMMA BxReadsBack ==
  ASSUME NEW op, NEW x \in Byte, NEW y \in Nat, y < 65536
  PROVE  LET w == CREATE_ABx(op, x, y)
         IN GET_A(w) = x /\ GET_Bx(w) = y /\ (y \in Byte => Low(w) = y)
<1>1. x % 256 = x
  BY Widths DEF Byte
<1>2. y % 262144 = y /\ y % 65536 = y /\ (y \in 0 .. 255 => y % 256 = y)
  OBVIOUS
<1> QED BY <1>1, <1>2, Widths DEF CREATE_ABx, Word, GET_A, GET_Bx, Low, Byte

\* A jump of up to 32768 words back, or one less forward, is read back with its sign.
LEMMA OffsetReadsBack ==
  ASSUME NEW op, NEW x \in Byte, NEW d \in Int, -32768 <= d, d < 32768
  PROVE  GET_sBx(CREATE_AsBx(op, x, d)) = d
<1>1. (d + 131071) % 262144 = d + 131071
  OBVIOUS
<1>2. CREATE_AsBx(op, x, d).bx = d + 131071
  BY <1>1, Widths DEF CREATE_AsBx, CREATE_ABx, Word
<1>3. Signed(d, 65536) = d
  <2>1. d % 65536 = (IF d < 0 THEN d + 65536 ELSE d)
    OBVIOUS
  <2> QED BY <2>1 DEF Signed
<1> QED BY <1>2, <1>3, Widths DEF GET_sBx

\* Every instruction that is within the limits of the fields is read by vm_run as the
\* compiler emitted it: generate_bydecode loses no operand, no sign and no target.
THEOREM WordsKeepInstructions ==
  ASSUME NEW ir, NEW i \in Nat, Fits(ir, i)
  PROVE  ReadsBack(ir, Encoded(ir, i), i) /\ IsWord(Encoded(ir, i))
<1>1. CASE ir.op \in {"LOADK", "MOVE", "UNM", "NOT"}
  <2>1. ir.a \in Byte /\ ir.b \in Nat /\ ir.b < 65536 /\ (ir.op # "LOADK" => ir.b \in Byte)
    BY <1>1, Widths DEF Fits, Byte
  <2>2. Encoded(ir, i) = CREATE_ABx(ir.op, ir.a, ir.b)
    BY <1>1 DEF Encoded
  <2>3. IsWord(Encoded(ir, i)) /\ Encoded(ir, i).op = ir.op
    BY <2>1, <2>2, WordType, Widths DEF CREATE_ABx, Word, Byte
  <2> QED BY <1>1, <2>1, <2>2, <2>3, BxReadsBack DEF ReadsBack
<1>2. CASE ir.op = "JUMP"
  <2> DEFINE d == ir.b - i - 1
  <2>1. ir.a \in Byte /\ ir.b \in Int /\ d \in Int /\ -32768 <= d /\ d < 32768
    BY <1>2, Widths DEF Fits
  <2>2. Encoded(ir, i) = CREATE_AsBx(ir.op, ir.a, d)
    BY <1>2 DEF Encoded, Offset
  <2>3. IsWord(Encoded(ir, i)) /\ Encoded(ir, i).op = ir.op
    BY <2>1, <2>2, WordType, Widths DEF CREATE_AsBx, CREATE_ABx, Word, Byte
  <2>4. GET_sBx(Encoded(ir, i)) = d
    BY <2>1, <2>2, OffsetReadsBack
  <2> QED BY <1>2, <2>1, <2>3, <2>4 DEF ReadsBack
<1>3. CASE ir.op = "JUMP_IF_FALSE"
  <2> DEFINE d == ir.b - i - 1
  <2>1. ir.a \in Byte /\ ir.b \in Int /\ d \in Nat /\ d < 65536
    BY <1>3, Widths DEF Fits
  <2>2. Encoded(ir, i) = CREATE_ABx(ir.op, ir.a, d)
    BY <1>3 DEF Encoded, Offset
  <2>3. IsWord(Encoded(ir, i)) /\ Encoded(ir, i).op = ir.op
    BY <2>1, <2>2, WordType, Widths DEF CREATE_ABx, Word, Byte
  <2>4. GET_A(Encoded(ir, i)) = ir.a /\ GET_Bx(Encoded(ir, i)) = d
    BY <2>1, <2>2, BxReadsBack
  <2> QED BY <1>3, <2>1, <2>3, <2>4 DEF ReadsBack
<1>4. CASE ir.op = "HALT"
  <2>1. Encoded(ir, i) = CREATE_ABC(ir.op, 0, 0, 0)
    BY <1>4 DEF Encoded
  <2> QED BY <1>4, <2>1, WordType, Widths DEF ReadsBack, CREATE_ABC, Word
<1>5. CASE ir.op = "CREATE_LIST"
  <2>1. ir.a \in Byte /\ ir.b \in -1 .. 2 ^ 7 - 1 /\ ir.c \in Byte
    BY <1>5 DEF Fits
  <2>2. Encoded(ir, i) = CREATE_ABC(ir.op, ir.a, ir.b, ir.c)
    BY <1>5 DEF Encoded
  <2>3. IsWord(Encoded(ir, i)) /\ Encoded(ir, i).op = ir.op
    BY <2>1, <2>2, WordType, Widths DEF CREATE_ABC, Word, Byte
  <2> QED BY <1>5, <2>1, <2>2, <2>3, CapacityReadsBack DEF ReadsBack
<1>6. CASE ir.op \notin {"LOADK", "MOVE", "UNM", "NOT", "JUMP", "JUMP_IF_FALSE", "HALT",
                         "CREATE_LIST"}
  <2>1. ir.a \in Byte /\ ir.b \in Byte /\ ir.c \in Byte
    BY <1>6 DEF Fits
  <2>2. Encoded(ir, i) = CREATE_ABC(ir.op, ir.a, ir.b, ir.c)
    BY <1>6 DEF Encoded
  <2>3. IsWord(Encoded(ir, i)) /\ Encoded(ir, i).op = ir.op
    BY <2>1, <2>2, WordType, Widths DEF CREATE_ABC, Word, Byte
  <2> QED BY <1>6, <2>1, <2>2, <2>3, HalvesReadBack DEF ReadsBack
<1> QED BY <1>1, <1>2, <1>3, <1>4, <1>5, <1>6

-----------------------------------------------------------------------------
(* Objects.  What refers to an object of a heap refers to one of any heap    *)
(* that has as many.                                                         *)

\* The values of a list, in a heap.
IsListOf(s, objects) == IsSequence(s) /\ \A k \in DOMAIN s : IsValue(s[k], objects)

IsHeap(objects) == IsSequence(objects) /\ \A k \in DOMAIN objects : IsObject(objects[k], objects)

\* A function on 1 .. n is a sequence of length n.
LEMMA FunctionIsSequence ==
  ASSUME NEW n \in Nat, NEW f, f = [k \in 1 .. n |-> f[k]]
  PROVE  /\ IsSequence(f)
         /\ Len(f) = n
         /\ DOMAIN f = 1 .. n
<1> DEFINE S == {f[k] : k \in 1 .. n}
<1>1. DOMAIN f = 1 .. n /\ f \in [1 .. n -> S]
  OBVIOUS
<1>2. f \in Seq(S)
  BY <1>1
<1> HIDE DEF S
<1>3. Len(f) \in Nat /\ DOMAIN f = 1 .. Len(f)
  BY <1>2, LenProperties
<1>4. Len(f) = n
  BY <1>1, <1>3
<1> QED BY <1>1, <1>4 DEF IsSequence

\* The other way round: what the theorems about sequences take.
LEMMA SequenceType ==
  ASSUME NEW s, IsSequence(s)
  PROVE  /\ Len(s) \in Nat
         /\ DOMAIN s = 1 .. Len(s)
         /\ s \in Seq({s[k] : k \in DOMAIN s})
<1> DEFINE S == {s[k] : k \in DOMAIN s}
<1>1. Len(s) \in Nat /\ s = [k \in 1 .. Len(s) |-> s[k]]
  BY DEF IsSequence
<1>2. DOMAIN s = 1 .. Len(s)
  BY <1>1
<1>3. s \in [1 .. Len(s) -> S]
  BY <1>1, <1>2
<1>4. s \in Seq(S)
  BY <1>1, <1>3
<1> QED BY <1>1, <1>2, <1>4

\* A sequence of any elements is one in the sense of TypeOK.
LEMMA TypedSequence ==
  ASSUME NEW S, NEW s \in Seq(S)
  PROVE  IsSequence(s) /\ DOMAIN s = 1 .. Len(s) /\ Len(s) \in Nat
<1>1. Len(s) \in Nat /\ DOMAIN s = 1 .. Len(s) /\ s \in [1 .. Len(s) -> S]
  BY LenProperties
<1>2. s = [k \in 1 .. Len(s) |-> s[k]]
  BY <1>1
<1> QED BY <1>1, <1>2 DEF IsSequence

\* One more element at the end.
LEMMA Appending ==
  ASSUME NEW s, IsSequence(s), NEW e
  PROVE  /\ IsSequence(Append(s, e))
         /\ DOMAIN Append(s, e) = DOMAIN s \cup {Len(s) + 1}
         /\ Len(s) + 1 \notin DOMAIN s
         /\ \A k \in DOMAIN s : Append(s, e)[k] = s[k]
         /\ Append(s, e)[Len(s) + 1] = e
<1> DEFINE S == {s[k] : k \in DOMAIN s} \cup {e}
<1>1. Len(s) \in Nat /\ DOMAIN s = 1 .. Len(s) /\ s \in Seq({s[k] : k \in DOMAIN s})
  BY SequenceType
<1>2. s \in Seq(S) /\ e \in S
  <2>1. s \in [1 .. Len(s) -> S]
    BY <1>1
  <2> QED BY <1>1, <2>1
<1> HIDE DEF S
<1>3. /\ Append(s, e) \in Seq(S)
      /\ Len(Append(s, e)) = Len(s) + 1
      /\ \A k \in 1 .. Len(s) : Append(s, e)[k] = s[k]
      /\ Append(s, e)[Len(s) + 1] = e
  BY <1>2, AppendProperties
<1>4. IsSequence(Append(s, e)) /\ DOMAIN Append(s, e) = 1 .. Len(Append(s, e))
  BY <1>3, TypedSequence
<1>5. 1 .. Len(s) + 1 = (1 .. Len(s)) \cup {Len(s) + 1} /\ Len(s) + 1 \notin 1 .. Len(s)
  BY <1>1
<1> QED BY <1>1, <1>3, <1>4, <1>5

\* Every element of u is one of s or of t.
DrawnFrom(u, s, t) == \A k \in DOMAIN u : \/ \E i \in DOMAIN s : u[k] = s[i]
                                          \/ \E i \in DOMAIN t : u[k] = t[i]

\* A sequence after another.
LEMMA Longer ==
  ASSUME NEW s, IsSequence(s), NEW t, IsSequence(t)
  PROVE  /\ IsSequence(s \o t)
         /\ DOMAIN s \subseteq DOMAIN (s \o t)
         /\ DrawnFrom(s \o t, s, t)
<1> DEFINE S == {s[k] : k \in DOMAIN s} \cup {t[k] : k \in DOMAIN t}
<1>1. /\ Len(s) \in Nat /\ DOMAIN s = 1 .. Len(s)
      /\ Len(t) \in Nat /\ DOMAIN t = 1 .. Len(t)
  BY SequenceType
<1>2. s \in Seq(S) /\ t \in Seq(S)
  <2>1. s = [k \in 1 .. Len(s) |-> s[k]] /\ t = [k \in 1 .. Len(t) |-> t[k]]
    BY DEF IsSequence
  <2>2. s \in [1 .. Len(s) -> S] /\ t \in [1 .. Len(t) -> S]
    BY <1>1, <2>1
  <2> QED BY <1>1, <2>2
<1> HIDE DEF S
<1>3. /\ s \o t \in Seq(S)
      /\ Len(s \o t) = Len(s) + Len(t)
  BY <1>2, ConcatProperties
<1>4. IsSequence(s \o t) /\ DOMAIN (s \o t) = 1 .. Len(s) + Len(t)
  BY <1>3, TypedSequence
<1>5. \A k \in DOMAIN (s \o t) : (s \o t)[k] \in S
  BY <1>3, <1>4, ElementOfSeq
<1>6. DrawnFrom(s \o t, s, t)
  BY <1>5 DEF S, DrawnFrom
<1> QED BY <1>1, <1>4, <1>6

\* A list after another.
LEMMA Concatenating ==
  ASSUME NEW objects, NEW s, IsListOf(s, objects), NEW t, IsListOf(t, objects)
  PROVE  IsListOf(s \o t, objects)
<1>1. IsSequence(s) /\ IsSequence(t)
  BY DEF IsListOf
<1>2. IsSequence(s \o t) /\ DrawnFrom(s \o t, s, t)
  BY <1>1, Longer
<1> DEFINE u == s \o t
<1>3. IsSequence(u) /\ DrawnFrom(u, s, t)
  BY <1>2
<1> HIDE DEF u
<1>4. ASSUME NEW k \in DOMAIN u
      PROVE  IsValue(u[k], objects)
  BY <1>3, <1>4 DEF IsListOf, DrawnFrom
<1>5. IsListOf(u, objects)
  BY <1>3, <1>4 DEF IsListOf
<1> QED BY <1>5 DEF u

\* A list of one value.
LEMMA SingleList ==
  ASSUME NEW objects, NEW v, IsValue(v, objects)
  PROVE  IsListOf(<<v>>, objects)
<1>1. DOMAIN <<v>> = 1 .. 1 /\ <<v>>[1] = v
  OBVIOUS
<1>2. <<v>> \in Seq({v})
  OBVIOUS
<1>3. IsSequence(<<v>>)
  BY <1>2, TypedSequence
<1> QED BY <1>1, <1>3 DEF IsListOf

\* A list n times in a row, as list * n makes it.
LEMMA Repeating ==
  ASSUME NEW objects, NEW s, IsListOf(s, objects), NEW n \in Nat
  PROVE  IsListOf(InARow(s, n), objects)
<1>1. Len(s) \in Nat /\ DOMAIN s = 1 .. Len(s)
  BY SequenceType DEF IsListOf
<1> DEFINE m == n * Len(s)
<1>2. m \in Nat
  BY <1>1
<1>3. ASSUME NEW k \in 1 .. m
      PROVE  ((k - 1) % Len(s)) + 1 \in DOMAIN s
  <2>1. Len(s) > 0
    <3>1. Len(s) # 0
      BY <1>3
    <3> QED BY <1>1, <3>1
  <2>2. k - 1 \in Nat
    BY <1>2, <1>3
  <2> HIDE DEF m
  <2>3. (k - 1) % Len(s) \in 0 .. Len(s) - 1
    BY <1>1, <2>1, <2>2, DivMod
  <2> QED BY <1>1, <2>3
<1>4. InARow(s, n) = [k \in 1 .. m |-> s[((k - 1) % Len(s)) + 1]]
  BY DEF InARow
<1> HIDE DEF m
<1>5. InARow(s, n) = [k \in 1 .. m |-> InARow(s, n)[k]]
  BY <1>4
<1>6. IsSequence(InARow(s, n)) /\ DOMAIN InARow(s, n) = 1 .. m
  BY <1>2, <1>5, FunctionIsSequence
<1> QED BY <1>3, <1>4, <1>6 DEF IsListOf

\* A value is one of every heap that has the objects of this one.
LEMMA ValuesStay ==
  ASSUME NEW g, NEW h, DOMAIN g \subseteq DOMAIN h
  PROVE  /\ \A v : IsValue(v, g) => IsValue(v, h)
         /\ \A obj : IsObject(obj, g) => IsObject(obj, h)
         /\ \A s : IsListOf(s, g) => IsListOf(s, h)
<1>1. ASSUME NEW v, IsValue(v, g) PROVE IsValue(v, h)
  BY <1>1 DEF IsValue
<1> QED BY <1>1 DEF IsObject, IsListOf

\* An object more: allocate_object gives it the next place.
LEMMA Allocating ==
  ASSUME NEW g, IsHeap(g), NEW obj, NEW h, h = Append(g, obj), IsObject(obj, h)
  PROVE  /\ IsHeap(h)
         /\ DOMAIN h = DOMAIN g \cup {Len(g) + 1}
         /\ \A k \in DOMAIN g : h[k] = g[k]
<1>1. /\ IsSequence(h)
      /\ DOMAIN h = DOMAIN g \cup {Len(g) + 1}
      /\ \A k \in DOMAIN g : h[k] = g[k]
      /\ h[Len(g) + 1] = obj
  BY Appending DEF IsHeap
<1>2. \A k \in DOMAIN g : IsObject(g[k], h)
  BY <1>1, ValuesStay DEF IsHeap
<1> QED BY <1>1, <1>2 DEF IsHeap

\* An object changed, in its place.
LEMMA Changing ==
  ASSUME NEW g, IsHeap(g), NEW k \in DOMAIN g, NEW obj, IsObject(obj, g)
  PROVE  /\ IsHeap([g EXCEPT ![k] = obj])
         /\ DOMAIN [g EXCEPT ![k] = obj] = DOMAIN g
<1> DEFINE h == [g EXCEPT ![k] = obj]
<1>1. DOMAIN h = DOMAIN g /\ \A j \in DOMAIN g : h[j] = IF j = k THEN obj ELSE g[j]
  OBVIOUS
<1>2. Len(g) \in Nat /\ DOMAIN g = 1 .. Len(g)
  BY SequenceType DEF IsHeap
<1>3. h = [j \in 1 .. Len(g) |-> h[j]]
  BY <1>1, <1>2
<1> HIDE DEF h
<1>4. IsSequence(h)
  BY <1>2, <1>3, FunctionIsSequence
<1>5. \A j \in DOMAIN h : IsObject(h[j], g)
  BY <1>1 DEF IsHeap
<1>6. \A j \in DOMAIN h : IsObject(h[j], h)
  BY <1>1, <1>5, ValuesStay
<1>7. IsHeap(h)
  BY <1>4, <1>6 DEF IsHeap
<1> QED BY <1>1, <1>7 DEF h

\* The fields of a list and of a dictionary.
LEMMA ObjectFields ==
  ASSUME NEW objects, NEW obj, IsObject(obj, objects)
  PROVE  /\ obj.kind \in {"list", "dict"}
         /\ obj.kind = "list" =>
              /\ obj = [kind |-> "list", at |-> obj.at, capacity |-> obj.capacity,
                        fixed |-> obj.fixed]
              /\ IsListOf(obj.at, objects)
         /\ obj.kind = "dict" =>
              /\ obj = [kind |-> "dict", at |-> obj.at, capacity |-> obj.capacity,
                        fixed |-> obj.fixed, count |-> obj.count]
              /\ obj.capacity \in Nat /\ obj.count \in Nat
<1>1. IsStored(obj) /\ \A k \in DOMAIN obj.at : IsValue(obj.at[k], objects)
  BY DEF IsObject
<1>2. CASE obj = [kind |-> "list", at |-> obj.at, capacity |-> obj.capacity,
                  fixed |-> obj.fixed] /\ IsSequence(obj.at)
  <2>1. obj.kind = "list"
    BY <1>2
  <2> QED BY <1>1, <1>2, <2>1 DEF IsListOf
<1>3. CASE /\ obj = [kind |-> "dict", at |-> obj.at, capacity |-> obj.capacity,
                     fixed |-> obj.fixed, count |-> obj.count]
           /\ obj.capacity \in Nat /\ obj.count \in Nat
  <2>1. obj.kind = "dict"
    BY <1>3
  <2> QED BY <1>3, <2>1
<1> QED BY <1>1, <1>2, <1>3 DEF IsStored

\* A list is one whatever its capacity.
LEMMA ListObject ==
  ASSUME NEW objects, NEW s, IsListOf(s, objects), NEW capacity, NEW fixed \in BOOLEAN,
         NEW obj, obj = [kind |-> "list", at |-> s, capacity |-> capacity, fixed |-> fixed]
  PROVE  IsObject(obj, objects)
<1>1. obj.at = s /\ obj.capacity = capacity /\ obj.fixed = fixed
  OBVIOUS
<1>2. IsStored(obj)
  BY <1>1 DEF IsStored, IsListOf
<1> QED BY <1>1, <1>2 DEF IsObject, IsListOf

\* new is obj after a store: what it had is there, but for the keys that growth may lose.
Extends(obj, new) ==
  /\ new.kind = obj.kind /\ new.fixed = obj.fixed
  /\ obj.fixed => new.capacity = obj.capacity
  /\ \A key \in DOMAIN obj.at : key \in DOMAIN new.at \/ LostTo(obj, new, key)

\* A list goes on with other values.
LEMMA Appends ==
  ASSUME NEW g, NEW h, DOMAIN g \subseteq DOMAIN h,
         NEW list, IsObject(list, g), list.kind = "list", NEW s, IsListOf(s, h)
  PROVE  IsObject(Lengthened(list, s), h) /\ Extends(list, Lengthened(list, s))
<1> DEFINE t == list.at \o s
           n == IF list.fixed THEN list.capacity
                ELSE Grown[list.capacity, Len(list.at) + Len(s)]
<1>1. /\ list = [kind |-> "list", at |-> list.at, capacity |-> list.capacity,
                 fixed |-> list.fixed]
      /\ IsListOf(list.at, g) /\ list.fixed \in BOOLEAN
  BY ObjectFields DEF IsObject
<1>2. IsListOf(list.at, h)
  BY <1>1, ValuesStay
<1>3. IsListOf(t, h)
  BY <1>2, Concatenating
<1>4. DOMAIN list.at \subseteq DOMAIN t
  <2>1. IsSequence(list.at) /\ IsSequence(s)
    BY <1>2 DEF IsListOf
  <2> QED BY <2>1, Longer
<1>5. Lengthened(list, s) = [list EXCEPT !.at = t, !.capacity = n]
  BY DEF Lengthened
<1>6. list.fixed => n = list.capacity
  OBVIOUS
<1> HIDE DEF t, n
<1>7. Lengthened(list, s) = [kind |-> "list", at |-> t, capacity |-> n, fixed |-> list.fixed]
  BY <1>1, <1>5
<1>8. IsObject(Lengthened(list, s), h)
  BY <1>1, <1>3, <1>7, ListObject
<1>9. Extends(list, Lengthened(list, s))
  BY <1>4, <1>6, <1>7 DEF Extends
<1> QED BY <1>8, <1>9

\* Of the keys of a dictionary only growth loses any, and only those whose hash is 0.
LEMMA Enters ==
  ASSUME NEW g, NEW h, DOMAIN g \subseteq DOMAIN h,
         NEW dict, IsObject(dict, g), dict.kind = "dict", NEW key, NEW v, IsValue(v, h)
  PROVE  IsObject(Entered(dict, key, v), h) /\ Extends(dict, Entered(dict, key, v))
<1> DEFINE new == Entered(dict, key, v)
           kept == KeysKept(dict, key)
           f == [k \in kept \cup {key} |-> IF k = key THEN v ELSE dict.at[k]]
           n == IF key \in DOMAIN dict.at THEN dict.count ELSE dict.count + 1
           m == IF Grows(dict, key) THEN Growth(dict.capacity) ELSE dict.capacity
<1>1. /\ dict = [kind |-> "dict", at |-> dict.at, capacity |-> dict.capacity,
                 fixed |-> dict.fixed, count |-> dict.count]
      /\ dict.capacity \in Nat /\ dict.count \in Nat
      /\ dict.fixed \in BOOLEAN
      /\ \A k \in DOMAIN dict.at : IsValue(dict.at[k], g)
  BY ObjectFields DEF IsObject
<1>2. Growth(dict.capacity) \in Nat /\ Growth(dict.capacity) > dict.capacity
  BY <1>1 DEF Growth
<1>3. n \in Nat /\ m \in Nat
  BY <1>1, <1>2
<1>4. Grows(dict, key) => ~dict.fixed /\ m > dict.capacity
  BY <1>2 DEF Grows
<1>5. ~Grows(dict, key) => m = dict.capacity
  OBVIOUS
<1>6. /\ kept \subseteq DOMAIN dict.at
      /\ \A k \in DOMAIN dict.at : k \in kept \/ (Grows(dict, key) /\ k \in ZeroHash)
  BY DEF KeysKept
<1>7. new = [dict EXCEPT !.at = f, !.count = n, !.capacity = m]
  BY DEF Entered
<1>8. /\ DOMAIN f = kept \cup {key}
      /\ \A k \in DOMAIN f : f[k] = IF k = key THEN v ELSE dict.at[k]
  OBVIOUS
<1> HIDE DEF kept, f, n, m, new
<1>9. new = [kind |-> "dict", at |-> f, capacity |-> m, fixed |-> dict.fixed, count |-> n]
  BY <1>1, <1>7
<1>10. ASSUME NEW k \in DOMAIN f
       PROVE  IsValue(f[k], h)
  <2>1. CASE k = key
    BY <1>8, <2>1
  <2>2. CASE k # key
    <3>1. k \in DOMAIN dict.at /\ f[k] = dict.at[k]
      BY <1>6, <1>8, <2>2
    <3> QED BY <1>1, <3>1, ValuesStay
  <2> QED BY <2>1, <2>2
<1>11. /\ new.kind = "dict" /\ new.at = f /\ new.capacity = m /\ new.fixed = dict.fixed
       /\ new.count = n
  BY <1>9
<1>12. IsStored(new)
  BY <1>3, <1>9, <1>11 DEF IsStored
<1>13. IsObject(new, h)
  BY <1>1, <1>10, <1>11, <1>12 DEF IsObject
<1>14. ASSUME NEW k \in DOMAIN dict.at
       PROVE  k \in DOMAIN new.at \/ LostTo(dict, new, k)
  <2>1. CASE k \in kept
    BY <1>8, <1>11, <2>1
  <2>2. CASE Grows(dict, key) /\ k \in ZeroHash
    BY <1>4, <1>11, <2>2 DEF LostTo
  <2> QED BY <1>6, <2>1, <2>2
<1>15. dict.fixed => new.capacity = dict.capacity
  BY <1>4, <1>5, <1>11
<1>16. Extends(dict, new)
  BY <1>11, <1>14, <1>15 DEF Extends
<1> QED BY <1>13, <1>16 DEF new

\* obj[key] = v leaves the object one, of the same kind and as fixed as it was.
LEMMA Setting ==
  ASSUME NEW g, NEW h, DOMAIN g \subseteq DOMAIN h,
         NEW obj, IsObject(obj, g), NEW key, NEW v, IsValue(v, h)
  PROVE  IsObject(SetAt(obj, key, v), h) /\ Extends(obj, SetAt(obj, key, v))
<1>1. CASE obj.kind = "dict"
  <2>1. SetAt(obj, key, v) = Entered(obj, key, v)
    BY <1>1 DEF SetAt
  <2> QED BY <1>1, <2>1, Enters
<1>2. CASE obj.kind = "list"
  <2>1. /\ obj = [kind |-> "list", at |-> obj.at, capacity |-> obj.capacity,
                  fixed |-> obj.fixed]
        /\ IsListOf(obj.at, h) /\ obj.fixed \in BOOLEAN
    BY <1>2, ObjectFields, ValuesStay DEF IsObject
  <2>2. CASE key[2] = 0
    <3>1. SetAt(obj, key, v) = Lengthened(obj, <<v>>)
      BY <1>2, <2>2 DEF SetAt
    <3>2. IsListOf(<<v>>, h)
      BY SingleList
    <3> QED BY <1>2, <3>1, <3>2, Appends
  <2>3. CASE key[2] # 0
    <3> DEFINE p == IF key[2] < 0 THEN Len(obj.at) + key[2] + 1 ELSE key[2]
               s == [obj.at EXCEPT ![p] = v]
               new == SetAt(obj, key, v)
    <3>1. new = [obj EXCEPT !.at = s]
      BY <1>2, <2>3 DEF SetAt
    <3> HIDE DEF p, new
    <3>2. Len(obj.at) \in Nat /\ DOMAIN obj.at = 1 .. Len(obj.at)
      BY <2>1, SequenceType DEF IsListOf
    <3>3. /\ DOMAIN s = DOMAIN obj.at
          /\ s = [k \in 1 .. Len(obj.at) |-> s[k]]
          /\ \A k \in DOMAIN s : s[k] = v \/ s[k] = obj.at[k]
      BY <3>2
    <3> HIDE DEF s
    <3>4. IsSequence(s)
      BY <3>2, <3>3, FunctionIsSequence
    <3>5. IsListOf(s, h)
      BY <2>1, <3>3, <3>4 DEF IsListOf
    <3>6. new = [kind |-> "list", at |-> s, capacity |-> obj.capacity, fixed |-> obj.fixed]
      BY <2>1, <3>1
    <3>7. IsObject(new, h)
      BY <2>1, <3>5, <3>6, ListObject
    <3>8. Extends(obj, new)
      BY <1>2, <3>3, <3>6 DEF Extends
    <3> QED BY <3>7, <3>8 DEF new
  <2> QED BY <2>2, <2>3
<1> QED BY <1>1, <1>2, ObjectFields

-----------------------------------------------------------------------------
(* Results.  What an operator gives is one of its operands, or refers to     *)
(* nothing.                                                                  *)

Plain(v) == v = Fault \/ ~IsRef(v)
IsResult(v, objects) == v = Fault \/ IsValue(v, objects)

\* A result that refers to nothing is one in any heap.
LEMMA PlainResult ==
  ASSUME NEW v, Plain(v), NEW objects
  PROVE  IsResult(v, objects)
  BY DEF Plain, IsResult, IsValue

\* The values that opcodes make of what they compute are no references.
LEMMA MadeValues ==
  /\ \A n : Plain(IntV(n)) /\ Plain(BoolV(n)) /\ Plain(StringV(n))
  /\ \A n, d : Plain(FloatV(n, d))
  /\ Plain(Fault) /\ Plain(NaN) /\ Plain(Nil)
<1>1. \A n : Plain(IntV(n)) /\ Plain(BoolV(n)) /\ Plain(StringV(n))
  BY DEF Plain, IntV, BoolV, StringV, IsRef
<1>2. ASSUME NEW n, NEW d PROVE Plain(FloatV(n, d))
  <2>1. PICK f : FloatV(n, d) = <<"float", f>>
    BY DEF FloatV
  <2> QED BY <2>1 DEF Plain, IsRef
<1>3. Plain(Fault) /\ Plain(NaN) /\ Plain(Nil)
  BY DEF Plain, NaN, Nil, IsRef
<1> QED BY <1>1, <1>2, <1>3

\* Arithmetic gives an int, a float or an error.
LEMMA NumbersArePlain ==
  /\ \A op, v, w : Plain(Arithmetic(op, v, w))
  /\ \A v : Plain(Unm(v))
<1>1. \A i, f : Plain(Number(i, f))
  BY MadeValues DEF Number
<1>2. \A op, v, w, text : Plain(OnNumbers(op, v, w, text))
  <2> SUFFICES ASSUME NEW op, NEW v, NEW w, NEW text PROVE Plain(OnNumbers(op, v, w, text))
    OBVIOUS
  <2>1. \/ OnNumbers(op, v, w, text) = Fault
        \/ \E i, f : OnNumbers(op, v, w, text) = Number(i, f)
    BY DEF OnNumbers
  <2> QED BY <1>1, <2>1, MadeValues
<1>3. \A op, v, w : Plain(Arithmetic(op, v, w))
  BY <1>2, MadeValues DEF Arithmetic, Coerced
<1>4. \A v : Plain(Unm(v))
  BY <1>1, MadeValues DEF Unm, Negative
<1> QED BY <1>3, <1>4

\* Every binary operator of two values gives a value or an error, never a reference of
\* its own making.
LEMMA BinaryResult ==
  ASSUME NEW op \in BinaryOps, NEW objects,
         NEW v, IsValue(v, objects), NEW w, IsValue(w, objects)
  PROVE  IsResult(Binary(op, v, w), objects)
<1>1. CASE op \in ArithmeticOps
  <2>1. Binary(op, v, w) = Arithmetic(op, v, w)
    BY <1>1 DEF Binary, OrderOps, ArithmeticOps
  <2> QED BY <2>1, NumbersArePlain, PlainResult
<1>2. CASE op \in OrderOps
  <2>1. Plain(Order(op, v, w))
    BY MadeValues DEF Order
  <2>2. Binary(op, v, w) = Order(op, v, w)
    BY <1>2 DEF Binary, OrderOps, ArithmeticOps
  <2> QED BY <2>1, <2>2, PlainResult
<1>3. CASE op = "EQ"
  <2>1. Plain(Eq(v, w))
    BY MadeValues DEF Eq
  <2>2. Binary(op, v, w) = Eq(v, w)
    BY <1>3 DEF Binary, OrderOps, ArithmeticOps
  <2> QED BY <2>1, <2>2, PlainResult
<1>4. CASE op = "NEQ"
  <2>1. Plain(Neq(v, w))
    BY MadeValues DEF Neq
  <2>2. Binary(op, v, w) = Neq(v, w)
    BY <1>4 DEF Binary, OrderOps, ArithmeticOps
  <2> QED BY <2>1, <2>2, PlainResult
<1>5. CASE op = "OR"
  <2>1. Binary(op, v, w) = Or(v, w)
    BY <1>5 DEF Binary, OrderOps, ArithmeticOps
  <2> QED BY <2>1 DEF Or, IsResult
<1>6. CASE op = "AND"
  <2>1. Binary(op, v, w) = And(v, w)
    BY <1>6 DEF Binary, OrderOps, ArithmeticOps
  <2> QED BY <2>1 DEF And, IsResult
<1>7. CASE op = "CONCAT"
  <2>1. Plain(Concat(v, w))
    BY MadeValues DEF Concat
  <2>2. Binary(op, v, w) = Concat(v, w)
    BY <1>7 DEF Binary, OrderOps, ArithmeticOps
  <2> QED BY <2>1, <2>2, PlainResult
<1> QED BY <1>1, <1>2, <1>3, <1>4, <1>5, <1>6, <1>7 DEF BinaryOps

\* So does every unary one.
LEMMA UnaryResult ==
  ASSUME NEW op, NEW v, NEW objects
  PROVE  IsResult(Unary(op, v), objects)
<1>1. Plain(Unary(op, v))
  BY NumbersArePlain, MadeValues DEF Unary, Not
<1> QED BY <1>1, PlainResult

\* A list gives one of its elements, or NaN for a position it does not have.
LEMMA IndexResult ==
  ASSUME NEW objects, NEW s, IsListOf(s, objects), NEW p
  PROVE  IsResult(ListAt(s, p), objects)
<1> DEFINE k == IF p < 0 THEN Len(s) + p + 1 ELSE p
<1>1. ListAt(s, p) = IF k \in DOMAIN s THEN s[k] ELSE NaN
  BY DEF ListAt
<1> HIDE DEF k
<1> QED BY <1>1, MadeValues, PlainResult DEF IsListOf, IsResult

-----------------------------------------------------------------------------
(* Types.                                                                    *)

\* What every step preserves: the code that is run is sound, for nothing changes it.
IInv == /\ TypeOK
        /\ status = "idle" => instructions = <<>>
        /\ status = "running" => Sound(instructions, constants)

\* The fields of a word, as vm_run reads them, are registers, numbers or offsets.
LEMMA FieldTypes ==
  ASSUME NEW w, IsWord(w)
  PROVE  /\ GET_A(w) \in Nat /\ GET_B(w) \in Nat /\ GET_C(w) \in Nat /\ GET_Bx(w) \in Nat
         /\ GET_sBx(w) \in Int
         /\ CapacityOf(w) \in Int
<1>1. w.a \in Nat /\ w.bx \in Nat
  BY Widths DEF IsWord
<1>2. GET_A(w) \in Nat /\ GET_B(w) \in Nat /\ GET_C(w) \in Nat /\ GET_Bx(w) \in Nat
  BY <1>1, Widths DEF GET_A, GET_B, GET_C, GET_Bx
<1>3. GET_sBx(w) \in Int
  <2>1. w.bx - 131071 \in Int
    BY <1>1
  <2> QED BY <2>1, Widths DEF GET_sBx, Signed
<1>4. CapacityOf(w) \in Int
  <2>1. w.bx \div 512 \in Int
    BY <1>1
  <2> QED BY <2>1, Widths DEF CapacityOf, Signed
<1> QED BY <1>2, <1>3, <1>4

\* The instruction that is fetched is one of sound code: its operands are registers, it
\* has its constant, and it goes to an instruction.
LEMMA Fetched ==
  ASSUME IInv, NEW op, Fetch(op)
  PROVE  /\ status = "running" /\ instr.op = op
         /\ pc \in Nat /\ pc < Len(instructions) /\ pc + 1 \in 1 .. Len(instructions)
         /\ IsWord(instr)
         /\ ReadsOf(instr) \subseteq FrameRegisters
         /\ WritesOf(instr) \subseteq FrameRegisters
         /\ SuccessorsOf(instr, pc + 1) \subseteq 1 .. Len(instructions)
         /\ op = "LOADK" => bx + 1 \in DOMAIN constants
         /\ \A k \in DOMAIN constants : IsConstant(constants[k])
         /\ Sound(instructions, constants)
<1>1. status = "running" /\ instr.op = op
  BY DEF Fetch
<1>2. pc \in Nat /\ pc < Len(instructions) /\ pc + 1 \in 1 .. Len(instructions)
  <2>1. pc \in 0 .. Len(instructions) /\ pc < Len(instructions)
    BY <1>1 DEF IInv, TypeOK
  <2>2. Len(instructions) \in Int
    BY <2>1
  <2> QED BY <2>1, <2>2
<1>3. Sound(instructions, constants)
  BY <1>1 DEF IInv
<1> DEFINE F == Flow(instructions)
<1>4. /\ F[pc + 1] \subseteq FrameRegisters
      /\ SoundAt(instructions, constants, F, pc + 1)
      /\ \A k \in DOMAIN constants : IsConstant(constants[k])
  BY <1>2, <1>3 DEF Sound
<1> HIDE DEF F
<1>5. instr = instructions[pc + 1]
  BY DEF instr
<1> QED BY <1>1, <1>2, <1>3, <1>4, <1>5 DEF SoundAt, bx

\* What a step of vm_run must leave in place.
LEMMA Kept ==
  ASSUME IInv, NEW op, Fetch(op),
         pc' \in 0 .. Len(instructions),
         status' \in {"running", "halted", "error", "crash", "spin"},
         status' = "running" => pc' < Len(instructions),
         DOMAIN R' = FrameRegisters, \A r \in FrameRegisters : IsValue(R'[r], heap'),
         IsHeap(heap'), written' \subseteq FrameRegisters
  PROVE  IInv'
<1>1. instructions' = instructions /\ constants' = constants
  BY DEF Fetch
<1>2. TypeOK'
  BY <1>1 DEF TypeOK, IsHeap
<1>3. status' = "running" => Sound(instructions, constants)'
  BY <1>1, Fetched
<1> QED BY <1>2, <1>3 DEF IInv

\* The parts of TypeOK the steps use.
LEMMA Typed ==
  ASSUME IInv
  PROVE  /\ DOMAIN R = FrameRegisters
         /\ \A r \in FrameRegisters : IsValue(R[r], heap)
         /\ IsHeap(heap)
         /\ written \subseteq FrameRegisters
         /\ pc \in 0 .. Len(instructions)
  BY DEF IInv, TypeOK, IsHeap

\* The run ends where it is: vm_runtime_raise was called, the process is killed, or a probe
\* never comes to its end.
Stops == /\ status' \in {"error", "crash", "spin"}
         /\ pc' = pc + 1
         /\ UNCHANGED <<R, heap, written>>

\* The ways to end a run.
LEMMA WaysToStop ==
  /\ Raise => Stops
  /\ \A n : Overruns(n) => Stops
  /\ \A how \in {"error", "crash", "spin"} : Ends(how) => Stops
<1>1. \A how \in {"error", "crash", "spin"} : Ends(how) => Stops
  BY DEF Ends, Stops
<1> QED BY <1>1 DEF Raise, Overruns

\* A run that ends leaves everything as it is.
LEMMA Stopped ==
  ASSUME IInv, NEW op, Fetch(op), Stops
  PROVE  IInv'
<1>1. /\ pc' = pc + 1 /\ status' \in {"error", "crash", "spin"}
      /\ R' = R /\ heap' = heap /\ written' = written
  BY DEF Stops
<1>2. pc' \in 0 .. Len(instructions)
  BY <1>1, Fetched
<1> QED BY <1>1, <1>2, Typed, Kept

\* Going on to an instruction.
LEMMA Reaches ==
  ASSUME IInv, NEW op, Fetch(op), NEW n \in Int, GoTo(n),
         n + 1 \in SuccessorsOf(instr, pc + 1)
  PROVE  pc' \in 0 .. Len(instructions) /\ pc' < Len(instructions) /\ status' = "running"
<1>1. n + 1 \in 1 .. Len(instructions)
  BY Fetched
<1>2. pc' = n /\ status' = "running"
  BY Fetched DEF GoTo
<1> QED BY <1>1, <1>2

\* Most go on to the next, and write R[a].
GoesOn == BinaryOps \cup {"LOADK", "MOVE", "UNM", "NOT", "CREATE_LIST", "CREATE_DICT", "GET_INDEX"}

\* Where those that only go on go.
LEMMA NextOne ==
  ASSUME NEW w, NEW i, w.op \in GoesOn \cup {"PUSH_LIST", "SET_INDEX"}
  PROVE  /\ SuccessorsOf(w, i) = {i + 1}
         /\ w.op \in GoesOn => WritesOf(w) = {GET_A(w)}
<1>1. /\ w.op \notin {"JUMP", "JUMP_IF_FALSE", "HALT"}
      /\ w.op \in GoesOn => w.op \notin WritesNothing
  BY DEF GoesOn, BinaryOps, ArithmeticOps, OrderOps, WritesNothing
<1> QED BY <1>1 DEF SuccessorsOf, WritesOf

\* A result goes into R[a], with the objects it may refer to.
LEMMA Stored ==
  ASSUME IInv, NEW op \in GoesOn, Fetch(op), NEW v, NEW h, Store(v, h),
         IsResult(v, h), IsHeap(h), DOMAIN heap \subseteq DOMAIN h
  PROVE  IInv'
<1>1. CASE v = Fault
  BY <1>1, WaysToStop, Stopped DEF Store
<1>2. CASE v # Fault
  <2>1. /\ R' = [R EXCEPT ![a] = v]
        /\ written' = written \cup {a}
        /\ heap' = h
        /\ GoTo(pc + 1)
    BY <1>2 DEF Store
  <2>2. SuccessorsOf(instr, pc + 1) = {pc + 1 + 1} /\ WritesOf(instr) = {a}
    BY Fetched, NextOne DEF a
  <2>3. pc + 1 \in Int /\ a \in FrameRegisters
    BY <2>2, Fetched
  <2>4. pc' \in 0 .. Len(instructions) /\ pc' < Len(instructions) /\ status' = "running"
    BY <2>1, <2>2, <2>3, Reaches
  <2>5. DOMAIN R' = FrameRegisters /\ \A r \in FrameRegisters : R'[r] = IF r = a THEN v ELSE R[r]
    BY <2>1, Typed
  <2>6. \A r \in FrameRegisters : IsValue(R'[r], heap')
    BY <1>2, <2>1, <2>5, Typed, ValuesStay DEF IsResult
  <2>7. written' \subseteq FrameRegisters
    BY <2>1, <2>3, Typed
  <2> QED BY <2>1, <2>4, <2>5, <2>6, <2>7, Kept
<1> QED BY <1>1, <1>2

\* A reference to the object that is made is one to an object there is, and every value
\* that there was is one after it.
LEMMA Made ==
  ASSUME IInv, NEW op \in GoesOn, Fetch(op), NEW obj,
         Store(NewRef, Append(heap, obj)), IsObject(obj, Append(heap, obj))
  PROVE  IInv'
<1> DEFINE h == Append(heap, obj)
<1>1. IsHeap(h) /\ DOMAIN h = DOMAIN heap \cup {Len(heap) + 1}
  BY Typed, Allocating
<1>2. IsValue(NewRef, h)
  <2>1. NewRef = <<"obj", Len(heap) + 1>>
    BY DEF NewRef, RefV
  <2> HIDE DEF h
  <2> QED BY <1>1, <2>1 DEF IsValue, Fault
<1> HIDE DEF h
<1> QED BY <1>1, <1>2, Stored DEF IsResult, h

\* The registers that the opcodes read.
LEMMA ReadsByOpcode ==
  ASSUME NEW w
  PROVE  /\ w.op \in {"MOVE", "NOT"} => ReadsOf(w) = {GET_Bx(w)}
         /\ w.op \in BinaryOps \cup {"GET_INDEX"} => ReadsOf(w) = {GET_B(w), GET_C(w)}
         /\ w.op = "SET_INDEX" => ReadsOf(w) = {GET_A(w), GET_B(w), GET_C(w)}
         /\ w.op = "PUSH_LIST" => ReadsOf(w) = {GET_A(w)} \cup Run(GET_B(w), GET_C(w))
<1>1. w.op \in {"MOVE", "NOT"} => ReadsOf(w) = {GET_Bx(w)}
  BY DEF ReadsOf, BinaryOps, ArithmeticOps, OrderOps
<1>2. w.op \in BinaryOps \cup {"GET_INDEX"} => ReadsOf(w) = {GET_B(w), GET_C(w)}
  BY DEF ReadsOf, BinaryOps, ArithmeticOps, OrderOps
<1>3. w.op = "SET_INDEX" => ReadsOf(w) = {GET_A(w), GET_B(w), GET_C(w)}
  BY DEF ReadsOf, BinaryOps, ArithmeticOps, OrderOps
<1>4. w.op = "PUSH_LIST" => ReadsOf(w) = {GET_A(w)} \cup Run(GET_B(w), GET_C(w))
  BY DEF ReadsOf, BinaryOps, ArithmeticOps, OrderOps
<1> QED BY <1>1, <1>2, <1>3, <1>4

\* LOADK and MOVE: a constant refers to nothing, a register's value is one.
LEMMA LoadStep == IInv /\ (LoadK \/ Move) => IInv'
<1> SUFFICES ASSUME IInv, LoadK \/ Move PROVE IInv'
  OBVIOUS
<1>1. CASE LoadK
  <2>1. Fetch("LOADK") /\ (Stops \/ Store(constants[bx + 1], heap))
    BY <1>1, WaysToStop DEF LoadK
  <2>2. IsConstant(constants[bx + 1])
    BY <2>1, Fetched
  <2>3. IsResult(constants[bx + 1], heap)
    BY <2>2 DEF IsConstant, IsResult, IsValue
  <2> QED BY <2>1, <2>3, Typed, Stopped, Stored DEF GoesOn
<1>2. CASE Move
  <2>1. Fetch("MOVE") /\ Store(R[bx], heap)
    BY <1>2 DEF Move
  <2>2. bx \in FrameRegisters
    BY <2>1, Fetched, ReadsByOpcode DEF bx
  <2>3. IsResult(R[bx], heap)
    BY <2>2, Typed DEF IsResult
  <2> QED BY <2>1, <2>3, Typed, Stored DEF GoesOn
<1> QED BY <1>1, <1>2

\* The operands of a binary operator are registers.
LEMMA Operands ==
  ASSUME IInv, NEW op \in BinaryOps \cup {"GET_INDEX"}, Fetch(op)
  PROVE  /\ b \in FrameRegisters /\ c \in FrameRegisters
         /\ IsValue(R[b], heap) /\ IsValue(R[c], heap)
         /\ op \in GoesOn
<1>1. instr.op \in BinaryOps \cup {"GET_INDEX"}
  BY Fetched
<1>2. ReadsOf(instr) = {b, c}
  BY <1>1, ReadsByOpcode DEF b, c
<1> QED BY <1>2, Fetched, Typed DEF GoesOn

\* The operators that compute a value.
LEMMA OperateStep ==
  IInv /\ ((\E op \in BinaryOps : Operate(op)) \/ Negate \/ LogicalNot) => IInv'
<1> SUFFICES ASSUME IInv, (\E op \in BinaryOps : Operate(op)) \/ Negate \/ LogicalNot
             PROVE  IInv'
  OBVIOUS
<1>1. CASE \E op \in BinaryOps : Operate(op)
  <2>1. PICK op \in BinaryOps : Operate(op)
    BY <1>1
  <2>2. Fetch(op) /\ Store(Binary(op, R[b], R[c]), heap)
    BY <2>1 DEF Operate
  <2>3. IsValue(R[b], heap) /\ IsValue(R[c], heap) /\ op \in GoesOn
    BY <2>2, Operands
  <2>4. IsResult(Binary(op, R[b], R[c]), heap)
    BY <2>3, BinaryResult
  <2> QED BY <2>2, <2>3, <2>4, Typed, Stored
<1>2. CASE Negate
  <2>1. Fetch("UNM") /\ Store(Unary("UNM", R[Low(instr)]), heap)
    BY <1>2 DEF Negate
  <2>2. IsResult(Unary("UNM", R[Low(instr)]), heap)
    BY UnaryResult
  <2> QED BY <2>1, <2>2, Typed, Stored DEF GoesOn
<1>3. CASE LogicalNot
  <2>1. Fetch("NOT") /\ Store(Unary("NOT", R[bx]), heap)
    BY <1>3 DEF LogicalNot
  <2>2. IsResult(Unary("NOT", R[bx]), heap)
    BY UnaryResult
  <2> QED BY <2>1, <2>2, Typed, Stored DEF GoesOn
<1> QED BY <1>1, <1>2, <1>3

\* A value that is a list, or a dictionary, refers to an object of that kind.
LEMMA Referred ==
  ASSUME IInv, NEW v, IsValue(v, heap)
  PROVE  /\ IsRef(v) => v[2] \in DOMAIN heap /\ IsObject(heap[v[2]], heap)
         /\ IsList(v) => /\ v[2] \in DOMAIN heap
                         /\ IsObject(heap[v[2]], heap)
                         /\ heap[v[2]].kind = "list"
                         /\ IsListOf(heap[v[2]].at, heap)
<1>1. IsRef(v) => v[2] \in DOMAIN heap /\ IsObject(heap[v[2]], heap)
  BY Typed DEF IsValue, IsHeap
<1>2. IsList(v) => heap[v[2]].kind = "list" /\ IsRef(v)
  BY DEF IsList
<1>3. IsList(v) => IsListOf(heap[v[2]].at, heap)
  BY <1>1, <1>2, ObjectFields
<1> QED BY <1>1, <1>2, <1>3

\* A list that is made of values, the new list among them, is an object after it is made.
LEMMA NewObject ==
  ASSUME IInv, NEW obj,
         IsObject(obj, heap)
  PROVE  IsObject(obj, Append(heap, obj))
<1>1. DOMAIN heap \subseteq DOMAIN Append(heap, obj)
  BY Typed, Appending DEF IsHeap
<1> QED BY <1>1, ValuesStay

\* A copy of a list that goes on with values, the copy itself among them, or a list that
\* has no room.
LEMMA LongerStored ==
  ASSUME IInv, NEW op \in GoesOn, Fetch(op), NEW list, NEW s,
         IsObject(list, heap), list.kind = "list", StoreLonger(list, s),
         IsListOf(s, Append(heap, Lengthened(list, s)))
  PROVE  IInv'
<1> DEFINE obj == Lengthened(list, s)
           h == Append(heap, obj)
<1>1. Stops \/ Store(NewRef, h)
  BY WaysToStop DEF StoreLonger
<1>2. DOMAIN heap \subseteq DOMAIN h
  <2> HIDE DEF obj
  <2> QED BY Typed, Appending DEF IsHeap
<1>3. IsObject(obj, h)
  <2> HIDE DEF h
  <2>1. IsListOf(s, h)
    BY DEF h
  <2> QED BY <1>2, <2>1, Appends
<1> HIDE DEF obj
<1> QED BY <1>1, <1>3, Stopped, Made

\* list + v, where v may be the new list itself.
LEMMA AddStep == IInv /\ AddToList => IInv'
<1> SUFFICES ASSUME IInv, AddToList PROVE IInv'
  OBVIOUS
<1> DEFINE list == heap[R[b][2]]
           v == IF c = a THEN NewRef ELSE R[c]
           obj == Lengthened(list, <<v>>)
           h == Append(heap, obj)
<1>1. Fetch("ADD") /\ IsList(R[b]) /\ StoreLonger(list, <<v>>)
  BY DEF AddToList
<1>2. IsValue(R[b], heap) /\ IsValue(R[c], heap) /\ "ADD" \in GoesOn
  BY <1>1, Operands DEF BinaryOps, ArithmeticOps
<1>3. IsObject(list, heap) /\ list.kind = "list"
  BY <1>1, <1>2, Referred
<1>4. DOMAIN h = DOMAIN heap \cup {Len(heap) + 1}
  <2> HIDE DEF obj
  <2> QED BY Typed, Appending DEF IsHeap
<1>5. IsValue(v, h)
  <2> HIDE DEF h
  <2>1. IsValue(NewRef, h)
    BY <1>4 DEF IsValue, Fault, NewRef, RefV
  <2>2. IsValue(R[c], h)
    BY <1>2, <1>4, ValuesStay
  <2> QED BY <2>1, <2>2
<1>6. IsListOf(<<v>>, h)
  <2> HIDE DEF h, v
  <2> QED BY <1>5, SingleList
<1>7. IsListOf(<<v>>, Append(heap, Lengthened(list, <<v>>)))
  BY <1>6
<1> HIDE DEF list, v, obj, h
<1> QED BY <1>1, <1>2, <1>3, <1>7, LongerStored

\* list * n.
LEMMA RepeatStep == IInv /\ RepeatList => IInv'
<1> SUFFICES ASSUME IInv, RepeatList PROVE IInv'
  OBVIOUS
<1> DEFINE list == heap[R[b][2]]
           times == IF R[c][2] \in Nat THEN R[c][2] ELSE 0
           s == InARow(list.at, times)
           obj == Lengthened(list, s)
<1>1. Fetch("MUL") /\ IsList(R[b]) /\ (Stops \/ StoreLonger(list, s))
  BY WaysToStop DEF RepeatList
<1>2. IsValue(R[b], heap) /\ "MUL" \in GoesOn
  BY <1>1, Operands DEF BinaryOps, ArithmeticOps
<1>3. IsObject(list, heap) /\ list.kind = "list" /\ IsListOf(list.at, heap)
  BY <1>1, <1>2, Referred
<1>4. times \in Nat
  OBVIOUS
<1> HIDE DEF times, list
<1>5. IsListOf(s, heap)
  BY <1>3, <1>4, Repeating
<1> HIDE DEF s
<1>6. DOMAIN heap \subseteq DOMAIN Append(heap, obj)
  <2> HIDE DEF obj
  <2> QED BY Typed, Appending DEF IsHeap
<1>7. IsListOf(s, Append(heap, obj))
  BY <1>5, <1>6, ValuesStay
<1> QED BY <1>1, <1>2, <1>3, <1>7, Stopped, LongerStored

\* A list and a dictionary when they are made.
LEMMA NewObjects ==
  ASSUME NEW objects, NEW capacity, NEW fixed \in BOOLEAN
  PROVE  /\ IsObject(NewList(capacity, fixed), objects)
         /\ NewList(capacity, fixed).kind = "list"
         /\ capacity \in Nat => IsObject(NewDict(capacity, fixed), objects)
<1>1. DOMAIN <<>> = {}
  OBVIOUS
<1>2. IsSequence(<<>>)
  BY EmptySeq, TypedSequence
<1>3. IsListOf(<<>>, objects)
  BY <1>1, <1>2 DEF IsListOf
<1>4. IsObject(NewList(capacity, fixed), objects)
  BY <1>3, ListObject DEF NewList
<1> DEFINE dict == NewDict(capacity, fixed)
<1>5. /\ dict = [kind |-> "dict", at |-> <<>>, capacity |-> capacity, fixed |-> fixed,
                 count |-> 0]
      /\ dict.at = <<>> /\ dict.capacity = capacity /\ dict.fixed = fixed /\ dict.count = 0
  BY DEF NewDict
<1> HIDE DEF dict
<1>6. ASSUME capacity \in Nat PROVE IsObject(dict, objects)
  <2>1. IsStored(dict)
    BY <1>5, <1>6 DEF IsStored
  <2> QED BY <1>1, <1>5, <2>1 DEF IsObject
<1> QED BY <1>4, <1>6 DEF NewList, dict

\* list <> list, and a list in a text.
LEMMA ConcatStep == IInv /\ (ConcatLists \/ ConcatList) => IInv'
<1> SUFFICES ASSUME IInv, ConcatLists \/ ConcatList PROVE IInv'
  OBVIOUS
<1>0. "CONCAT" \in BinaryOps /\ "CONCAT" \in GoesOn
  BY DEF BinaryOps, GoesOn
<1>1. CASE ConcatLists
  <2> DEFINE left == IF b = a THEN <<>> ELSE heap[R[b][2]].at
             right == IF c = a THEN <<>> ELSE heap[R[c][2]].at
             n == Len(heap[R[b][2]].at) + Len(heap[R[c][2]].at)
             obj == Lengthened(NewList(n, FALSE), left \o right)
  <2>1. /\ Fetch("CONCAT") /\ IsList(R[b]) /\ IsList(R[c])
        /\ Store(NewRef, Append(heap, obj))
    BY <1>1 DEF ConcatLists
  <2>2. IsListOf(heap[R[b][2]].at, heap) /\ IsListOf(heap[R[c][2]].at, heap)
    BY <1>0, <2>1, Operands, Referred
  <2>3. IsListOf(<<>>, heap)
    <3>1. DOMAIN <<>> = {}
      OBVIOUS
    <3>2. IsSequence(<<>>)
      BY EmptySeq, TypedSequence
    <3> QED BY <3>1, <3>2 DEF IsListOf
  <2>4. IsListOf(left, heap) /\ IsListOf(right, heap)
    BY <2>2, <2>3
  <2> HIDE DEF left, right
  <2>5. IsListOf(left \o right, heap)
    BY <2>4, Concatenating
  <2> HIDE DEF n
  <2>6. IsObject(NewList(n, FALSE), heap) /\ NewList(n, FALSE).kind = "list"
    BY NewObjects
  <2>7. IsObject(obj, heap)
    BY <2>5, <2>6, Appends
  <2> HIDE DEF obj
  <2>8. IsObject(obj, Append(heap, obj))
    BY <2>7, NewObject
  <2> QED BY <1>0, <2>1, <2>8, Made
<1>2. CASE ConcatList
  <2> DEFINE v == IF IsString(R[b]) \/ IsString(R[c]) THEN Concat(R[b], R[c]) ELSE Fault
  <2>1. Fetch("CONCAT") /\ Store(v, heap)
    BY <1>2 DEF ConcatList
  <2>2. Plain(v)
    BY MadeValues DEF Concat
  <2> HIDE DEF v
  <2>3. IsResult(v, heap)
    BY <2>2, PlainResult
  <2> QED BY <1>0, <2>1, <2>3, Typed, Stored
<1> QED BY <1>1, <1>2

\* CREATE_LIST and CREATE_DICT.
LEMMA CreateStep == IInv /\ (CreateList \/ CreateDict) => IInv'
<1> SUFFICES ASSUME IInv, CreateList \/ CreateDict PROVE IInv'
  OBVIOUS
<1>1. CASE CreateList
  <2> DEFINE n == IF CapacityOf(instr) > -1 THEN R[CapacityOf(instr)][2] ELSE 0
             obj == NewList(n, c # 0)
  <2>1. Fetch("CREATE_LIST") /\ (Stops \/ Store(NewRef, Append(heap, obj)))
    BY <1>1, WaysToStop DEF CreateList
  <2>2. IsObject(obj, heap)
    <3> HIDE DEF n
    <3> QED BY NewObjects
  <2> HIDE DEF obj
  <2>3. IsObject(obj, Append(heap, obj))
    BY <2>2, NewObject
  <2> QED BY <2>1, <2>3, Made, Stopped DEF GoesOn
<1>2. CASE CreateDict
  <2> DEFINE obj == NewDict(b, c # 0)
  <2>1. Fetch("CREATE_DICT") /\ Store(NewRef, Append(heap, obj))
    BY <1>2 DEF CreateDict
  <2>2. b \in Nat
    BY <2>1, Fetched, FieldTypes DEF b
  <2>3. IsObject(obj, heap)
    BY <2>2, NewObjects
  <2> HIDE DEF obj
  <2>4. IsObject(obj, Append(heap, obj))
    BY <2>3, NewObject
  <2> QED BY <2>1, <2>4, Made DEF GoesOn
<1> QED BY <1>1, <1>2

\* The object that R[a] refers to goes on with what it had, and nothing else changes.
Changes(obj) == /\ IsRef(R[a]) /\ R[a][2] \in DOMAIN heap
                /\ IsObject(obj, heap) /\ Extends(heap[R[a][2]], obj)
                /\ heap' = [heap EXCEPT ![R[a][2]] = obj]
                /\ UNCHANGED <<R, written>>
                /\ GoTo(pc + 1)

\* PUSH_LIST: the values come from registers, one after the other.
LEMMA Pushes ==
  ASSUME IInv, PushList
  PROVE  Fetch("PUSH_LIST") /\ (Stops \/ \E obj : Changes(obj))
<1>1. Fetch("PUSH_LIST")
  BY DEF PushList
<1> DEFINE list == heap[R[a][2]]
           pushed == [k \in 1 .. c |-> R[b + k - 1]]
           obj == Lengthened(list, pushed)
<1>2. CASE ~(IsList(R[a]) /\ HasRoom(list, pushed))
  BY <1>1, <1>2, WaysToStop DEF PushList
<1>3. CASE IsList(R[a]) /\ HasRoom(list, pushed)
  <2>1. {a} \cup Run(b, c) \subseteq FrameRegisters
    BY <1>1, Fetched, ReadsByOpcode DEF a, b, c
  <2>2. IsValue(R[a], heap)
    BY <2>1, Typed
  <2>3. /\ IsRef(R[a]) /\ R[a][2] \in DOMAIN heap
        /\ IsObject(list, heap) /\ list.kind = "list"
    BY <1>3, <2>2, Referred DEF IsList
  <2>4. /\ heap' = [heap EXCEPT ![R[a][2]] = obj]
        /\ UNCHANGED <<R, written>> /\ GoTo(pc + 1)
    BY <1>3 DEF PushList
  <2>5. IsListOf(pushed, heap)
    <3>1. c \in Nat /\ b \in Nat
      BY <1>1, Fetched, FieldTypes DEF b, c
    <3>2. \A k \in 1 .. c : b + k - 1 \in Run(b, c)
      BY <3>1 DEF Run
    <3>3. \A k \in 1 .. c : pushed[k] = R[b + k - 1] /\ b + k - 1 \in FrameRegisters
      BY <2>1, <3>2
    <3>4. pushed = [k \in 1 .. c |-> pushed[k]]
      OBVIOUS
    <3> HIDE DEF pushed
    <3>5. IsSequence(pushed) /\ DOMAIN pushed = 1 .. c
      BY <3>1, <3>4, FunctionIsSequence
    <3> QED BY <3>3, <3>5, Typed DEF IsListOf
  <2> HIDE DEF pushed
  <2>6. IsObject(obj, heap) /\ Extends(list, obj)
    <3> HIDE DEF list
    <3> QED BY <2>3, <2>5, Appends
  <2> HIDE DEF obj
  <2>7. Changes(obj)
    BY <2>3, <2>4, <2>6 DEF Changes
  <2> QED BY <1>1, <2>7
<1> QED BY <1>2, <1>3

\* How a store ends.
LEMMA StoreOutcomes ==
  ASSUME NEW obj, NEW key
  PROVE  SetEnds(obj, key) \in {"running", "error", "crash", "spin", Overrun}
<1>1. \A dict : Probed(dict, key) \in {"running", "crash", "spin"}
  BY DEF Probed
<1>2. SetInDict(obj, key) \in {"running", "error", "crash", "spin"}
  BY <1>1 DEF SetInDict
<1>3. SetInList(obj, key) \in {"running", "error", Overrun}
  BY DEF SetInList
<1> QED BY <1>2, <1>3 DEF SetEnds

\* SET_INDEX, of a list and of a dictionary.
LEMMA Sets ==
  ASSUME IInv, SetIndex
  PROVE  Fetch("SET_INDEX") /\ (Stops \/ \E obj : Changes(obj))
<1>1. Fetch("SET_INDEX")
  BY DEF SetIndex
<1> DEFINE end == SetEnds(heap[R[a][2]], R[b])
<1>2. end \in {"running", "error", "crash", "spin", Overrun}
  BY StoreOutcomes
<1>3. CASE ~IsRef(R[a]) \/ end # "running"
  <2>1. CASE ~IsRef(R[a])
    BY <1>1, <2>1, WaysToStop DEF SetIndex
  <2>2. CASE IsRef(R[a]) /\ end = Overrun
    BY <1>1, <2>2, WaysToStop DEF SetIndex
  <2>3. CASE IsRef(R[a]) /\ end \notin {"running", Overrun}
    <3>1. Ends(end) /\ end \in {"error", "crash", "spin"}
      BY <1>2, <2>3 DEF SetIndex
    <3> QED BY <1>1, <3>1, WaysToStop
  <2> QED BY <1>2, <1>3, <2>1, <2>2, <2>3
<1>4. CASE IsRef(R[a]) /\ end = "running"
  <2> DEFINE obj == SetAt(heap[R[a][2]], R[b], R[c])
  <2>1. /\ heap' = [heap EXCEPT ![R[a][2]] = obj]
        /\ UNCHANGED <<R, written>> /\ GoTo(pc + 1)
    BY <1>4 DEF SetIndex, Overrun
  <2>2. {a, b, c} \subseteq FrameRegisters
    BY <1>1, Fetched, ReadsByOpcode DEF a, b, c
  <2>3. IsValue(R[a], heap) /\ IsValue(R[c], heap)
    BY <2>2, Typed
  <2>4. R[a][2] \in DOMAIN heap /\ IsObject(heap[R[a][2]], heap)
    BY <1>4, <2>3, Referred
  <2>5. IsObject(obj, heap) /\ Extends(heap[R[a][2]], obj)
    BY <2>3, <2>4, Setting
  <2> HIDE DEF obj
  <2>6. Changes(obj)
    BY <1>4, <2>1, <2>4, <2>5 DEF Changes
  <2> QED BY <1>1, <2>6
<1> QED BY <1>3, <1>4

\* PUSH_LIST and SET_INDEX.
LEMMA ChangeStep == IInv /\ (PushList \/ SetIndex) => IInv'
<1> SUFFICES ASSUME IInv, PushList \/ SetIndex PROVE IInv'
  OBVIOUS
<1>1. PICK op \in {"PUSH_LIST", "SET_INDEX"} : Fetch(op) /\ (Stops \/ \E obj : Changes(obj))
  BY Pushes, Sets
<1>2. CASE Stops
  BY <1>1, <1>2, Stopped
<1>3. CASE \E obj : Changes(obj)
  <2>1. PICK obj : Changes(obj)
    BY <1>3
  <2>2. /\ R[a][2] \in DOMAIN heap /\ IsObject(obj, heap)
        /\ heap' = [heap EXCEPT ![R[a][2]] = obj]
        /\ UNCHANGED <<R, written>> /\ GoTo(pc + 1)
    BY <2>1 DEF Changes
  <2>3. SuccessorsOf(instr, pc + 1) = {pc + 1 + 1}
    BY <1>1, Fetched, NextOne
  <2>4. pc' \in 0 .. Len(instructions) /\ pc' < Len(instructions) /\ status' = "running"
    <3>1. pc + 1 \in Int
      BY <1>1, Fetched
    <3> QED BY <1>1, <2>2, <2>3, <3>1, Reaches
  <2>5. IsHeap(heap') /\ DOMAIN heap' = DOMAIN heap
    BY <2>2, Typed, Changing
  <2>6. \A r \in FrameRegisters : IsValue(R'[r], heap')
    BY <2>2, <2>5, Typed, ValuesStay
  <2>7. DOMAIN R' = FrameRegisters /\ written' \subseteq FrameRegisters
    BY <2>2, Typed
  <2> QED BY <1>1, <2>4, <2>5, <2>6, <2>7, Kept
<1> QED BY <1>1, <1>2, <1>3

\* GET_INDEX reads a list, or a dictionary, whose value it drops, or ends the run.
LEMMA Gets ==
  ASSUME GetIndex
  PROVE  /\ Fetch("GET_INDEX")
         /\ \/ Stops
            \/ IsList(R[b]) /\ Store(ListAt(heap[R[b][2]].at, R[c][2]), heap)
            \/ IsDict(R[b]) /\ UNCHANGED <<R, heap, written>> /\ GoTo(pc + 1)
<1>1. Fetch("GET_INDEX")
  BY DEF GetIndex
<1>2. IsList(R[b]) => ~IsDict(R[b])
  BY DEF IsList, IsDict
<1>3. CASE IsList(R[b]) /\ IsInt(R[c])
  <2>1. Store(ListAt(heap[R[b][2]].at, R[c][2]), heap)
    BY <1>2, <1>3 DEF GetIndex
  <2> QED BY <1>1, <1>3, <2>1
<1>4. CASE IsDict(R[b])
  <2> DEFINE end == GetEnds(heap[R[b][2]], R[c])
  <2>1. IF end # "running" THEN Ends(end)
        ELSE UNCHANGED <<R, heap, written>> /\ GoTo(pc + 1)
    BY <1>2, <1>4 DEF GetIndex
  <2>2. end \in {"running", "error", "crash", "spin"}
    <3>1. Probed(heap[R[b][2]], R[c]) \in {"running", "crash", "spin"}
      BY DEF Probed
    <3> QED BY <3>1 DEF GetEnds
  <2> HIDE DEF end
  <2> QED BY <1>1, <1>4, <2>1, <2>2, WaysToStop
<1>5. CASE ~(IsList(R[b]) /\ IsInt(R[c])) /\ ~IsDict(R[b])
  <2>1. Raise
    BY <1>5 DEF GetIndex
  <2> QED BY <1>1, <2>1, WaysToStop
<1> QED BY <1>3, <1>4, <1>5

\* GET_INDEX: an element of a list, or nothing done.
LEMMA GetStep == IInv /\ GetIndex => IInv'
<1> SUFFICES ASSUME IInv, GetIndex PROVE IInv'
  OBVIOUS
<1>1. Fetch("GET_INDEX")
  BY Gets
<1>2. IsValue(R[b], heap) /\ "GET_INDEX" \in GoesOn
  BY <1>1, Operands
<1>3. CASE Stops
  BY <1>1, <1>3, Stopped
<1>4. CASE IsList(R[b]) /\ Store(ListAt(heap[R[b][2]].at, R[c][2]), heap)
  <2>1. IsResult(ListAt(heap[R[b][2]].at, R[c][2]), heap)
    BY <1>2, <1>4, Referred, IndexResult
  <2> QED BY <1>1, <1>2, <1>4, <2>1, Typed, Stored
<1>5. CASE UNCHANGED <<R, heap, written>> /\ GoTo(pc + 1)
  <2>1. SuccessorsOf(instr, pc + 1) = {pc + 1 + 1}
    BY <1>1, <1>2, Fetched, NextOne
  <2>2. pc' \in 0 .. Len(instructions) /\ pc' < Len(instructions) /\ status' = "running"
    <3>1. pc + 1 \in Int
      BY <1>1, Fetched
    <3> QED BY <1>1, <1>5, <2>1, <3>1, Reaches
  <2> QED BY <1>1, <1>5, <2>2, Typed, Kept
<1> QED BY <1>3, <1>4, <1>5, Gets

\* The jumps and the end.
LEMMA JumpStep == IInv /\ (Jump \/ JumpIfFalse \/ Halt) => IInv'
<1> SUFFICES ASSUME IInv, Jump \/ JumpIfFalse \/ Halt PROVE IInv'
  OBVIOUS
<1>1. CASE Jump
  <2>1. /\ Fetch("JUMP") /\ GoTo(pc + 1 + GET_sBx(instr))
        /\ UNCHANGED <<R, heap, written>>
    BY <1>1 DEF Jump
  <2>2. pc \in Nat /\ GET_sBx(instr) \in Int
    BY <2>1, Fetched, FieldTypes
  <2>3. SuccessorsOf(instr, pc + 1) = {pc + 1 + 1 + GET_sBx(instr)}
    BY <2>1, Fetched DEF SuccessorsOf
  <2>4. pc + 1 + GET_sBx(instr) + 1 \in SuccessorsOf(instr, pc + 1)
    BY <2>2, <2>3
  <2>5. pc' \in 0 .. Len(instructions) /\ pc' < Len(instructions) /\ status' = "running"
    BY <2>1, <2>2, <2>4, Reaches
  <2> QED BY <2>1, <2>5, Typed, Kept
<1>2. CASE JumpIfFalse
  <2> DEFINE n == IF IsFalse(R[a]) THEN pc + 1 + bx ELSE pc + 1
  <2>1. Fetch("JUMP_IF_FALSE") /\ GoTo(n) /\ UNCHANGED <<R, heap, written>>
    BY <1>2 DEF JumpIfFalse
  <2>2. pc \in Nat /\ bx \in Nat
    BY <2>1, Fetched, FieldTypes DEF bx
  <2>3. SuccessorsOf(instr, pc + 1) = {pc + 1 + 1, pc + 1 + 1 + bx}
    BY <2>1, Fetched DEF SuccessorsOf, bx
  <2>4. n \in Int /\ n + 1 \in SuccessorsOf(instr, pc + 1)
    BY <2>2, <2>3
  <2> HIDE DEF n
  <2>5. pc' \in 0 .. Len(instructions) /\ pc' < Len(instructions) /\ status' = "running"
    BY <2>1, <2>4, Reaches
  <2> QED BY <2>1, <2>5, Typed, Kept
<1>3. CASE Halt
  <2>1. /\ Fetch("HALT") /\ status' = "halted" /\ pc' = pc + 1
        /\ UNCHANGED <<R, heap, written>>
    BY <1>3 DEF Halt
  <2>2. pc' \in 0 .. Len(instructions)
    BY <2>1, Fetched
  <2> QED BY <2>1, <2>2, Typed, Kept
<1> QED BY <1>1, <1>2, <1>3

\* A sound chunk is loaded into a machine that is idle.
LEMMA LoadsSound == IInv /\ LoadSound => IInv'
<1> SUFFICES ASSUME IInv, LoadSound PROVE IInv'
  OBVIOUS
<1>1. /\ status = "idle" /\ status' = "running"
      /\ Sound(instructions', constants')
      /\ pc' = pc /\ R' = R /\ heap' = heap /\ written' = written
  BY DEF LoadSound
<1>2. pc' = 0
  <2>1. Len(instructions) = 0
    BY <1>1 DEF IInv
  <2> QED BY <1>1, <2>1, Typed
<1>3. 0 < Len(instructions') /\ Len(instructions') \in Nat
  BY <1>1 DEF Sound
<1>4. TypeOK'
  BY <1>1, <1>2, <1>3 DEF IInv, TypeOK
<1> QED BY <1>1, <1>4 DEF IInv

\* The machine before a chunk is loaded.
LEMMA StartTyped == MachineInit => IInv
<1> SUFFICES ASSUME MachineInit PROVE IInv
  OBVIOUS
<1>1. IsSequence(heap) /\ DOMAIN heap = {}
  <2>1. DOMAIN <<>> = {}
    OBVIOUS
  <2> QED BY <2>1, EmptySeq, TypedSequence DEF MachineInit
<1>2. DOMAIN R = FrameRegisters /\ \A r \in FrameRegisters : R[r] = NaN
  BY DEF MachineInit, FrameRegisters
<1>3. IsValue(NaN, heap)
  BY DEF IsValue, NaN, Fault, IsRef
<1>4. Len(instructions) = 0
  BY DEF MachineInit
<1>5. status = "idle" /\ instructions = <<>> /\ pc \in 0 .. Len(instructions) /\ written = {}
  BY <1>4 DEF MachineInit
<1>6. TypeOK
  BY <1>1, <1>2, <1>3, <1>5 DEF TypeOK
<1> QED BY <1>5, <1>6 DEF IInv

\* No step of vm_run leaves the invariant.
LEMMA TypeStep == IInv /\ [LoadSound \/ Execute]_machine => IInv'
<1> SUFFICES ASSUME IInv, [LoadSound \/ Execute]_machine PROVE IInv'
  OBVIOUS
<1>1. CASE LoadSound
  BY <1>1, LoadsSound
<1>2. CASE Execute
  BY <1>2, LoadStep, OperateStep, AddStep, RepeatStep, ConcatStep, CreateStep, ChangeStep,
     GetStep, JumpStep DEF Execute
<1>3. CASE UNCHANGED machine
  BY <1>3 DEF machine, IInv, TypeOK
<1> QED BY <1>1, <1>2, <1>3

\* The invariant holds in every state of the machine.
LEMMA Invariant == MachineSpec => []IInv
  BY StartTyped, TypeStep, PTL DEF MachineSpec

\* Whatever sound code vm_run is given, the program counter stays in it until it ends,
\* no opcode leaves an error in a register, a list or a dictionary, and every reference
\* in them is to an object that was made: no register that vm_run has is passed.
THEOREM TypeCorrect == MachineSpec => []TypeOK
<1>1. IInv => TypeOK
  BY DEF IInv
<1> QED BY <1>1, Invariant, PTL

-----------------------------------------------------------------------------
(* Fresh reads.                                                              *)

\* What every path to the next instruction has written has been written.
FlowHolds == status = "running" => Flow(instructions)[pc + 1] \subseteq written

\* A step that goes on writes what its instruction is said to write, and goes where it is
\* said to go.
Advances == status' = "running" => /\ pc' + 1 \in SuccessorsOf(instr, pc + 1)
                                   /\ written \cup WritesOf(instr) \subseteq written'

\* Then what every path to its successor has written has been.
LEMMA FlowKept ==
  ASSUME IInv, FlowHolds, NEW op, Fetch(op), Advances
  PROVE  FlowHolds'
<1> SUFFICES ASSUME status' = "running" PROVE (Flow(instructions)[pc + 1] \subseteq written)'
  BY DEF FlowHolds
<1> DEFINE F == Flow(instructions)
<1>1. instructions' = instructions
  BY DEF Fetch
<1>2. /\ pc + 1 \in 1 .. Len(instructions)
      /\ status = "running"
      /\ Sound(instructions, constants)
  BY Fetched
<1>3. SoundAt(instructions, constants, F, pc + 1)
  BY <1>2 DEF Sound
<1>4. instr = instructions[pc + 1]
  BY DEF instr
<1> HIDE DEF F
<1>5. F[pc' + 1] \subseteq F[pc + 1] \cup WritesOf(instr)
  BY <1>3, <1>4 DEF SoundAt, Advances
<1>6. F[pc + 1] \subseteq written
  BY <1>2 DEF FlowHolds, F
<1>7. F[pc' + 1] \subseteq written'
  BY <1>5, <1>6 DEF Advances
<1> QED BY <1>1, <1>7 DEF F

\* The opcodes that write R[a], or end the run.
LEMMA StoreAdvances ==
  ASSUME IInv, NEW op \in GoesOn, Fetch(op), Stops \/ \E v, h : Store(v, h)
  PROVE  Advances
<1>1. CASE Stops
  BY <1>1 DEF Stops, Advances
<1>2. CASE \E v, h : Store(v, h)
  <2>1. Stops \/ (pc' = pc + 1 /\ written' = written \cup {a})
    BY <1>2, WaysToStop DEF Store, GoTo
  <2>2. SuccessorsOf(instr, pc + 1) = {pc + 1 + 1} /\ WritesOf(instr) = {a}
    BY Fetched, NextOne DEF a
  <2> QED BY <1>1, <2>1, <2>2 DEF Advances
<1> QED BY <1>1, <1>2

\* The opcodes that change an object.
LEMMA ChangeAdvances ==
  ASSUME IInv, NEW op \in {"PUSH_LIST", "SET_INDEX"}, Fetch(op),
         Stops \/ \E obj : Changes(obj)
  PROVE  Advances
<1>1. SuccessorsOf(instr, pc + 1) = {pc + 1 + 1}
  BY Fetched, NextOne
<1>2. WritesOf(instr) = {}
  BY Fetched DEF WritesOf, WritesNothing
<1>3. CASE Stops
  BY <1>3 DEF Stops, Advances
<1>4. CASE \E obj : Changes(obj)
  <2>1. written' = written /\ pc' = pc + 1
    BY <1>4 DEF Changes, GoTo
  <2> QED BY <1>1, <1>2, <2>1 DEF Advances
<1> QED BY <1>3, <1>4

\* Every opcode does what is said of it, but for OP_GET_INDEX of a dictionary.
LEMMA ExecuteAdvances ==
  ASSUME IInv, Execute, ~DropsValue
  PROVE  Advances /\ \E op : Fetch(op)
<1>1. CASE LoadK
  BY <1>1, WaysToStop, StoreAdvances DEF LoadK, GoesOn
<1>2. CASE Move
  BY <1>2, StoreAdvances DEF Move, GoesOn
<1>3. CASE \E op \in BinaryOps : Operate(op)
  BY <1>3, StoreAdvances DEF Operate, GoesOn
<1>4. CASE AddToList
  <2>1. Fetch("ADD") /\ (Stops \/ \E v, h : Store(v, h))
    BY <1>4, WaysToStop DEF AddToList, StoreLonger
  <2>2. "ADD" \in GoesOn
    BY DEF GoesOn, BinaryOps, ArithmeticOps
  <2> QED BY <2>1, <2>2, StoreAdvances
<1>5. CASE RepeatList
  <2>1. Fetch("MUL") /\ (Stops \/ \E v, h : Store(v, h))
    BY <1>5, WaysToStop DEF RepeatList, StoreLonger
  <2>2. "MUL" \in GoesOn
    BY DEF GoesOn, BinaryOps, ArithmeticOps
  <2> QED BY <2>1, <2>2, StoreAdvances
<1>6. CASE ConcatLists \/ ConcatList
  <2>1. Fetch("CONCAT") /\ \E v, h : Store(v, h)
    BY <1>6 DEF ConcatLists, ConcatList
  <2>2. "CONCAT" \in GoesOn
    BY DEF GoesOn, BinaryOps
  <2> QED BY <2>1, <2>2, StoreAdvances
<1>7. CASE Negate
  BY <1>7, StoreAdvances DEF Negate, GoesOn
<1>8. CASE LogicalNot
  BY <1>8, StoreAdvances DEF LogicalNot, GoesOn
<1>9. CASE CreateList
  <2>1. Fetch("CREATE_LIST") /\ (Stops \/ \E v, h : Store(v, h))
    BY <1>9, WaysToStop DEF CreateList
  <2> QED BY <2>1, StoreAdvances DEF GoesOn
<1>10. CASE CreateDict
  BY <1>10, StoreAdvances DEF CreateDict, GoesOn
<1>11. CASE PushList
  BY <1>11, Pushes, ChangeAdvances
<1>12. CASE SetIndex
  BY <1>12, Sets, ChangeAdvances
<1>13. CASE GetIndex
  <2>1. Fetch("GET_INDEX")
    BY <1>13, Gets
  <2>2. ~IsDict(R[b])
    BY <2>1, Fetched DEF DropsValue
  <2>3. Stops \/ \E v, h : Store(v, h)
    BY <1>13, <2>2, Gets
  <2> QED BY <2>1, <2>3, StoreAdvances DEF GoesOn
<1>14. CASE Jump
  <2>1. /\ Fetch("JUMP") /\ pc' = pc + 1 + GET_sBx(instr) /\ written' = written
    BY <1>14 DEF Jump, GoTo
  <2>2. pc \in Nat /\ GET_sBx(instr) \in Int
    BY <2>1, Fetched, FieldTypes
  <2>3. /\ SuccessorsOf(instr, pc + 1) = {pc + 1 + 1 + GET_sBx(instr)}
        /\ WritesOf(instr) = {}
    BY <2>1, Fetched DEF SuccessorsOf, WritesOf, WritesNothing
  <2> QED BY <2>1, <2>2, <2>3 DEF Advances
<1>15. CASE JumpIfFalse
  <2>1. /\ Fetch("JUMP_IF_FALSE") /\ (pc' = pc + 1 + bx \/ pc' = pc + 1)
        /\ written' = written
    BY <1>15 DEF JumpIfFalse, GoTo
  <2>2. pc \in Nat /\ bx \in Nat
    BY <2>1, Fetched, FieldTypes DEF bx
  <2>3. /\ SuccessorsOf(instr, pc + 1) = {pc + 1 + 1, pc + 1 + 1 + bx}
        /\ WritesOf(instr) = {}
    BY <2>1, Fetched DEF SuccessorsOf, WritesOf, WritesNothing, bx
  <2>4. pc' + 1 \in SuccessorsOf(instr, pc + 1)
    BY <2>1, <2>2, <2>3
  <2> QED BY <2>1, <2>3, <2>4 DEF Advances
<1>16. CASE Halt
  BY <1>16 DEF Halt, Advances
<1> QED BY <1>1, <1>2, <1>3, <1>4, <1>5, <1>6, <1>7, <1>8, <1>9, <1>10, <1>11, <1>12, <1>13,
           <1>14, <1>15, <1>16 DEF Execute

\* No step leaves FlowHolds: nothing is written before the first instruction, and
\* nothing need be.
LEMMA FlowStep ==
  IInv /\ FlowHolds /\ [LoadSound \/ Execute]_machine /\ [~DropsValue]_machine => FlowHolds'
<1> SUFFICES ASSUME IInv, FlowHolds, [LoadSound \/ Execute]_machine, [~DropsValue]_machine
             PROVE  FlowHolds'
  OBVIOUS
<1>1. CASE UNCHANGED machine
  BY <1>1 DEF machine, FlowHolds
<1>2. CASE LoadSound
  <2>1. /\ status = "idle" /\ pc' = pc
        /\ Sound(instructions', constants')
    BY <1>2 DEF LoadSound
  <2>2. pc' + 1 = 1
    <3>1. Len(instructions) = 0
      BY <2>1 DEF IInv
    <3> QED BY <2>1, <3>1, Typed
  <2>3. Flow(instructions')[1] = {}
    BY <2>1 DEF Sound
  <2> QED BY <2>2, <2>3 DEF FlowHolds
<1>3. CASE Execute /\ ~DropsValue
  BY <1>3, ExecuteAdvances, FlowKept
<1> QED BY <1>1, <1>2, <1>3

\* What an instruction of sound code reads is written on every path to it.
LEMMA FlowIsEnough == IInv /\ FlowHolds => FreshReads
<1> SUFFICES ASSUME IInv, FlowHolds, status = "running" PROVE Reads \subseteq written
  BY DEF FreshReads
<1>1. pc \in 0 .. Len(instructions) /\ pc < Len(instructions) /\ Sound(instructions, constants)
  BY DEF IInv, TypeOK
<1>2. pc + 1 \in 1 .. Len(instructions)
  BY <1>1 DEF Sound
<1> DEFINE F == Flow(instructions)
<1>3. SoundAt(instructions, constants, F, pc + 1)
  BY <1>1, <1>2 DEF Sound
<1> HIDE DEF F
<1>4. Reads \subseteq F[pc + 1]
  BY <1>3 DEF SoundAt, Reads, instr
<1> QED BY <1>4 DEF FlowHolds, F

\* Whatever sound code vm_run is given, and whichever way its jumps go, no instruction
\* reads a register before it is written, unless OP_GET_INDEX has dropped the value of a
\* dictionary that it should have written: then what was in the register before is read.
THEOREM ReadsAreFresh == MachineSpec /\ [][~DropsValue]_machine => []FreshReads
<1>1. MachineInit => FlowHolds
  BY DEF MachineInit, FlowHolds
<1>2. IInv /\ FlowHolds /\ [LoadSound \/ Execute]_machine /\ [~DropsValue]_machine => FlowHolds'
  BY FlowStep
<1>3. IInv /\ FlowHolds => FreshReads
  BY FlowIsEnough
<1> QED BY <1>1, <1>2, <1>3, Invariant, PTL DEF MachineSpec

-----------------------------------------------------------------------------
(* Objects stay.                                                             *)

\* A step that changes no object that there is.
LEMMA OthersRemain ==
  ASSUME IInv, \A k \in DOMAIN heap : k \in DOMAIN heap' /\ heap'[k] = heap[k]
  PROVE  ObjectsRemain
  BY DEF ObjectsRemain

\* An object that is made leaves the others as they were.
LEMMA StoreLeaves ==
  ASSUME IInv, NEW v, NEW h, Store(v, h), h = heap \/ \E obj : h = Append(heap, obj)
  PROVE  ObjectsRemain
<1>1. heap' = heap \/ heap' = h
  BY WaysToStop DEF Store, Stops
<1>2. CASE heap' = heap
  BY <1>2, OthersRemain
<1>3. CASE \E obj : heap' = Append(heap, obj)
  <2>1. PICK obj : heap' = Append(heap, obj)
    BY <1>3
  <2>2. \A k \in DOMAIN heap : k \in DOMAIN heap' /\ heap'[k] = heap[k]
    BY <2>1, Typed, Appending DEF IsHeap
  <2> QED BY <2>2, OthersRemain
<1> QED BY <1>1, <1>2, <1>3

\* PUSH_LIST and SET_INDEX change the object that R[a] refers to, and it goes on with what
\* it had.
LEMMA ChangeLeaves == IInv /\ (PushList \/ SetIndex) => ObjectsRemain
<1> SUFFICES ASSUME IInv, PushList \/ SetIndex PROVE ObjectsRemain
  OBVIOUS
<1>1. instr.op \in {"PUSH_LIST", "SET_INDEX"} /\ (Stops \/ \E obj : Changes(obj))
  BY Pushes, Sets, Fetched
<1>2. CASE Stops
  BY <1>2, OthersRemain DEF Stops
<1>3. CASE \E obj : Changes(obj)
  <2>1. PICK obj : Changes(obj)
    BY <1>3
  <2> DEFINE n == R[a][2]
  <2>2. IsRef(R[a]) /\ n \in DOMAIN heap /\ Extends(heap[n], obj)
    BY <2>1 DEF Changes
  <2>3. heap' = [heap EXCEPT ![n] = obj]
    BY <2>1 DEF Changes
  <2>4. \A k \in DOMAIN heap : k \in DOMAIN heap' /\ heap'[k] = IF k = n THEN obj ELSE heap[k]
    BY <2>3
  <2>5. ASSUME NEW k \in DOMAIN heap
        PROVE  /\ heap'[k] # heap[k] => IsRef(R[a]) /\ n = k
               /\ Extends(heap[k], heap'[k])
    <3>1. CASE k = n
      BY <2>2, <2>4, <3>1
    <3>2. CASE k # n
      BY <2>4, <3>2 DEF Extends
    <3> QED BY <3>1, <3>2
  <2> HIDE DEF n
  <2> QED BY <1>1, <2>4, <2>5 DEF ObjectsRemain, Extends, n
<1> QED BY <1>1, <1>2, <1>3

\* The opcodes that write a register, and those that only go on.
LEMMA OthersLeave == IInv /\ Execute /\ ~PushList /\ ~SetIndex => ObjectsRemain
<1> SUFFICES ASSUME IInv, Execute, ~PushList, ~SetIndex PROVE ObjectsRemain
  OBVIOUS
<1>1. CASE heap' = heap
  BY <1>1, OthersRemain
<1>2. Stops => heap' = heap
  BY DEF Stops
<1>3. CASE AddToList \/ RepeatList \/ ConcatLists \/ CreateList \/ CreateDict
  <2>1. Stops \/ \E v, obj : Store(v, Append(heap, obj))
    <3>1. CASE AddToList \/ RepeatList
      BY <3>1, WaysToStop DEF AddToList, RepeatList, StoreLonger
    <3>2. CASE ConcatLists \/ CreateList \/ CreateDict
      BY <3>2, WaysToStop DEF ConcatLists, CreateList, CreateDict
    <3> QED BY <1>3, <3>1, <3>2
  <2> QED BY <1>1, <1>2, <2>1, StoreLeaves
<1>4. CASE LoadK \/ Move \/ (\E op \in BinaryOps : Operate(op)) \/ ConcatList \/ Negate
           \/ LogicalNot
  <2>1. Stops \/ \E v : Store(v, heap)
    BY <1>4, WaysToStop DEF LoadK, Move, Operate, ConcatList, Negate, LogicalNot
  <2> QED BY <1>1, <1>2, <2>1, StoreLeaves
<1>5. CASE GetIndex
  <2>1. heap' = heap \/ \E v : Store(v, heap)
    BY <1>2, <1>5, Gets
  <2> QED BY <1>1, <2>1, StoreLeaves
<1>6. CASE Jump \/ JumpIfFalse \/ Halt
  BY <1>1, <1>6 DEF Jump, JumpIfFalse, Halt
<1> QED BY <1>3, <1>4, <1>5, <1>6 DEF Execute

\* An object, once made, is there for as long as vm_run runs, of the same kind and as fixed
\* as it was.  Only PUSH_LIST and SET_INDEX change one, and only the one that R[a] refers to:
\* every other operator may copy values from register to register and into objects without
\* asking who else refers to them.  Nothing is taken from an object but keys that hash to
\* 0, from a dictionary that grows.
THEOREM ObjectsAreKept == MachineSpec => ObjectsKept
<1>1. IInv /\ [LoadSound \/ Execute]_machine => [ObjectsRemain]_machine
  <2> SUFFICES ASSUME IInv, LoadSound \/ Execute PROVE ObjectsRemain
    OBVIOUS
  <2>1. CASE LoadSound
    BY <2>1, OthersRemain DEF LoadSound
  <2>2. CASE Execute
    BY <2>2, ChangeLeaves, OthersLeave
  <2> QED BY <2>1, <2>2
<1> QED BY <1>1, Invariant, PTL DEF MachineSpec, ObjectsKept

=============================================================================
