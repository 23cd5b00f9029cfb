--------------------------- MODULE CallStackProofs ---------------------------
(***************************************************************************)
(* The windows of the frames never overlap, whatever the chunks, the       *)
(* number of frames and the size of the register stack, so a caller finds  *)
(* its registers as it left them.                                          *)
(***************************************************************************)
EXTENDS CallStack, DataLemmas

Frame == [chunk : Chunk, registers : 0 .. MaxStack, slot_count : Nat, result_base : Nat]
Cell == Value \cup {NaN}
Windows == UNION {[0 .. n - 1 -> Cell] : n \in Nat}

\* Tiled relates a frame to the next one only; a frame is below all later ones.
Below == \A f, g \in DOMAIN frames :
           f < g => frames[f].registers + frames[f].slot_count <= frames[g].registers

FrozenType == frozen \in Seq(Windows)

\* What every step preserves: a frame that is pushed starts above every frame
\* (Below), so no instruction reaches the window of a caller (CallersFrozen).
IInv == TypeOK /\ Tiled /\ Below /\ FrozenType /\ CallersFrozen

-----------------------------------------------------------------------------

\* The frames as a function: what TypeOK says, without sequences.
LEMMA FramesType ==
  ASSUME TypeOK
  PROVE  /\ Len(frames) \in Nat
         /\ DOMAIN frames = 1 .. Len(frames)
         /\ \A f \in 1 .. Len(frames) :
              /\ frames[f] \in Frame
              /\ frames[f].chunk \in Chunk
              /\ frames[f].registers \in 0 .. MaxStack
              /\ frames[f].slot_count \in Nat
              /\ frames[f].result_base \in Nat
         /\ frames # <<>> <=> Len(frames) > 0
<1>1. frames \in Seq(Frame)
  BY DEF TypeOK, Frame
<1>2. Len(frames) \in Nat /\ DOMAIN frames = 1 .. Len(frames)
  BY <1>1, LenProperties
<1>3. \A f \in 1 .. Len(frames) : frames[f] \in Frame
  BY <1>1, ElementOfSeq
<1>4. frames # <<>> <=> Len(frames) > 0
  BY <1>1, EmptySeq
<1> QED BY <1>2, <1>3, <1>4 DEF Frame

\* Every window lies in the used part of the register stack.
LEMMA WindowsInside ==
  ASSUME TypeOK, Tiled, Below, NEW f \in DOMAIN frames
  PROVE  /\ frames[f].registers + frames[f].slot_count <= stack_top
         /\ f < Len(frames) =>
              frames[f].registers + frames[f].slot_count <= Top.registers
         /\ stack_top = Top.registers + Top.slot_count
<1>1. Len(frames) \in DOMAIN frames /\ f <= Len(frames)
  BY FramesType
<1>2. stack_top = Top.registers + Top.slot_count
  BY <1>1 DEF Tiled, Top
<1>3. f < Len(frames) => frames[f].registers + frames[f].slot_count <= Top.registers
  BY <1>1 DEF Below, Top
<1>4. frames[f].registers \in Int /\ frames[f].slot_count \in Nat
      /\ Top.registers \in Int /\ Top.slot_count \in Nat
  BY <1>1, FramesType DEF Top
<1>5. f = Len(frames) => frames[f] = Top
  BY DEF Top
<1> QED BY <1>1, <1>2, <1>3, <1>4, <1>5, FramesType

\* A window is as it was when its cells are.
LEMMA WindowKept ==
  ASSUME NEW f \in Frame, NEW s, NEW t,
         \A c \in f.registers .. f.registers + f.slot_count - 1 : t[c] = s[c]
  PROVE  Window(f, t) = Window(f, s)
<1>1. f.registers \in Int /\ f.slot_count \in Nat
  BY DEF Frame
<1>2. \A r \in 0 .. f.slot_count - 1 :
        f.registers + r \in f.registers .. f.registers + f.slot_count - 1
  BY <1>1
<1> QED BY <1>2 DEF Window

\* The window of a frame, as TypeOK and Tiled leave it, is a function to values.
LEMMA WindowType ==
  ASSUME TypeOK, Tiled, Below, NEW f \in DOMAIN frames
  PROVE  Window(frames[f], stack) \in Windows
<1>1. /\ frames[f].registers \in Nat /\ frames[f].slot_count \in Nat
      /\ frames[f].registers + frames[f].slot_count <= MaxStack
  <2>1. /\ frames[f].registers \in Nat /\ frames[f].slot_count \in Nat
    BY FramesType, LimitAssumption
  <2>2. frames[f].registers + frames[f].slot_count <= stack_top
    BY WindowsInside
  <2>3. stack_top \in Nat /\ stack_top <= MaxStack
    BY DEF Tiled, TypeOK
  <2> QED BY <2>1, <2>2, <2>3, LimitAssumption
<1>2. \A r \in 0 .. frames[f].slot_count - 1 : stack[frames[f].registers + r] \in Cell
  <2>1. \A r \in 0 .. frames[f].slot_count - 1 : frames[f].registers + r \in Cells
    BY <1>1, LimitAssumption DEF Cells
  <2> QED BY <2>1 DEF TypeOK, Cell
<1> QED BY <1>1, <1>2 DEF Window, Windows

-----------------------------------------------------------------------------

\* vm_init establishes the invariant: one frame, which is nobody's caller.
LEMMA InitIInv == Init => IInv
<1> SUFFICES ASSUME Init PROVE IInv
  OBVIOUS
<1> DEFINE main == [chunk |-> Main, registers |-> 0, slot_count |-> slots[Main],
                    result_base |-> 0]
<1>1. main \in Frame
  BY ChunkAssumption, LimitAssumption DEF Frame
<1>2. /\ frames \in Seq(Frame) /\ Len(frames) = 1
      /\ DOMAIN frames = {1} /\ frames[1] = main /\ frames # <<>>
  BY <1>1 DEF Init
<1>3. TypeOK
  <2>1. frames \in Seq([chunk : Chunk, registers : 0 .. MaxStack, slot_count : Nat,
                        result_base : Nat])
    BY <1>2 DEF Frame
  <2>2. stack \in [Cells -> Value \cup {NaN}] /\ stack_top \in Nat /\ error \in BOOLEAN
    BY ChunkAssumption DEF Init
  <2>3. Len(frames) <= MaxFrames
    BY <1>2, LimitAssumption
  <2> QED BY <2>1, <2>2, <2>3 DEF TypeOK
<1>4. Tiled
  BY <1>2, ChunkAssumption, LimitAssumption DEF Init, Tiled
<1>5. Below
  BY <1>2 DEF Below
<1>6. FrozenType /\ CallersFrozen
  BY <1>2 DEF Init, FrozenType, CallersFrozen
<1> QED BY <1>3, <1>4, <1>5, <1>6 DEF IInv

\* An instruction of the running function is outside its callers' windows.
LEMMA SetRegisterKeeps ==
  ASSUME IInv, NEW r \in Nat, NEW v \in Value, SetRegister(r, v)
  PROVE  IInv'
<1> USE DEF IInv
<1>0. Running /\ r < Top.slot_count /\ stack' = [stack EXCEPT ![Top.registers + r] = v]
      /\ UNCHANGED <<frames, stack_top, error, frozen>>
  BY DEF SetRegister
<1>1. TypeOK' /\ Tiled' /\ Below' /\ FrozenType'
  BY <1>0 DEF TypeOK, Tiled, Below, FrozenType
<1>2. CallersFrozen'
  <2>1. ASSUME NEW f \in DOMAIN frozen
        PROVE  Window(frames[f], stack') = frozen[f]
    <3>1. f \in DOMAIN frames /\ f < Len(frames)
      <4>1. DOMAIN frozen = 1 .. Len(frozen)
        BY LenProperties DEF FrozenType
      <4>2. Len(frozen) = Len(frames) - 1
        BY <1>0 DEF CallersFrozen, Running
      <4>3. Len(frames) \in Nat /\ DOMAIN frames = 1 .. Len(frames)
        BY FramesType
      <4> QED BY <4>1, <4>2, <4>3
    <3>2. /\ frames[f].registers + frames[f].slot_count <= Top.registers
          /\ frames[f].registers \in Int /\ frames[f].slot_count \in Int
          /\ Top.registers \in Int
      BY <3>1, FramesType, WindowsInside DEF Top
    <3>3. \A c \in frames[f].registers .. frames[f].registers + frames[f].slot_count - 1 :
            c # Top.registers + r
      BY <3>2
    <3>4. \A c \in frames[f].registers .. frames[f].registers + frames[f].slot_count - 1 :
            stack'[c] = stack[c]
      BY <1>0, <3>3 DEF TypeOK
    <3> QED BY <3>1, <3>4, WindowKept, FramesType DEF CallersFrozen
  <2> QED BY <1>0, <2>1 DEF CallersFrozen
<1> QED BY <1>1, <1>2

\* vm_begin_call writes the registers of the new frame only, above all windows.
LEMMA BeginCallKeeps ==
  ASSUME IInv, NEW c \in Chunk, NEW b \in Nat, NEW a \in Nat, NEW n \in Nat,
         BeginCall(c, b, a, n)
  PROVE  IInv'
<1> USE DEF IInv
<1> DEFINE new == NewFrame(c, b)
<1>1. /\ Running /\ Len(frames) < MaxFrames /\ stack_top + slots[c] <= MaxStack
      /\ frames' = Append(frames, new)
      /\ stack_top' = stack_top + slots[c] /\ error' = error
      /\ frozen' = Append(frozen, Window(Top, stack))
  BY FramesType, LimitAssumption, ChunkAssumption
     DEF BeginCall, FramesOverflow, StackOverflows, TypeOK
<1>2. /\ Len(frames) \in DOMAIN frames /\ Top = frames[Len(frames)]
      /\ Top.registers \in Nat /\ Top.slot_count \in Nat
      /\ stack_top = Top.registers + Top.slot_count
      /\ slots[c] \in Nat /\ stack_top \in Nat /\ stack_top <= MaxStack
  <2>1. Len(frames) \in DOMAIN frames /\ Top = frames[Len(frames)]
    BY <1>1, FramesType DEF Running, Top
  <2>2. Top.registers \in Nat /\ Top.slot_count \in Nat
    BY <2>1, FramesType, LimitAssumption
  <2>3. stack_top = Top.registers + Top.slot_count
    BY <2>1, WindowsInside
  <2> QED BY <2>1, <2>2, <2>3, ChunkAssumption DEF TypeOK, Tiled
<1>3. new \in Frame
  BY <1>1, <1>2, LimitAssumption DEF NewFrame, Frame
<1>4. /\ frames' \in Seq(Frame) /\ Len(frames') = Len(frames) + 1
      /\ DOMAIN frames' = 1 .. Len(frames) + 1
      /\ \A j \in 1 .. Len(frames) : frames'[j] = frames[j]
      /\ frames'[Len(frames) + 1] = new
  BY <1>1, <1>3, Appended DEF TypeOK, Frame
<1>5. stack' \in [Cells -> Cell] /\ \A s \in Cells : s < stack_top => stack'[s] = stack[s]
  <2>1. \A s \in Cells : s \in Int
    BY DEF Cells
  <2>2. ASSUME NEW s \in Cells, s >= stack_top, s - stack_top < Arguments(c, a, n)
        PROVE  stack[Top.registers + a + (s - stack_top)] \in Cell
    <3>1. s - stack_top < Top.slot_count - a
      BY <1>2, <2>1, <2>2, ChunkAssumption DEF Arguments, AtMost
    <3>2. Top.registers + a + (s - stack_top) \in Cells
      <4>1. \A lo, k, t \in Nat :
              /\ t = lo + k /\ t <= MaxStack /\ s >= t /\ s - t < k - a
              => lo + a + (s - t) \in 0 .. MaxStack - 1
        BY <2>1, LimitAssumption
      <4> QED BY <1>2, <2>2, <3>1, <4>1 DEF Cells
    <3> QED BY <3>2 DEF TypeOK, Cell
  <2>3. stack \in [Cells -> Cell] /\ NaN \in Cell
    BY DEF TypeOK, Cell
  <2>4. \A s \in Cells : s < stack_top \/ s >= stack_top
    BY <1>2, <2>1
  <2> QED BY <2>2, <2>3, <2>4 DEF BeginCall
<1>6. TypeOK'
  <2>1. frames' \in Seq([chunk : Chunk, registers : 0 .. MaxStack, slot_count : Nat,
                         result_base : Nat])
    BY <1>4 DEF Frame
  <2>2. Len(frames') <= MaxFrames
    BY <1>1, <1>4, FramesType, LimitAssumption
  <2>3. stack' \in [Cells -> Value \cup {NaN}]
    BY <1>5 DEF Cell
  <2>4. stack_top' \in Nat /\ error' \in BOOLEAN
    BY <1>1, <1>2 DEF TypeOK
  <2> QED BY <2>1, <2>2, <2>3, <2>4 DEF TypeOK
<1>7. /\ new.chunk = c /\ new.registers = stack_top /\ new.slot_count = slots[c]
  BY DEF NewFrame
<1>8. Tiled'
  <2>1. ASSUME NEW f \in DOMAIN frames'
        PROVE  /\ frames'[f].slot_count = slots[frames'[f].chunk]
               /\ frames'[f].registers + frames'[f].slot_count =
                    IF f = Len(frames') THEN stack_top' ELSE frames'[f + 1].registers
    <3>1. CASE f = Len(frames) + 1
      BY <1>1, <1>4, <1>7, <3>1
    <3>2. CASE f = Len(frames)
      BY <1>2, <1>4, <1>7, <3>2, FramesType DEF Tiled
    <3>3. CASE f \in 1 .. Len(frames) - 1
      <4>1. f \in DOMAIN frames /\ f # Len(frames) /\ f + 1 \in 1 .. Len(frames)
            /\ f # Len(frames')
        BY <1>4, <3>3, FramesType
      <4> QED BY <1>4, <4>1, FramesType DEF Tiled
    <3> QED BY <1>4, <3>1, <3>2, <3>3, FramesType
  <2>2. frames' # <<>> /\ frames'[1] = frames[1] /\ frames # <<>>
    BY <1>1, <1>4, FramesType, EmptySeq DEF Running
  <2> QED BY <1>1, <2>1, <2>2 DEF Tiled
<1>9. Below'
  <2>1. ASSUME NEW f \in DOMAIN frames', NEW g \in DOMAIN frames', f < g
        PROVE  frames'[f].registers + frames'[f].slot_count <= frames'[g].registers
    <3>1. f \in DOMAIN frames /\ frames'[f] = frames[f]
      BY <1>4, <2>1, FramesType
    <3>2. CASE g = Len(frames) + 1
      BY <1>4, <1>7, <3>1, <3>2, WindowsInside
    <3>3. CASE g \in DOMAIN frames
      BY <1>4, <2>1, <3>1, <3>3, FramesType DEF Below
    <3> QED BY <1>4, <3>2, <3>3, FramesType
  <2> QED BY <2>1 DEF Below
<1>10. /\ frozen' \in Seq(Windows) /\ Len(frozen') = Len(frozen) + 1
       /\ DOMAIN frozen' = 1 .. Len(frozen) + 1
       /\ \A j \in 1 .. Len(frozen) : frozen'[j] = frozen[j]
       /\ frozen'[Len(frozen) + 1] = Window(Top, stack)
       /\ Len(frozen) = Len(frames) - 1 /\ DOMAIN frozen = 1 .. Len(frozen)
  <2>1. Window(Top, stack) \in Windows
    BY <1>2, WindowType
  <2>2. frozen \in Seq(Windows)
    BY DEF FrozenType
  <2>3. Len(frozen) = Len(frames) - 1
    BY <1>1 DEF CallersFrozen, Running
  <2> QED BY <1>1, <2>1, <2>2, <2>3, Appended, LenProperties
<1>11. CallersFrozen'
  <2>1. ASSUME NEW f \in DOMAIN frozen'
        PROVE  Window(frames'[f], stack') = frozen'[f]
    <3>1. f \in DOMAIN frames /\ frames'[f] = frames[f]
      BY <1>4, <1>10, FramesType
    <3>2. Window(frames[f], stack') = Window(frames[f], stack)
      <4>1. /\ frames[f].registers + frames[f].slot_count <= stack_top
            /\ frames[f].registers \in Nat /\ frames[f].slot_count \in Nat
            /\ frames[f] \in Frame
        BY <3>1, WindowsInside, FramesType
      <4>2. \A s \in frames[f].registers .. frames[f].registers + frames[f].slot_count - 1 :
              s \in Cells /\ s < stack_top
        <5>1. \A lo, k \in Nat : lo + k <= stack_top =>
                \A s \in lo .. lo + k - 1 : s \in 0 .. MaxStack - 1 /\ s < stack_top
          <6>1. /\ stack_top \in Nat /\ slots[c] \in Nat /\ MaxStack \in Nat
                /\ stack_top + slots[c] <= MaxStack
            BY <1>1, <1>2, LimitAssumption
          <6> QED BY <6>1
        <5> QED BY <4>1, <5>1 DEF Cells
      <4> QED BY <1>5, <4>1, <4>2, WindowKept
    <3>3. CASE f = Len(frozen) + 1
      BY <1>2, <1>10, <3>1, <3>2, <3>3, FramesType
    <3>4. CASE f \in DOMAIN frozen
      BY <1>10, <3>1, <3>2, <3>4 DEF CallersFrozen
    <3> QED BY <1>10, <3>3, <3>4, FramesType
  <2>2. frames' # <<>> /\ Len(frozen') = Len(frames') - 1
    BY <1>4, <1>10, FramesType, EmptySeq
  <2> QED BY <2>1, <2>2 DEF CallersFrozen
<1> QED BY <1>6, <1>8, <1>9, <1>10, <1>11 DEF FrozenType

\* vm_pop_frame, whatever wrote into the window of the caller before.
LEMMA PopFrameKeeps ==
  ASSUME IInv, Running, PopFrame, error' = error, stack' \in [Cells -> Cell],
         \A s \in Cells : stack'[s] # stack[s] => Len(frames) > 1 /\ s >= Caller.registers
  PROVE  IInv'
<1> USE DEF IInv
<1> DEFINE n == Len(frames) - 1
<1>1. /\ n \in Nat /\ n + 1 \in DOMAIN frames /\ Len(frames) = n + 1
      /\ Top = frames[n + 1] /\ frames[n + 1] \in Frame
      /\ frames' = SubSeq(frames, 1, n) /\ stack_top' = Top.registers
  BY FramesType DEF Running, PopFrame, Top
<1>2. /\ frames' \in Seq(Frame) /\ Len(frames') = n /\ DOMAIN frames' = 1 .. n
      /\ \A j \in 1 .. n : frames'[j] = frames[j] /\ j \in DOMAIN frames
  <2>1. frames \in Seq(Frame) /\ n \in 0 .. Len(frames)
    BY <1>1 DEF TypeOK, Frame
  <2> QED BY <1>1, <2>1, Popped, FramesType
<1>3. Top.registers \in 0 .. MaxStack
  BY <1>1, FramesType
<1>4. TypeOK'
  <2>1. Len(frames') <= MaxFrames
    BY <1>1, <1>2, LimitAssumption DEF TypeOK
  <2> QED BY <1>1, <1>2, <1>3, <2>1, LimitAssumption DEF TypeOK, Frame, Cell
<1>5. Tiled'
  <2>1. ASSUME NEW f \in DOMAIN frames'
        PROVE  /\ frames'[f].slot_count = slots[frames'[f].chunk]
               /\ frames'[f].registers + frames'[f].slot_count =
                    IF f = Len(frames') THEN stack_top' ELSE frames'[f + 1].registers
    <3>1. /\ f \in DOMAIN frames /\ frames'[f] = frames[f] /\ f # Len(frames)
          /\ f # n => frames'[f + 1] = frames[f + 1]
      BY <1>1, <1>2
    <3> QED BY <1>1, <1>2, <3>1 DEF Tiled
  <2>2. CASE n = 0
    <3>1. frames' = <<>> /\ Top = frames[1] /\ frames # <<>>
      <4>1. frames' = <<>>
        BY <1>2, <2>2, EmptySeq
      <4>2. Top = frames[1]
        <5>1. n + 1 = 1
          BY <2>2
        <5>2. Top = frames[n + 1]
          BY <1>1
        <5> HIDE DEF n
        <5> QED BY <5>1, <5>2
      <4> QED BY <4>1, <4>2 DEF Running
    <3> QED BY <1>1, <2>1, <3>1, LimitAssumption DEF Tiled
  <2>3. CASE n # 0
    <3>1. frames' # <<>> /\ frames'[1] = frames[1] /\ frames # <<>>
      <4>1. frames' # <<>>
        BY <1>1, <1>2, <2>3, EmptySeq
      <4>2. 1 \in 1 .. n
        BY <1>1, <2>3
      <4> QED BY <1>2, <4>1, <4>2 DEF Running
    <3> QED BY <1>1, <1>3, <2>1, <3>1, LimitAssumption DEF Tiled
  <2> QED BY <2>2, <2>3
<1>6. Below'
  BY <1>2 DEF Below
<1>7. Len(frozen) = n /\ frozen \in Seq(Windows)
  BY <1>1 DEF CallersFrozen, FrozenType, Running
<1>8. CASE n = 0
  <2>1. frozen = <<>>
    BY <1>7, <1>8, EmptySeq
  <2>2. frozen' = <<>> /\ frames' = <<>>
    BY <1>1, <1>8, <2>1, <1>2, EmptySeq DEF PopFrame
  <2> QED BY <1>4, <1>5, <1>6, <2>2 DEF FrozenType, CallersFrozen
<1>9. CASE n # 0
  <2>1. frozen # <<>> /\ n - 1 \in 0 .. Len(frozen)
    BY <1>1, <1>7, <1>9, EmptySeq
  <2>2. frozen' = SubSeq(frozen, 1, n - 1)
    BY <1>7, <2>1 DEF PopFrame
  <2>3. /\ frozen' \in Seq(Windows) /\ Len(frozen') = n - 1
        /\ DOMAIN frozen' = 1 .. n - 1 /\ DOMAIN frozen = 1 .. n
        /\ \A j \in 1 .. n - 1 : frozen'[j] = frozen[j]
    BY <1>7, <2>1, <2>2, Popped, LenProperties
  <2>4. Caller = frames[n] /\ n \in DOMAIN frames /\ Len(frames) # 1
    BY <1>1, <1>9, FramesType DEF Caller
  <2>5. ASSUME NEW f \in 1 .. n - 1
        PROVE  Window(frames'[f], stack') = frozen'[f]
    <3>1. /\ f \in DOMAIN frames /\ frames'[f] = frames[f] /\ frames[f] \in Frame
          /\ f < n /\ f < Len(frames)
      BY <1>1, <1>2, FramesType
    <3>2. /\ frames[f].registers + frames[f].slot_count <= Caller.registers
          /\ frames[f].registers \in Nat /\ frames[f].slot_count \in Nat
          /\ Caller.registers \in 0 .. MaxStack
      <4>1. frames[f].registers + frames[f].slot_count <= frames[n].registers
        BY <2>4, <3>1 DEF Below
      <4>2. frames[n].registers \in 0 .. MaxStack /\ frames[f].registers \in 0 .. MaxStack
            /\ frames[f].slot_count \in Nat
        BY <2>4, <3>1, FramesType
      <4> QED BY <2>4, <4>1, <4>2, LimitAssumption
    <3>3. \A s \in frames[f].registers .. frames[f].registers + frames[f].slot_count - 1 :
            s \in Cells /\ s < Caller.registers
      <4>1. \A lo, k \in Nat, hi \in 0 .. MaxStack : lo + k <= hi =>
              \A s \in lo .. lo + k - 1 : s \in 0 .. MaxStack - 1 /\ s < hi
        BY LimitAssumption
      <4> QED BY <3>2, <4>1 DEF Cells
    <3>4. Window(frames[f], stack') = Window(frames[f], stack)
      <4>1. \A s \in Cells : s < Caller.registers => ~(s >= Caller.registers)
        BY <3>2 DEF Cells
      <4> QED BY <3>1, <3>3, <4>1, WindowKept
    <3>5. Window(frames[f], stack) = frozen[f]
      <4>1. f \in DOMAIN frozen
        BY <1>1, <2>3
      <4> QED BY <4>1 DEF CallersFrozen
    <3> QED BY <2>3, <3>1, <3>4, <3>5
  <2>6. frames' # <<>>
    BY <1>2, <1>9, EmptySeq
  <2> QED BY <1>2, <1>4, <1>5, <1>6, <2>3, <2>5, <2>6 DEF FrozenType, CallersFrozen
<1> QED BY <1>8, <1>9

\* vm_finish_return reads the window that goes and writes the caller's.
LEMMA FinishReturnWrites ==
  ASSUME IInv, NEW b \in Int, NEW k \in Int, FinishReturn(b, k)
  PROVE  /\ stack' \in [Cells -> Cell]
         /\ \A s \in Cells : stack'[s] # stack[s] =>
              Len(frames) > 1 /\ s >= Caller.registers /\ s < Top.registers
<1> USE DEF IInv
<1>0. stack \in [Cells -> Cell] /\ NaN \in Cell /\ Len(frames) \in Nat
  BY FramesType DEF TypeOK, Cell
<1>1. CASE ~(Len(frames) > 1 /\ Returned(k) > 0)
  BY <1>0, <1>1 DEF FinishReturn
<1>2. CASE Len(frames) > 1 /\ Returned(k) > 0
  <2> DEFINE base == IF b < 0 THEN 0 ELSE b
             copied == AtMost(Returned(k), Top.slot_count - base)
             dest == Caller.result_base
             rank(s) == s - Caller.registers - dest
             written(s) == rank(s) \in 0 .. returns[Top.chunk] - 1 /\ InCaller(dest + rank(s))
  <2>1. /\ b <= Top.slot_count
        /\ stack' = [s \in Cells |-> IF ~written(s) THEN stack[s]
                                     ELSE IF rank(s) < copied
                                       THEN stack[Top.registers + base + rank(s)]
                                       ELSE NaN]
    BY <1>2 DEF FinishReturn
  <2>2. /\ Top.registers \in Nat /\ Top.slot_count \in Nat
        /\ Caller.registers \in Nat /\ Caller.slot_count \in Nat /\ dest \in Nat
        /\ Caller.registers + Caller.slot_count <= Top.registers
        /\ Top.registers + Top.slot_count <= MaxStack
        /\ Top.chunk \in Chunk
    <3>1. /\ Len(frames) \in DOMAIN frames /\ Len(frames) - 1 \in DOMAIN frames
          /\ Len(frames) - 1 < Len(frames)
      BY <1>0, <1>2, FramesType
    <3>2. frames[Len(frames) - 1].registers + frames[Len(frames) - 1].slot_count
            <= frames[Len(frames)].registers
      BY <3>1 DEF Below
    <3>3. Top.registers + Top.slot_count <= MaxStack
      BY <3>1, WindowsInside DEF Tiled
    <3> QED BY <3>1, <3>2, <3>3, FramesType, LimitAssumption DEF Top, Caller
  <2>3. returns[Top.chunk] \in Nat /\ Returned(k) \in Nat
    BY <2>2, ChunkAssumption DEF Returned, AtMost
  <2>4. base \in Nat /\ copied \in Int /\ copied <= Top.slot_count - base
    BY <2>1, <2>2, <2>3 DEF AtMost
  <2>5. \A s \in Cells : s \in Int
    BY DEF Cells
  <2>6. ASSUME NEW s \in Cells, written(s), rank(s) < copied
        PROVE  stack[Top.registers + base + rank(s)] \in Cell
    <3>1. rank(s) \in Nat
      BY <2>3, <2>6
    <3>2. Top.registers + base + rank(s) \in Cells
      <4> HIDE DEF rank, base, copied
      <4> QED BY <2>2, <2>4, <2>6, <3>1, LimitAssumption DEF Cells
    <3> QED BY <1>0, <3>2
  <2>7. \A s \in Cells : written(s) => s >= Caller.registers /\ s < Top.registers
    BY <2>2, <2>3, <2>5 DEF InCaller
  <2>8. stack' \in [Cells -> Cell]
    <3> HIDE DEF rank, base, copied, written
    <3> QED BY <1>0, <2>1, <2>6
  <2>9. \A s \in Cells : ~written(s) => stack'[s] = stack[s]
    BY <2>1
  <2> HIDE DEF rank, base, copied, written, dest
  <2> QED BY <1>2, <2>7, <2>8, <2>9
<1> QED BY <1>1, <1>2

-----------------------------------------------------------------------------

\* The invariant that the run's invariants need, in every instance.
LEMMA Invariant == Spec => []IInv
<1>1. IInv /\ [Next]_vars => IInv'
  <2> SUFFICES ASSUME IInv, [Next]_vars PROVE IInv'
    OBVIOUS
  <2>0. Counts \subseteq Nat
    BY ChunkAssumption DEF Counts
  <2>1. CASE \E r \in Counts, v \in Value : SetRegister(r, v)
    BY <2>0, <2>1, SetRegisterKeeps
  <2>2. CASE \E c \in Chunk : CallFails(c)
    BY <2>2 DEF CallFails, IInv, TypeOK, Tiled, Below, FrozenType, CallersFrozen
  <2>3. CASE \E c \in Chunk, b, a \in Counts, n \in Counts :
               /\ Running /\ b < Top.slot_count /\ a < Top.slot_count
               /\ BeginCall(c, b, a, n)
    BY <2>0, <2>3, BeginCallKeeps
  <2>4. CASE \E b, n \in Counts \cup {-1} : FinishReturn(b, n)
    <3>1. PICK b, n \in Counts \cup {-1} : FinishReturn(b, n)
      BY <2>4
    <3>2. b \in Int /\ n \in Int
      BY <2>0
    <3>3. Running /\ PopFrame /\ error' = error
      BY <3>1 DEF FinishReturn
    <3> QED BY <3>1, <3>2, <3>3, FinishReturnWrites, PopFrameKeeps
  <2>5. CASE ReachEnd
    <3>1. stack' \in [Cells -> Cell] /\ stack' = stack /\ Running /\ PopFrame /\ error' = error
      BY <2>5 DEF ReachEnd, IInv, TypeOK, Cell
    <3> QED BY <3>1, PopFrameKeeps
  <2>6. CASE UNCHANGED vars
    BY <2>6 DEF vars, IInv, TypeOK, Tiled, Below, FrozenType, CallersFrozen
  <2> QED BY <2>1, <2>2, <2>3, <2>4, <2>5, <2>6 DEF Next, Stopped
<1> QED BY <1>1, InitIInv, PTL DEF Spec

\* The state has its types: no frame is pushed past MAX_FRAMES, none begins past
\* the register stack, and no register holds what no instruction computed.
THEOREM TypeCorrect == Spec => []TypeOK
BY Invariant, PTL DEF IInv

\* The frames tile the register stack, whatever is called, returns or ends early:
\* vm_push_frame and vm_pop_frame keep stack_top at the end of the last window.
THEOREM FramesTile == Spec => []Tiled
BY Invariant, PTL DEF IInv

\* A caller finds its registers as it left them: neither the arguments nor the
\* results of a call that is deeper, nor an instruction of its callee, reach them.
THEOREM CallersKeepRegisters == Spec => []CallersFrozen
BY Invariant, PTL DEF IInv

\* vm_finish_return writes into the window of the caller only; the end of a chunk
\* (vm_run) writes nowhere.
THEOREM ReturnsAreLocal == Spec => ReturnIsLocal
<1> DEFINE Local == Len(frames') < Len(frames) =>
                      \A s \in Cells : stack'[s] # stack[s] =>
                        Len(frames) > 1 /\ s >= Caller.registers /\ s < Top.registers
<1>1. IInv /\ [Next]_vars => [Local]_vars
  <2> SUFFICES ASSUME IInv, [Next]_vars, Len(frames') < Len(frames),
                      NEW s \in Cells, stack'[s] # stack[s]
               PROVE  Len(frames) > 1 /\ s >= Caller.registers /\ s < Top.registers
    OBVIOUS
  <2>1. Counts \subseteq Nat
    BY ChunkAssumption DEF Counts
  <2>2. frames' # frames
    BY FramesType DEF IInv
  <2>3. ~\E c \in Chunk, b, a \in Counts, n \in Counts : BeginCall(c, b, a, n)
    <3> SUFFICES ASSUME NEW c \in Chunk, NEW b \in Counts, NEW a \in Counts,
                        NEW n \in Counts, BeginCall(c, b, a, n)
                 PROVE  FALSE
      OBVIOUS
    <3> DEFINE S == Frame \cup {NewFrame(c, b)}
    <3>1. frames \in Seq(S) /\ frames' = Append(frames, NewFrame(c, b))
      <4>1. frames \in Seq(Frame)
        BY DEF IInv, TypeOK, Frame
      <4> QED BY <4>1, SeqMonotonic DEF BeginCall
    <3>2. Len(frames') = Len(frames) + 1
      BY <3>1, Appended
    <3> QED BY <3>2, FramesType DEF IInv
  <2>4. PICK b, n \in Counts \cup {-1} : FinishReturn(b, n)
    BY <2>2, <2>3 DEF Next, SetRegister, CallFails, ReachEnd, Stopped, vars
  <2>5. b \in Int /\ n \in Int
    BY <2>1
  <2> QED BY <2>4, <2>5, FinishReturnWrites
<1> QED BY <1>1, Invariant, PTL DEF Spec, ReturnIsLocal
=============================================================================
