----------------------------- MODULE LexerProofs -----------------------------
(***************************************************************************)
(* The scanner keeps to its buffer, cuts the text into tokens in order,    *)
(* loses nothing but blanks and comments, counts the lines and classifies  *)
(* the numbers, for every text, every set of letters and every set of      *)
(* keywords.                                                               *)
(***************************************************************************)
EXTENDS Lexer, DataLemmas, FiniteSetTheorems

\* CharAt, NextOffset, LinesTo and NewLines of a text s.
At(s, i) == IF i < Len(s) THEN s[i + 1] ELSE NUL

After(s, i) ==
  IF i >= Len(s) THEN i
  ELSE CHOOSE k \in i + 1 .. Len(s) : /\ At(s, k) # NL
                                      /\ \A j \in i + 1 .. k - 1 : At(s, j) = NL

Skips(s, i) == IF After(s, i) > i THEN After(s, i) - i - 1 ELSE 0

NLs(s, i) == Cardinality({j \in 0 .. i - 1 : At(s, j) = NL})

\* What the scanner computes is computed from its text.
LEMMA OfSource ==
  /\ length = Len(source)
  /\ current = At(source, position)
  /\ peek = At(source, position + 1)
  /\ \A i : CharAt(i) = At(source, i)
  /\ \A i : NextOffset(i) = After(source, i)
  /\ \A i : LinesTo(i) = Skips(source, i)
  /\ \A i : NewLines(i) = NLs(source, i)
<1>1. length = Len(source)
  BY DEF length
<1>2. \A i : CharAt(i) = At(source, i)
  BY DEF CharAt, At, length
<1>3. \A i : NextOffset(i) = After(source, i)
  BY DEF NextOffset, After, CharAt, At, length
<1>4. \A i : LinesTo(i) = Skips(source, i)
  BY <1>3 DEF LinesTo, Skips
<1>5. \A i : NewLines(i) = NLs(source, i)
  BY DEF NewLines, NLs, CharAt, At, length
<1> QED BY <1>1, <1>2, <1>3, <1>4, <1>5 DEF current, peek

\* consume stops at the first character that is no new line, or at the end.
LEMMA AfterIs ==
  ASSUME NEW s, Len(s) \in Nat, NEW i \in -1 .. Len(s)
  PROVE  /\ i = Len(s) => After(s, i) = i
         /\ i < Len(s) => /\ After(s, i) \in i + 1 .. Len(s)
                          /\ At(s, After(s, i)) # NL
                          /\ \A j \in i + 1 .. After(s, i) - 1 : At(s, j) = NL
<1>1. i = Len(s) => After(s, i) = i
  BY DEF After
<1>2. ASSUME i < Len(s)
      PROVE  \E k \in i + 1 .. Len(s) : /\ At(s, k) # NL
                                        /\ \A j \in i + 1 .. k - 1 : At(s, j) = NL
  <2> DEFINE T == {k \in i + 1 .. Len(s) : At(s, k) # NL}
  <2>1. Len(s) \in T
    BY <1>2 DEF At, NL, NUL
  <2>2. PICK k \in T : \A m \in T : k <= m
    <3>1. T \subseteq Nat /\ T # {}
      BY <2>1
    <3> HIDE DEF T
    <3> QED BY <3>1, LeastOf
  <2>3. \A j \in i + 1 .. k - 1 : j \in i + 1 .. Len(s) /\ j < k
    BY <1>2
  <2>4. \A j \in i + 1 .. k - 1 : At(s, j) = NL
    BY <2>2, <2>3
  <2>5. k \in i + 1 .. Len(s) /\ At(s, k) # NL
    BY <2>2
  <2> QED BY <2>4, <2>5, Zenon
<1>3. ASSUME i < Len(s)
      PROVE  /\ After(s, i) \in i + 1 .. Len(s)
             /\ At(s, After(s, i)) # NL
             /\ \A j \in i + 1 .. After(s, i) - 1 : At(s, j) = NL
  <2> DEFINE P(k) == /\ At(s, k) # NL
                     /\ \A j \in i + 1 .. k - 1 : At(s, j) = NL
  <2>1. After(s, i) = CHOOSE k \in i + 1 .. Len(s) : P(k)
    BY <1>3 DEF After
  <2>2. \E k \in i + 1 .. Len(s) : P(k)
    BY <1>2, <1>3
  <2> HIDE DEF P
  <2>3. After(s, i) \in i + 1 .. Len(s) /\ P(After(s, i))
    BY <2>1, <2>2, Zenon
  <2> QED BY <2>3 DEF P
<1> QED BY <1>1, <1>3

-----------------------------------------------------------------------------
(* Counting lines.                                                           *)

\* One character more.
LEMMA CountStep ==
  ASSUME NEW s, NEW i \in Nat
  PROVE  /\ NLs(s, i) \in 0 .. i
         /\ NLs(s, 0) = 0
         /\ NLs(s, i + 1) = NLs(s, i) + (IF At(s, i) = NL THEN 1 ELSE 0)
<1> DEFINE F(n) == {j \in 0 .. n - 1 : At(s, j) = NL}
<1>1. ASSUME NEW n \in Nat
      PROVE  IsFiniteSet(F(n)) /\ Cardinality(F(n)) \in 0 .. n
  <2>1. IsFiniteSet(0 .. n - 1) /\ Cardinality(0 .. n - 1) = n
    BY FS_Interval
  <2>2. F(n) \subseteq 0 .. n - 1
    OBVIOUS
  <2> HIDE DEF F
  <2>3. IsFiniteSet(F(n)) /\ Cardinality(F(n)) <= Cardinality(0 .. n - 1)
    BY <2>1, <2>2, FS_Subset, Zenon
  <2>4. Cardinality(F(n)) \in Nat
    BY <2>3, FS_CardinalityType
  <2> QED BY <2>1, <2>3, <2>4
<1>2. F(0) = {}
  OBVIOUS
<1>3. i \notin F(i) /\ F(i + 1) = IF At(s, i) = NL THEN F(i) \cup {i} ELSE F(i)
  OBVIOUS
<1>4. \A n : NLs(s, n) = Cardinality(F(n))
  BY DEF NLs
<1> HIDE DEF F
<1>5. Cardinality(F(i) \cup {i}) = Cardinality(F(i)) + 1
  BY <1>1, <1>3, FS_AddElement
<1>6. NLs(s, 0) = 0
  BY <1>2, <1>4, FS_EmptySet
<1>7. NLs(s, i) \in 0 .. i
  BY <1>1, <1>4
<1>8. NLs(s, i + 1) = NLs(s, i) + (IF At(s, i) = NL THEN 1 ELSE 0)
  BY <1>3, <1>4, <1>5, <1>7
<1> QED BY <1>6, <1>7, <1>8

\* A run of new lines.
LEMMA CountRun ==
  ASSUME NEW s, NEW a \in Nat, NEW b \in Nat, a <= b,
         \A j \in a .. b - 1 : At(s, j) = NL
  PROVE  NLs(s, b) = NLs(s, a) + (b - a)
<1> DEFINE T == {n \in 0 .. b - a : NLs(s, a + n) = NLs(s, a) + n}
<1>1. 0 \in T
  <2>1. NLs(s, a) \in Nat
    BY CountStep
  <2> QED BY <2>1
<1>2. ASSUME NEW n \in 1 .. b - a, n - 1 \in T
      PROVE  n \in T
  <2>1. a + (n - 1) \in Nat /\ a + (n - 1) \in a .. b - 1 /\ (a + (n - 1)) + 1 = a + n
    OBVIOUS
  <2>2. NLs(s, a + n) = NLs(s, a + (n - 1)) + 1
    BY <2>1, CountStep
  <2>3. NLs(s, a) \in Nat
    BY CountStep
  <2> QED BY <1>2, <2>2, <2>3
<1>3. b - a \in Nat
  OBVIOUS
<1>4. b - a \in T
  <2> HIDE DEF T
  <2> QED BY <1>1, <1>2, <1>3, Turns
<1> QED BY <1>4

\* consume counts the new lines it passes, but not the character it leaves.
LEMMA CountAfter ==
  ASSUME NEW s, Len(s) \in Nat, NEW i \in 0 .. Len(s)
  PROVE  /\ After(s, i) \in i .. Len(s)
         /\ Skips(s, i) \in Nat
         /\ NLs(s, i) \in Nat
         /\ NLs(s, After(s, i)) \in Nat
         /\ NLs(s, After(s, i)) = NLs(s, i) + (IF At(s, i) = NL THEN 1 ELSE 0) + Skips(s, i)
<1>0. NLs(s, i) \in Nat
  BY CountStep
<1>1. CASE i = Len(s)
  BY <1>0, <1>1, AfterIs DEF Skips, At, NL, NUL
<1>2. CASE i < Len(s)
  <2> DEFINE k == After(s, i)
  <2>1. /\ k \in i + 1 .. Len(s)
        /\ \A j \in i + 1 .. k - 1 : At(s, j) = NL
    BY <1>2, AfterIs
  <2>2. Skips(s, i) = k - (i + 1)
    BY <2>1 DEF Skips
  <2> HIDE DEF k
  <2>3. NLs(s, k) = NLs(s, i + 1) + (k - (i + 1))
    BY <2>1, CountRun
  <2>4. NLs(s, i + 1) = NLs(s, i) + (IF At(s, i) = NL THEN 1 ELSE 0)
    BY CountStep
  <2>5. NLs(s, k) = NLs(s, i) + (IF At(s, i) = NL THEN 1 ELSE 0) + Skips(s, i)
    BY <1>0, <2>1, <2>2, <2>3, <2>4
  <2>6. Skips(s, i) \in Nat /\ k \in i .. Len(s)
    BY <2>1, <2>2
  <2>7. NLs(s, k) \in Nat
    BY <2>6, CountStep
  <2> QED BY <1>0, <2>5, <2>6, <2>7 DEF k
<1> QED BY <1>1, <1>2

-----------------------------------------------------------------------------
(* What a step does.                                                         *)

\* The end of the text is no new line.
LEMMA Distinct == /\ NL # NUL /\ NL # CR /\ CR # NUL
                  /\ NL \in Blank /\ CR \in Blank /\ NUL \notin Blank
                  /\ {NL, CR, NUL} \cap (WordChar \cup {"."}) = {}
                  /\ {NL, CR, NUL} \cap (Quote \cup {BACKSLASH, "*", "/", "#", "+", "-"}) = {}
<1>1. /\ NL # NUL /\ NL # CR /\ CR # NUL
      /\ NL \in Blank /\ CR \in Blank /\ NUL \notin Blank
  BY DEF NL, NUL, CR, Blank
<1>2. {NL, CR, NUL} \cap OtherLetter = {}
  BY <1>1, LettersAssumption
<1>3. {NL, CR, NUL} \cap (Digit \cup HexLetter \cup {"x", "X", "o", "O", "_", "."}) = {}
  BY DEF NL, NUL, CR, Digit, OctalDigit, BinaryDigit, HexLetter
<1>4. {NL, CR, NUL} \cap (WordChar \cup {"."}) = {}
  BY <1>2, <1>3 DEF WordChar, Letter
<1>5. {NL, CR, NUL} \cap (Quote \cup {BACKSLASH, "*", "/", "#", "+", "-"}) = {}
  BY DEF NL, NUL, CR, Quote, BACKSLASH
<1> QED BY <1>1, <1>4, <1>5

\* The digits of a number are characters of words.
LEMMA DigitsAreWordChars ==
  /\ \A m : DigitsOf(m) \cup {"_"} \subseteq WordChar
  /\ Digit \subseteq WordChar
  /\ {"x", "X", "o", "O", "b", "B", "e", "E"} \subseteq WordChar
<1>1. Digit \cup HexLetter \cup {"_", "x", "X", "o", "O", "b", "B", "e", "E"} \subseteq WordChar
  BY DEF WordChar, Letter, HexLetter
<1>2. OctalDigit \subseteq Digit /\ BinaryDigit \subseteq Digit
  BY DEF Digit, OctalDigit
<1>3. ASSUME NEW m
      PROVE  DigitsOf(m) \subseteq Digit \cup HexLetter
  BY <1>2 DEF DigitsOf
<1> QED BY <1>1, <1>3

\* The scanner is in its text.
InText == Len(source) \in Nat /\ position \in 0 .. Len(source) /\ line \in Int

\* The scanner goes on in the text, counting the new lines that it passes.
GoesOn(p, l) == /\ p \in position .. Len(source)
                /\ l \in Int
                /\ l >= line
                /\ l - line <= NLs(source, p) - NLs(source, position)
                /\ At(source, position) # NL \/ mode = "short" =>
                     l - line = NLs(source, p) - NLs(source, position)

\* Steps that read nothing.
LEMMA Stays ==
  ASSUME InText, position' = position, line' = line
  PROVE  GoesOn(position', line')
<1>1. NLs(source, position) \in Nat
  BY CountStep DEF InText
<1> QED BY <1>1 DEF GoesOn, InText

\* Steps that call consume.
LEMMA Consumes ==
  ASSUME InText, Consume, mode # "short"
  PROVE  GoesOn(position', line')
<1>1. position' = After(source, position) /\ line' = line + Skips(source, position)
  BY OfSource DEF Consume, ConsumeFrom
<1>2. /\ After(source, position) \in position .. Len(source)
      /\ Skips(source, position) \in Nat
      /\ NLs(source, position) \in Nat
      /\ NLs(source, After(source, position)) \in Nat
      /\ NLs(source, After(source, position))
          = NLs(source, position) + (IF At(source, position) = NL THEN 1 ELSE 0)
            + Skips(source, position)
  BY CountAfter DEF InText
<1> HIDE DEF At
<1> QED BY <1>1, <1>2 DEF GoesOn, InText

\* Steps that call consumeNoLine, on a character that is no new line.
LEMMA OnOneCharacter ==
  ASSUME InText, NEW p \in 0 .. Len(source), At(source, p) # NL
  PROVE  /\ NextOnLine(p) \in p .. Len(source)
         /\ NLs(source, p) \in Nat
         /\ NLs(source, NextOnLine(p)) = NLs(source, p)
<1>1. NLs(source, p) \in Nat /\ NLs(source, p + 1) = NLs(source, p)
  BY CountStep
<1>2. length = Len(source)
  BY OfSource
<1> QED BY <1>1, <1>2 DEF NextOnLine, InText

\* The same, from where the scanner is.
LEMMA ConsumesNoLine ==
  ASSUME InText, ConsumeNoLine, current # NL
  PROVE  GoesOn(position', line')
<1>1. At(source, position) # NL
  BY OfSource
<1>2. /\ NextOnLine(position) \in position .. Len(source)
      /\ NLs(source, position) \in Nat
      /\ NLs(source, NextOnLine(position)) = NLs(source, position)
  BY <1>1, OnOneCharacter DEF InText
<1> QED BY <1>2 DEF GoesOn, InText, ConsumeNoLine

\* No step leaves the text or goes back in it, and none counts a line too many;
\* one that leaves no new line behind counts them all.
LEMMA StepMoves ==
  ASSUME InText, Step
  PROVE  source' = source /\ GoesOn(position', line')
<1>1. source' = source
  BY DEF Step, SkipWhiteSpace, ScanToken, Match, MakeToken, MakeEOF, Illegal, MakeString,
         StringEscape, StringChar, StringEnds, StringUnfinished, ChooseKeywordOrIdentifier, Word,
         WordEnds, ShortComment, SkipShortComment, ShortCommentEnds, LongComment, SkipLongComment,
         LongCommentEnds, BasedNumber, DecimalNumber, NumberDigit, NumberPoint, NumberExponent,
         RecoverMalformed, NumberEnds, Goes, Switch
<1>2. ASSUME \/ MakeToken \/ MakeEOF \/ Illegal \/ MakeString \/ ChooseKeywordOrIdentifier
             \/ WordEnds \/ ShortComment \/ LongComment \/ DecimalNumber \/ NumberEnds
      PROVE  GoesOn(position', line')
  <2>1. position' = position /\ line' = line
    BY <1>2 DEF MakeToken, MakeEOF, Illegal, MakeString, ChooseKeywordOrIdentifier, WordEnds,
                ShortComment, LongComment, DecimalNumber, NumberEnds, Goes, Switch
  <2> QED BY <2>1, Stays
<1>3. ASSUME SkipWhiteSpace \/ ScanToken \/ Match \/ SkipLongComment \/ StringEnds \/ Word
      PROVE  GoesOn(position', line')
  <2>1. Consume /\ mode # "short"
    BY <1>3 DEF SkipWhiteSpace, ScanToken, Match, SkipLongComment, StringEnds, Word
  <2> QED BY <2>1, Consumes
<1>4. ASSUME \/ SkipShortComment \/ StringChar \/ BasedNumber \/ NumberDigit \/ NumberPoint
             \/ RecoverMalformed
      PROVE  GoesOn(position', line')
  <2>1. ConsumeNoLine
    BY <1>4 DEF SkipShortComment, StringChar, BasedNumber, NumberDigit, NumberPoint,
                RecoverMalformed
  <2>2. CASE SkipShortComment \/ StringChar
    <3>1. current # NL
      BY <2>2 DEF SkipShortComment, StringChar
    <3> QED BY <2>1, <3>1, ConsumesNoLine
  <2>3. CASE BasedNumber \/ NumberDigit \/ NumberPoint \/ RecoverMalformed
    <3>1. current \in WordChar \cup {"."}
      BY <2>3, DigitsAreWordChars
         DEF BasedNumber, NumberDigit, NumberPoint, RecoverMalformed, Prefix, Delimiter
    <3>2. current # NL
      BY <3>1, Distinct
    <3> QED BY <2>1, <3>2, ConsumesNoLine
  <2> QED BY <1>4, <2>2, <2>3
<1>5. ASSUME ShortCommentEnds
      PROVE  GoesOn(position', line')
  <2>1. /\ position' = After(source, position)
        /\ line' = (IF At(source, position) = NL THEN line + 1 ELSE line)
                   + Skips(source, position)
        /\ mode = "short"
    BY <1>5, OfSource DEF ShortCommentEnds, ConsumeFrom
  <2>2. /\ After(source, position) \in position .. Len(source)
        /\ Skips(source, position) \in Nat
        /\ NLs(source, position) \in Nat
        /\ NLs(source, After(source, position)) \in Nat
        /\ NLs(source, After(source, position))
            = NLs(source, position) + (IF At(source, position) = NL THEN 1 ELSE 0)
              + Skips(source, position)
    BY CountAfter DEF InText
  <2>3. CASE At(source, position) = NL
    BY <2>1, <2>2, <2>3 DEF GoesOn, InText
  <2>4. CASE At(source, position) # NL
    BY <2>1, <2>2, <2>4 DEF GoesOn, InText
  <2> QED BY <2>3, <2>4
<1>6. ASSUME LongCommentEnds
      PROVE  GoesOn(position', line')
  <2> DEFINE p == After(source, position)
  <2>1. /\ position' = After(source, p)
        /\ line' = (line + Skips(source, position)) + Skips(source, p)
        /\ mode = "long"
    BY <1>6, OfSource DEF LongCommentEnds, ConsumeFrom
  <2>2. /\ p \in position .. Len(source)
        /\ Skips(source, position) \in Nat
        /\ NLs(source, position) \in Nat
        /\ NLs(source, p) = NLs(source, position)
                            + (IF At(source, position) = NL THEN 1 ELSE 0)
                            + Skips(source, position)
    BY CountAfter DEF InText
  <2>3. At(source, p) # NL
    BY AfterIs DEF InText, At, NL, NUL
  <2>4. p \in 0 .. Len(source)
    BY <2>2 DEF InText
  <2> HIDE DEF p
  <2>5. /\ After(source, p) \in p .. Len(source)
        /\ Skips(source, p) \in Nat
        /\ NLs(source, p) \in Nat
        /\ NLs(source, After(source, p)) = NLs(source, p) + Skips(source, p)
    BY <2>3, <2>4, CountAfter DEF InText
  <2>6. CASE At(source, position) = NL
    BY <2>1, <2>2, <2>5, <2>6 DEF GoesOn, InText
  <2>7. CASE At(source, position) # NL
    BY <2>1, <2>2, <2>5, <2>7 DEF GoesOn, InText
  <2> QED BY <2>6, <2>7
<1>7. ASSUME StringEscape
      PROVE  GoesOn(position', line')
  <2> DEFINE p == NextOnLine(position)
  <2>1. /\ position' = After(source, p)
        /\ line' = line + Skips(source, p)
        /\ current = BACKSLASH
        /\ peek # NL
    BY <1>7, OfSource DEF StringEscape, ConsumeFrom
  <2>2. At(source, position) # NL
    BY <2>1, Distinct, OfSource
  <2>3. /\ p \in position .. Len(source)
        /\ NLs(source, position) \in Nat
        /\ NLs(source, p) = NLs(source, position)
    BY <2>2, OnOneCharacter DEF InText
  <2>4. At(source, p) # NL
    BY <2>1, <2>2, OfSource DEF NextOnLine
  <2>5. p \in 0 .. Len(source)
    BY <2>3 DEF InText
  <2> HIDE DEF p
  <2>6. /\ After(source, p) \in p .. Len(source)
        /\ Skips(source, p) \in Nat
        /\ NLs(source, After(source, p)) = NLs(source, p) + Skips(source, p)
    BY <2>4, <2>5, CountAfter DEF InText
  <2> QED BY <2>1, <2>3, <2>6 DEF GoesOn, InText
<1>8. ASSUME StringUnfinished
      PROVE  GoesOn(position', line')
  <2>1. /\ line' = line
        /\ position' = IF current = BACKSLASH THEN position + 1 ELSE position
    BY <1>8 DEF StringUnfinished
  <2>2. CASE current = BACKSLASH
    <3>1. At(source, position) # NL /\ At(source, position) # NUL
      BY <2>2, Distinct, OfSource
    <3>2. position < Len(source)
      BY <3>1 DEF At
    <3>3. position' = NextOnLine(position)
      BY <2>1, <2>2, <3>2, OfSource DEF NextOnLine, InText
    <3>4. /\ NextOnLine(position) \in position .. Len(source)
          /\ NLs(source, position) \in Nat
          /\ NLs(source, NextOnLine(position)) = NLs(source, position)
      BY <3>1, OnOneCharacter DEF InText
    <3> QED BY <2>1, <3>3, <3>4 DEF GoesOn, InText
  <2>3. CASE current # BACKSLASH
    BY <2>1, <2>3, Stays
  <2> QED BY <2>2, <2>3
<1>9. ASSUME NumberExponent
      PROVE  GoesOn(position', line')
  <2> DEFINE p == IF peek \in {"+", "-"} THEN NextOnLine(position) ELSE position
  <2>1. /\ position' = NextOnLine(p)
        /\ line' = line
        /\ current \in {"e", "E"}
    BY <1>9 DEF NumberExponent
  <2>2. At(source, position) # NL
    BY <2>1, DigitsAreWordChars, Distinct, OfSource
  <2>3. /\ NextOnLine(position) \in position .. Len(source)
        /\ NLs(source, position) \in Nat
        /\ NLs(source, NextOnLine(position)) = NLs(source, position)
    BY <2>2, OnOneCharacter DEF InText
  <2>4. p \in position .. Len(source) /\ NLs(source, p) = NLs(source, position)
    BY <2>3 DEF InText
  <2>5. At(source, p) # NL
    BY <2>2, Distinct, OfSource DEF NextOnLine
  <2> HIDE DEF p
  <2>6. /\ NextOnLine(p) \in p .. Len(source)
        /\ NLs(source, NextOnLine(p)) = NLs(source, p)
    BY <2>4, <2>5, OnOneCharacter DEF InText
  <2> QED BY <2>1, <2>3, <2>4, <2>6 DEF GoesOn, InText
<1>10. GoesOn(position', line')
  BY <1>2, <1>3, <1>4, <1>5, <1>6, <1>7, <1>8, <1>9 DEF Step
<1> QED BY <1>1, <1>10

-----------------------------------------------------------------------------
(* Operators.                                                                *)

OperatorChar == Simple \cup {"+", "-", "*", "/", "%", "^", "=", "<", ">", "!"}

\* The characters of operators are no blanks and end no text.
LEMMA OperatorChars ==
  /\ OperatorChar \cap (Blank \cup {NL, CR, NUL, "#"}) = {}
  /\ \A s \in Operators : s \in Seq(OperatorChar) /\ Len(s) \in 1 .. 3
  /\ <<"M_EOF">> \notin Operators
<1>1. OperatorChar \cap (Blank \cup {NL, CR, NUL, "#"}) = {}
  BY DEF OperatorChar, Simple, Blank, NL, CR, NUL
<1>2. ASSUME NEW s \in Operators
      PROVE  s \in Seq(OperatorChar) /\ Len(s) \in 1 .. 3
  <2>1. \/ \E x \in OperatorChar : s = <<x>>
        \/ \E x, y \in OperatorChar : s = <<x, y>>
        \/ \E x, y, z \in OperatorChar : s = <<x, y, z>>
    BY <1>2 DEF Operators, OperatorChar
  <2>2. \A x \in OperatorChar : <<x>> \in Seq(OperatorChar) /\ Len(<<x>>) = 1
    OBVIOUS
  <2>3. \A x, y \in OperatorChar : <<x, y>> \in Seq(OperatorChar) /\ Len(<<x, y>>) = 2
    OBVIOUS
  <2>4. \A x, y, z \in OperatorChar : <<x, y, z>> \in Seq(OperatorChar) /\ Len(<<x, y, z>>) = 3
    OBVIOUS
  <2>5. CASE \E x \in OperatorChar : s = <<x>>
    BY <2>2, <2>5
  <2>6. CASE \E x, y \in OperatorChar : s = <<x, y>>
    <3>1. PICK x \in OperatorChar, y \in OperatorChar : s = <<x, y>>
      BY <2>6
    <3>2. s \in Seq(OperatorChar) /\ Len(s) = 2
      BY <2>3, <3>1
    <3> QED BY <3>2
  <2>7. CASE \E x, y, z \in OperatorChar : s = <<x, y, z>>
    <3>1. PICK x \in OperatorChar, y \in OperatorChar, z \in OperatorChar : s = <<x, y, z>>
      BY <2>7
    <3>2. s \in Seq(OperatorChar) /\ Len(s) = 3
      BY <2>4, <3>1
    <3> QED BY <3>2
  <2> QED BY <2>1, <2>5, <2>6, <2>7
<1>3. <<"M_EOF">> \notin Operators
  <2>1. "M_EOF" \notin OperatorChar
    BY DEF OperatorChar, Simple
  <2>2. <<"M_EOF">> \notin Seq(OperatorChar)
    BY <2>1
  <2> QED BY <1>2, <2>2
<1> QED BY <1>1, <1>2, <1>3

\* One more character of an operator.
LEMMA OperatorGrows ==
  ASSUME NEW s \in Operators, NEW c, Append(s, c) \in Operators
  PROVE  /\ c \in OperatorChar
         /\ Len(s) \in 1 .. 2
         /\ s[1] \in OperatorChar
         /\ Append(s, c)[1] = s[1]
         /\ Append(s, c)[Len(s) + 1] = c
         /\ Len(Append(s, c)) = Len(s) + 1
<1>1. s \in Seq(OperatorChar) /\ Len(s) \in 1 .. 3
  BY OperatorChars
<1>2. s \in Seq(OperatorChar \cup {c}) /\ c \in OperatorChar \cup {c}
  BY <1>1
<1>3. /\ Len(Append(s, c)) = Len(s) + 1
      /\ \A j \in 1 .. Len(s) : Append(s, c)[j] = s[j]
      /\ Append(s, c)[Len(s) + 1] = c
  BY <1>2, Appended
<1>4. Append(s, c) \in Seq(OperatorChar) /\ Len(Append(s, c)) \in 1 .. 3
  BY OperatorChars
<1>5. c \in OperatorChar
  BY <1>1, <1>3, <1>4
<1>6. s[1] \in OperatorChar
  BY <1>1
<1>7. Len(s) \in 1 .. 2
  <2> DEFINE n == Len(s)
             m == Len(Append(s, c))
  <2>1. n \in 1 .. 3 /\ m \in 1 .. 3 /\ m = n + 1
    BY <1>1, <1>3, <1>4
  <2> HIDE DEF n, m
  <2>2. n \in 1 .. 2
    BY <2>1
  <2> QED BY <2>2 DEF n
<1>8. Append(s, c)[1] = s[1]
  BY <1>1, <1>3
<1> QED BY <1>3, <1>5, <1>6, <1>7, <1>8

-----------------------------------------------------------------------------
(* The loops.                                                                *)

\* What scanToken has matched is the text since begin.
Matched ==
  mode = "switch" =>
    /\ seen \in Operators \cup {<<At(source, begin.offset)>>}
    /\ Len(seen) \in 1 .. 3
    /\ seen[1] = At(source, begin.offset)
    /\ Len(seen) = 1 => position = After(source, begin.offset)
    /\ Len(seen) > 1 => /\ seen \in Operators
                        /\ seen[2] = At(source, After(source, begin.offset))

\* scanToken skips a blank, or begins a token.
SkipsBlank == /\ mode = "scan" /\ mode' = "scan"
              /\ At(source, position) \in Blank
              /\ position' = After(source, position)
              /\ UNCHANGED <<begin, seen, tokens>>
Begins == /\ mode = "scan" /\ mode' = "switch"
          /\ At(source, position) \notin Blank
          /\ position' = After(source, position)
          /\ begin' = [offset |-> position, line |-> line]
          /\ seen' = <<At(source, position)>>
          /\ UNCHANGED tokens

\* It reads on in one of its loops...
Matches == /\ mode = "switch" /\ mode' = "switch"
           /\ seen \in Operators
           /\ seen' = Append(seen, At(source, position))
           /\ seen' \in Operators
           /\ position' = After(source, position)
           /\ UNCHANGED <<begin, tokens>>
Loops == {"string", "word", "short", "long", "decimal", "hex", "octal", "binary", "recover"}
Reads == /\ mode \in Loops \cup {"switch"} /\ mode' \in Loops
         /\ mode = "switch" => seen[1] # NUL
         /\ UNCHANGED <<begin, seen, tokens>>

\* ...or comes to the end of a comment, of a token or of the text.
EndsComment == /\ mode \in {"short", "long"} /\ mode' = "scan"
               /\ UNCHANGED <<begin, seen, tokens>>
Emits == /\ mode \in (Loops \cup {"switch"}) \ {"short", "long"} /\ mode' = "scan"
         /\ mode = "switch" => seen[1] # NUL
         /\ UNCHANGED <<begin, seen>>
         /\ \E t : /\ t # <<"M_EOF">>
                  /\ \/ position' = position /\ mode # "string"
                     \/ t \in {<<"M_V_STRING">>, <<"M_V_UNFINISHED_STRING">>}
                  /\ tokens' = Append(tokens, [type |-> t, begin |-> begin.offset,
                                               end |-> position', line |-> begin.line])
Ends == /\ mode = "switch" /\ mode' = "done"
        /\ position' = position
        /\ UNCHANGED <<begin, seen>>
        /\ tokens' = Append(tokens, [type |-> <<"M_EOF">>, begin |-> begin.offset,
                                     end |-> begin.offset, line |-> begin.line])

\* These are all the steps.
LEMMA StepShape ==
  ASSUME Step, Matched
  PROVE  \/ SkipsBlank \/ Begins \/ Matches \/ Reads \/ EndsComment \/ Emits \/ Ends
<1>1. CASE SkipWhiteSpace
  BY <1>1, OfSource DEF SkipWhiteSpace, Consume, ConsumeFrom, SkipsBlank
<1>2. CASE ScanToken
  BY <1>2, OfSource DEF ScanToken, Consume, ConsumeFrom, Begins
<1>3. CASE Match
  BY <1>3, OfSource DEF Match, IsOperator, Consume, ConsumeFrom, Matches
<1>4. CASE MakeToken
  <2>1. seen \in Operators /\ seen[1] # NUL
    BY <1>4, OperatorChars DEF MakeToken, IsOperator
  <2>2. (IF seen = <<"!">> THEN <<"M_ERROR">> ELSE seen) # <<"M_EOF">>
    BY <2>1, OperatorChars
  <2> QED BY <1>4, <2>1, <2>2 DEF MakeToken, Emit, Emits
<1>5. CASE MakeEOF
  BY <1>5 DEF MakeEOF, Switch, Ends
<1>6. CASE Illegal
  <2>1. seen[1] # NUL
    BY <1>6 DEF Illegal
  <2> QED BY <1>6, <2>1 DEF Illegal, Emit, Emits
<1>7. CASE MakeString \/ ChooseKeywordOrIdentifier \/ ShortComment \/ LongComment
  <2>1. mode = "switch" /\ mode' \in Loops /\ UNCHANGED <<begin, seen, tokens>>
    BY <1>7 DEF MakeString, ChooseKeywordOrIdentifier, ShortComment, LongComment, Goes, Switch,
                Loops
  <2>2. seen[1] \in Quote \cup Letter \cup {"_", "#", "/"}
    BY <1>7 DEF MakeString, ChooseKeywordOrIdentifier, ShortComment, LongComment, Goes, Switch
  <2>3. seen[1] # NUL
    BY <2>2, Distinct DEF WordChar
  <2> QED BY <2>1, <2>3 DEF Reads
<1>8. CASE BasedNumber \/ DecimalNumber
  <2>1. mode = "switch" /\ mode' \in Loops /\ UNCHANGED <<begin, seen, tokens>>
    BY <1>8 DEF BasedNumber, DecimalNumber, Switch, Loops
  <2>2. seen[1] \in WordChar \cup {"."}
    BY <1>8, DigitsAreWordChars DEF BasedNumber, DecimalNumber, Switch, Digit, OctalDigit,
                                    BinaryDigit
  <2>3. seen[1] # NUL
    BY <2>2, Distinct
  <2> QED BY <2>1, <2>3 DEF Reads
<1>9. CASE \/ StringEscape \/ StringChar \/ Word \/ SkipShortComment \/ SkipLongComment
           \/ NumberDigit \/ NumberPoint \/ NumberExponent \/ RecoverMalformed
  BY <1>9 DEF StringEscape, StringChar, Word, SkipShortComment, SkipLongComment, NumberDigit,
              NumberPoint, NumberExponent, RecoverMalformed, Reads, Loops
<1>10. CASE ShortCommentEnds \/ LongCommentEnds
  BY <1>10 DEF ShortCommentEnds, LongCommentEnds, EndsComment
<1>11. CASE StringEnds \/ StringUnfinished
  BY <1>11 DEF StringEnds, StringUnfinished, Emit, Emits, Loops
<1>12. CASE WordEnds
  <2> DEFINE t == IF Text(begin.offset, position) \in Keywords
                  THEN Text(begin.offset, position) ELSE <<"M_V_IDENTIFIER">>
  <2>1. t # <<"M_EOF">>
    BY KeywordsAssumption
  <2>2. /\ mode = "word" /\ mode' = "scan" /\ position' = position
        /\ UNCHANGED <<begin, seen>>
        /\ tokens' = Append(tokens, [type |-> t, begin |-> begin.offset,
                                     end |-> position', line |-> begin.line])
    BY <1>12 DEF WordEnds, Emit
  <2> HIDE DEF t
  <2> QED BY <2>1, <2>2 DEF Emits, Loops
<1>13. CASE NumberEnds
  BY <1>13 DEF NumberEnds, Emit, Emits, Loops
<1> QED
  BY <1>1, <1>2, <1>3, <1>4, <1>5, <1>6, <1>7, <1>8, <1>9, <1>10, <1>11, <1>12, <1>13 DEF Step

-----------------------------------------------------------------------------
(* Types.                                                                    *)

\* No line is counted that has not been passed.
Counted == /\ line \in Int /\ 1 <= line /\ line <= 1 + NLs(source, position)
           /\ begin.line <= 1 + NLs(source, begin.offset)

\* The scanner is ahead of what it scans, unless that is the end of the text.
Ahead ==
  mode # "scan" => /\ begin.offset <= position
                   /\ \/ begin.offset < position
                      \/ /\ position = length
                         /\ mode \in {"switch", "done"}
                         /\ seen[1] = NUL

IInv == /\ source \in Sources
        /\ \E S : tokens \in Seq(S)
        /\ TypeOK
        /\ Matched
        /\ Counted
        /\ Ahead

\* A text has a length.
LEMMA Lengths ==
  ASSUME source \in Sources
  PROVE  Len(source) \in Nat
BY SourcesAssumption

\* The tokens with one more.
LEMMA OneMoreToken ==
  ASSUME \E S : tokens \in Seq(S), NEW t
  PROVE  /\ \E S : Append(tokens, t) \in Seq(S)
         /\ Len(tokens) \in Nat /\ DOMAIN tokens = 1 .. Len(tokens)
         /\ Len(Append(tokens, t)) = Len(tokens) + 1
         /\ DOMAIN Append(tokens, t) = 1 .. Len(tokens) + 1
         /\ \A j \in 1 .. Len(tokens) : Append(tokens, t)[j] = tokens[j]
         /\ Append(tokens, t)[Len(tokens) + 1] = t
<1>1. PICK S : tokens \in Seq(S)
  OBVIOUS
<1>2. tokens \in Seq(S \cup {t}) /\ t \in S \cup {t}
  BY <1>1
<1>3. Len(tokens) \in Nat /\ DOMAIN tokens = 1 .. Len(tokens)
  BY <1>1
<1>4. Append(tokens, t) \in Seq(S \cup {t})
  BY <1>2
<1> QED BY <1>2, <1>3, <1>4, Appended

Numbers == [point : BOOLEAN, exponent : BOOLEAN, malformed : BOOLEAN, needDigit : BOOLEAN]

\* The flags of a number stay flags.
LEMMA NumberType ==
  ASSUME number \in Numbers, Step
  PROVE  number' \in Numbers
<1> USE DEF Numbers
<1>1. CASE \/ SkipWhiteSpace \/ ScanToken \/ Match \/ MakeToken \/ MakeEOF \/ Illegal
           \/ MakeString \/ StringEscape \/ StringChar \/ StringEnds \/ StringUnfinished
           \/ ChooseKeywordOrIdentifier \/ Word \/ WordEnds
           \/ ShortComment \/ SkipShortComment \/ ShortCommentEnds
           \/ LongComment \/ SkipLongComment \/ LongCommentEnds \/ NumberEnds
  <2>1. number' = number
    BY <1>1 DEF SkipWhiteSpace, ScanToken, Match, MakeToken, MakeEOF, Illegal, MakeString,
         StringEscape, StringChar, StringEnds, StringUnfinished, ChooseKeywordOrIdentifier, Word,
         WordEnds, ShortComment, SkipShortComment, ShortCommentEnds, LongComment, SkipLongComment,
         LongCommentEnds, NumberEnds, Goes
  <2> QED BY <2>1
<1>2. CASE BasedNumber
  BY <1>2 DEF BasedNumber, NoNumber
<1>3. CASE DecimalNumber
  BY <1>3 DEF DecimalNumber, NoNumber
<1>4. CASE NumberDigit
  BY <1>4 DEF NumberDigit
<1>5. CASE NumberPoint
  BY <1>5 DEF NumberPoint
<1>6. CASE NumberExponent
  BY <1>6 DEF NumberExponent
<1>7. CASE RecoverMalformed
  BY <1>7 DEF RecoverMalformed
<1> QED BY <1>1, <1>2, <1>3, <1>4, <1>5, <1>6, <1>7 DEF Step

\* What StepMoves says, for a state of the invariant.
LEMMA StepOn ==
  ASSUME IInv, Step
  PROVE  /\ source' = source
         /\ InText
         /\ length = Len(source) /\ length' = Len(source)
         /\ GoesOn(position', line')
         /\ position' \in 0 .. Len(source)
<1>1. length = Len(source)
  BY OfSource
<1>2. InText
  BY <1>1, Lengths DEF IInv, InText, TypeOK, Counted
<1>3. source' = source /\ GoesOn(position', line')
  BY <1>2, StepMoves
<1>4. length' = Len(source)
  BY <1>3 DEF length
<1> QED BY <1>1, <1>2, <1>3, <1>4 DEF GoesOn, InText

\* The lines are counted again.
LEMMA CountedInductive ==
  ASSUME IInv, Step
  PROVE  Counted'
<1>1. /\ source' = source /\ InText /\ GoesOn(position', line')
      /\ position' \in 0 .. Len(source)
  BY StepOn
<1>2. NLs(source, position) \in Nat /\ NLs(source, position') \in Nat
  <2>1. position \in Nat /\ position' \in Nat
    BY <1>1 DEF InText
  <2>2. \A p \in Nat : NLs(source, p) \in Nat
    BY CountStep
  <2> QED BY <2>1, <2>2
<1>3. line' \in Int /\ 1 <= line' /\ line' <= 1 + NLs(source, position')
  BY <1>1, <1>2 DEF IInv, Counted, GoesOn
<1>4. begin' = begin \/ begin' = [offset |-> position, line |-> line]
  BY StepShape DEF IInv, SkipsBlank, Begins, Matches, Reads, EndsComment, Emits, Ends
<1>5. begin'.line <= 1 + NLs(source, begin'.offset)
  BY <1>4 DEF IInv, Counted
<1> QED BY <1>1, <1>3, <1>5 DEF Counted

\* The scanner stays ahead.
LEMMA AheadInductive ==
  ASSUME IInv, Step
  PROVE  Ahead'
<1>1. /\ source' = source /\ InText /\ GoesOn(position', line')
      /\ position' \in 0 .. Len(source)
      /\ length = Len(source) /\ length' = Len(source)
  BY StepOn
<1>2. position' >= position /\ position \in 0 .. Len(source)
  BY <1>1 DEF GoesOn, InText
<1>3. begin.offset \in Nat
  BY <1>1 DEF IInv, TypeOK, InText
<1>4. CASE SkipsBlank \/ EndsComment \/ Emits
  BY <1>4 DEF SkipsBlank, EndsComment, Emits, Ahead
<1>5. CASE Begins
  <2>1. begin'.offset = position /\ seen'[1] = At(source, position) /\ mode' = "switch"
        /\ position' = After(source, position)
    BY <1>5 DEF Begins
  <2>2. CASE position = Len(source)
    <3>1. position' = position /\ seen'[1] = NUL
      BY <1>1, <2>1, <2>2, AfterIs DEF At, InText
    <3> QED BY <1>1, <2>1, <2>2, <3>1 DEF Ahead
  <2>3. CASE position < Len(source)
    <3>1. position' > position
      BY <1>1, <2>1, <2>3, AfterIs DEF InText
    <3> QED BY <1>2, <2>1, <3>1 DEF Ahead
  <2> QED BY <1>2, <2>2, <2>3
<1>6. CASE Matches
  <2>1. seen'[1] = seen[1] /\ seen[1] # NUL /\ mode = "switch" /\ begin' = begin
    BY <1>6, OperatorGrows, OperatorChars DEF Matches
  <2>2. begin.offset < position
    BY <2>1 DEF IInv, Ahead
  <2>3. begin'.offset < position'
    BY <1>1, <1>2, <1>3, <2>1, <2>2
  <2>4. begin'.offset <= position'
    BY <1>1, <1>3, <2>1, <2>3
  <2> QED BY <2>3, <2>4 DEF Ahead
<1>7. CASE Reads
  <2>1. mode # "scan" /\ begin' = begin /\ begin.offset < position
    BY <1>7 DEF Reads, Loops, IInv, Ahead
  <2>3. begin'.offset < position'
    BY <1>1, <1>2, <1>3, <2>1
  <2>4. begin'.offset <= position'
    BY <1>1, <1>3, <2>1, <2>3
  <2> QED BY <2>3, <2>4 DEF Ahead
<1>8. CASE Ends
  <2>1. mode = "switch" /\ mode' = "done" /\ UNCHANGED <<begin, seen, position>>
    BY <1>8 DEF Ends
  <2> QED BY <1>1, <2>1 DEF IInv, Ahead
<1> QED BY <1>4, <1>5, <1>6, <1>7, <1>8, StepShape DEF IInv

\* What has been matched is still the text.
LEMMA MatchedInductive ==
  ASSUME IInv, Step
  PROVE  Matched'
<1>1. source' = source
  BY StepOn
<1>2. CASE Begins
  <2>1. /\ begin'.offset = position
        /\ seen' = <<At(source, position)>>
        /\ position' = After(source, position)
    BY <1>2 DEF Begins
  <2>2. Len(seen') = 1 /\ seen'[1] = At(source, position)
    BY <2>1
  <2> QED BY <1>1, <2>1, <2>2 DEF Matched
<1>3. CASE Matches
  <2>1. /\ seen \in Operators /\ seen' = Append(seen, At(source, position))
        /\ seen' \in Operators /\ begin' = begin /\ mode = "switch"
    BY <1>3 DEF Matches
  <2>2. /\ Len(seen) \in 1 .. 2
        /\ seen'[1] = seen[1]
        /\ seen'[Len(seen) + 1] = At(source, position)
        /\ Len(seen') = Len(seen) + 1
    BY <2>1, OperatorGrows
  <2>3. /\ seen[1] = At(source, begin.offset)
        /\ Len(seen) = 1 => position = After(source, begin.offset)
        /\ Len(seen) > 1 => seen[2] = At(source, After(source, begin.offset))
    BY <2>1 DEF IInv, Matched
  <2>4. seen'[2] = At(source, After(source, begin.offset))
    <3>1. CASE Len(seen) = 1
      BY <2>2, <2>3, <3>1
    <3>2. CASE Len(seen) = 2
      <4>1. seen \in Seq(OperatorChar) /\ At(source, position) \in OperatorChar
        BY <2>1, OperatorChars, OperatorGrows
      <4>2. seen'[2] = seen[2]
        BY <2>1, <3>2, <4>1, Appended
      <4> QED BY <2>3, <3>2, <4>2
    <3> QED BY <2>2, <3>1, <3>2
  <2>5. Len(seen') \in 2 .. 3
    <3> DEFINE n == Len(seen)
               m == Len(seen')
    <3>1. n \in 1 .. 2 /\ m = n + 1
      BY <2>2
    <3> HIDE DEF n, m
    <3>2. m \in 2 .. 3
      BY <3>1
    <3> QED BY <3>2 DEF m
  <2> QED BY <1>1, <2>1, <2>2, <2>3, <2>4, <2>5 DEF Matched
<1>4. CASE SkipsBlank \/ Reads \/ EndsComment \/ Emits \/ Ends
  BY <1>4 DEF SkipsBlank, Reads, Loops, EndsComment, Emits, Ends, Matched
<1> QED BY <1>2, <1>3, <1>4, StepShape DEF IInv

\* A step adds one token at most.
LEMMA TokensMove ==
  ASSUME IInv, Step
  PROVE  \/ tokens' = tokens
         \/ \E t : /\ tokens' = Append(tokens, t)
                  /\ t.begin = begin.offset /\ t.end \in {position', begin.offset}
<1>1. CASE Emits
  <2>1. PICK t : tokens' = Append(tokens, [type |-> t, begin |-> begin.offset,
                                           end |-> position', line |-> begin.line])
    BY <1>1 DEF Emits
  <2>2. [type |-> t, begin |-> begin.offset, end |-> position', line |-> begin.line].end
          \in {position', begin.offset}
    OBVIOUS
  <2>3. [type |-> t, begin |-> begin.offset, end |-> position', line |-> begin.line].begin
          = begin.offset
    OBVIOUS
  <2> QED BY <2>1, <2>2, <2>3
<1>2. CASE Ends
  <2> DEFINE u == [type |-> <<"M_EOF">>, begin |-> begin.offset,
                   end |-> begin.offset, line |-> begin.line]
  <2>1. tokens' = Append(tokens, u)
    BY <1>2 DEF Ends
  <2>2. u.begin = begin.offset /\ u.end \in {position', begin.offset}
    OBVIOUS
  <2> QED BY <2>1, <2>2
<1>3. CASE SkipsBlank \/ Begins \/ Matches \/ Reads \/ EndsComment
  BY <1>3 DEF SkipsBlank, Begins, Matches, Reads, EndsComment
<1> QED BY <1>1, <1>2, <1>3, StepShape DEF IInv

\* The types stay.
LEMMA TypeInductive ==
  ASSUME IInv, Step
  PROVE  TypeOK' /\ \E S : tokens' \in Seq(S)
<1>1. /\ source' = source /\ InText
      /\ position' \in 0 .. Len(source)
      /\ length = Len(source) /\ length' = Len(source)
  BY StepOn
<1>2. \A p \in Nat : NLs(source, p) \in 0 .. p
  BY CountStep
<1>3. line \in 1 .. Len(source) + 1
  BY <1>1 DEF IInv, TypeOK
<1>4. line' \in 1 .. length' + 1
  <2>1. line' \in Int /\ 1 <= line' /\ line' <= 1 + NLs(source, position')
    BY <1>1, CountedInductive DEF Counted
  <2>2. NLs(source, position') \in 0 .. position'
    BY <1>1, <1>2
  <2> QED BY <1>1, <2>1, <2>2 DEF InText
<1>5. mode' \in Modes
  BY StepShape DEF IInv, SkipsBlank, Begins, Matches, Reads, Loops, EndsComment, Emits, Ends, Modes
<1>6. begin' \in [offset : 0 .. length', line : 1 .. length' + 1]
  <2>1. begin' = begin \/ begin' = [offset |-> position, line |-> line]
    BY StepShape DEF IInv, SkipsBlank, Begins, Matches, Reads, EndsComment, Emits, Ends
  <2>2. begin \in [offset : 0 .. length, line : 1 .. length + 1]
    BY DEF IInv, TypeOK
  <2> QED BY <1>1, <1>3, <2>1, <2>2 DEF InText
<1>7. seen' \in Operators \cup {<<>>} \cup {<<CharAt(i)>> : i \in 0 .. length}
  <2>1. \/ seen' = seen \/ seen' \in Operators \/ seen' = <<At(source, position)>>
    BY StepShape DEF IInv, SkipsBlank, Begins, Matches, Reads, EndsComment, Emits, Ends
  <2>2. position \in 0 .. length /\ At(source, position) = CharAt(position)
    BY <1>1, OfSource DEF InText
  <2>3. seen \in Operators \cup {<<>>} \cup {<<CharAt(i)>> : i \in 0 .. length}
    BY DEF IInv, TypeOK
  <2> QED BY <2>1, <2>2, <2>3
<1>8. (Operators \cup {<<>>} \cup {<<CharAt(i)>> : i \in 0 .. length})
      = (Operators \cup {<<>>} \cup {<<CharAt(i)>> : i \in 0 .. length})'
  BY <1>1 DEF CharAt, length, Operators
<1>9. number' \in Numbers
  BY NumberType DEF IInv, TypeOK, Numbers
<1>10. /\ \E S : tokens' \in Seq(S)
       /\ \A k \in DOMAIN tokens' : /\ tokens'[k].begin \in 0 .. Len(source)
                                    /\ tokens'[k].end \in 0 .. Len(source)
  <2>1. \A k \in DOMAIN tokens : /\ tokens[k].begin \in 0 .. Len(source)
                                 /\ tokens[k].end \in 0 .. Len(source)
    BY <1>1 DEF IInv, TypeOK
  <2>2. CASE tokens' = tokens
    BY <2>1, <2>2 DEF IInv
  <2>3. ASSUME NEW t, tokens' = Append(tokens, t), t.begin = begin.offset,
               t.end \in {position', begin.offset}
        PROVE  <1>10!1 /\ <1>10!2
    <3>1. /\ \E S : Append(tokens, t) \in Seq(S)
          /\ Len(tokens) \in Nat /\ DOMAIN tokens = 1 .. Len(tokens)
          /\ DOMAIN Append(tokens, t) = 1 .. Len(tokens) + 1
          /\ \A j \in 1 .. Len(tokens) : Append(tokens, t)[j] = tokens[j]
          /\ Append(tokens, t)[Len(tokens) + 1] = t
      BY OneMoreToken DEF IInv
    <3>2. t.begin \in 0 .. Len(source) /\ t.end \in 0 .. Len(source)
      BY <1>1, <2>3 DEF IInv, TypeOK
    <3>3. ASSUME NEW k \in 1 .. Len(tokens) + 1
          PROVE  /\ Append(tokens, t)[k].begin \in 0 .. Len(source)
                 /\ Append(tokens, t)[k].end \in 0 .. Len(source)
      BY <2>1, <3>1, <3>2
    <3> QED BY <2>3, <3>1, <3>3
  <2> QED BY <2>2, <2>3, TokensMove
<1> QED BY <1>1, <1>4, <1>5, <1>6, <1>7, <1>8, <1>9, <1>10 DEF TypeOK, Numbers

\* It begins as it goes on.
LEMMA InitIInv ==
  ASSUME Init
  PROVE  IInv
<1>1. source \in Sources /\ Len(source) \in Nat /\ length = Len(source)
  BY Lengths, OfSource DEF Init
<1>2. position = After(source, -1) /\ line = 1 + Skips(source, -1) /\ mode = "scan"
      /\ begin = [offset |-> 0, line |-> 1] /\ seen = <<>> /\ tokens = <<>>
  BY OfSource DEF Init
<1>3. /\ After(source, -1) \in 0 .. Len(source)
      /\ \A j \in 0 .. After(source, -1) - 1 : At(source, j) = NL
      /\ Skips(source, -1) = After(source, -1)
  <2>1. -1 \in -1 .. Len(source) /\ -1 < Len(source)
    BY <1>1
  <2>2. /\ After(source, -1) \in -1 + 1 .. Len(source)
        /\ \A j \in -1 + 1 .. After(source, -1) - 1 : At(source, j) = NL
    BY <1>1, <2>1, AfterIs
  <2> QED BY <1>1, <2>2 DEF Skips
<1>4. NLs(source, 0) = 0
  BY CountStep
<1>5. NLs(source, position) = position
  <2> DEFINE p == After(source, -1)
  <2>1. p \in Nat /\ \A j \in 0 .. p - 1 : At(source, j) = NL
    BY <1>1, <1>3
  <2> HIDE DEF p
  <2>2. NLs(source, p) = NLs(source, 0) + (p - 0)
    BY <2>1, CountRun
  <2> QED BY <1>2, <1>4, <2>1, <2>2 DEF p
<1>6. Counted
  BY <1>1, <1>2, <1>3, <1>4, <1>5 DEF Counted
<1>7. TypeOK
  <2>1. position \in 0 .. length /\ line \in 1 .. length + 1
    BY <1>1, <1>2, <1>3
  <2>2. number \in Numbers
    BY DEF Init, NoNumber, Numbers
  <2>3. begin \in [offset : 0 .. length, line : 1 .. length + 1]
    BY <1>1, <1>2
  <2> QED BY <1>2, <2>1, <2>2, <2>3 DEF TypeOK, Numbers, Modes
<1>8. \E S : tokens \in Seq(S)
  <2>1. <<>> \in Seq({})
    OBVIOUS
  <2> QED BY <1>2, <2>1
<1> QED BY <1>1, <1>2, <1>6, <1>7, <1>8 DEF IInv, Matched, Ahead

\* Next is a step of the scanner, or nothing.
LEMMA IInvInductive ==
  ASSUME IInv, [Next]_vars
  PROVE  IInv'
<1>1. CASE Step
  <2>1. source' \in Sources
    BY <1>1, StepOn DEF IInv
  <2> QED BY <1>1, <2>1, TypeInductive, MatchedInductive, CountedInductive, AheadInductive DEF IInv
<1>2. CASE UNCHANGED vars
  BY <1>2 DEF IInv, TypeOK, Matched, Counted, Ahead, vars, length, CharAt
<1> QED BY <1>1, <1>2 DEF Next, Terminated

\* The invariant of the scanner.
LEMMA Invariant == Spec => []IInv
BY InitIInv, IInvInductive, PTL DEF Spec

\* The scanner stays inside the buffer, and so do the tokens and the lines, for
\* every text: current and peek read no character that consume has passed the end for.
THEOREM TypeCorrect == Spec => []TypeOK
<1>1. IInv => TypeOK
  BY DEF IInv
<1> QED BY <1>1, Invariant, PTL

-----------------------------------------------------------------------------
(* The tokens in order.                                                      *)

\* What a state of the invariant says in numbers.
LEMMA InNumbers ==
  ASSUME IInv
  PROVE  /\ length = Len(source) /\ Len(source) \in Nat
         /\ position \in 0 .. Len(source)
         /\ begin.offset \in 0 .. Len(source)
         /\ Len(tokens) \in Nat /\ DOMAIN tokens = 1 .. Len(tokens)
         /\ \A k \in DOMAIN tokens : /\ tokens[k].begin \in 0 .. Len(source)
                                     /\ tokens[k].end \in 0 .. Len(source)
<1>1. length = Len(source) /\ Len(source) \in Nat
  BY OfSource, Lengths DEF IInv
<1>2. Len(tokens) \in Nat /\ DOMAIN tokens = 1 .. Len(tokens)
  BY OneMoreToken DEF IInv
<1> QED BY <1>1, <1>2 DEF IInv, TypeOK

\* A step that leaves the tokens moves where the next may begin, never back.
LEMMA OrderKept ==
  ASSUME IInv, InOrder, Step, tokens' = tokens, mode' # "done"
  PROVE  InOrder'
<1>1. /\ source' = source /\ GoesOn(position', line') /\ position' \in 0 .. Len(source)
      /\ length = Len(source) /\ length' = Len(source)
  BY StepOn
<1>2. position' >= position
  BY <1>1, InNumbers DEF GoesOn
<1>3. \A k \in DOMAIN tokens :
        tokens[k].end <= IF mode' = "scan" THEN position' ELSE begin'.offset
  <2> SUFFICES ASSUME NEW k \in DOMAIN tokens
               PROVE  tokens[k].end <= IF mode' = "scan" THEN position' ELSE begin'.offset
    OBVIOUS
  <2>1. tokens[k].end <= IF mode = "scan" THEN position ELSE begin.offset
    BY DEF InOrder
  <2>2. mode # "scan" => begin.offset <= position
    BY DEF IInv, Ahead
  <2>3. tokens[k].end \in Nat /\ begin.offset \in Nat
    BY InNumbers
  <2>4. tokens[k].end <= position
    BY <2>1, <2>2, <2>3, InNumbers
  <2>5. tokens[k].end <= position'
    BY <1>1, <1>2, <2>3, <2>4, InNumbers
  <2>6. CASE mode' = "scan"
    BY <2>5, <2>6
  <2>7. CASE Begins
    BY <2>4, <2>7 DEF Begins
  <2>8. CASE Matches \/ Reads
    BY <2>1, <2>8 DEF Matches, Reads, Loops
  <2> QED BY <2>6, <2>7, <2>8, StepShape DEF IInv, SkipsBlank, EndsComment, Emits, Ends
<1>4. mode # "done"
  BY StepShape DEF IInv, SkipsBlank, Begins, Matches, Reads, Loops, EndsComment, Emits, Ends
<1>5. \A k \in DOMAIN tokens : tokens[k].type # <<"M_EOF">>
  BY <1>4 DEF InOrder
<1>6. \A k \in DOMAIN tokens :
        /\ tokens[k].type # <<"M_EOF">> => tokens[k].begin < tokens[k].end
        /\ k > 1 => tokens[k - 1].end <= tokens[k].begin
  BY DEF InOrder
<1>7. mode' # "scan" => begin'.offset < position' \/ position' = length'
  BY AheadInductive DEF Ahead
<1> QED BY <1>3, <1>5, <1>6, <1>7 DEF InOrder

\* A new token is behind the others, where the scanner was when it began.
LEMMA OrderExtended ==
  ASSUME IInv, InOrder, Step, mode # "scan", mode # "done",
         NEW t, tokens' = Append(tokens, t),
         t.begin = begin.offset, t.end \in 0 .. Len(source),
         mode' \in {"scan", "done"},
         t.type = <<"M_EOF">> <=> mode' = "done",
         t.type # <<"M_EOF">> => t.begin < t.end,
         t.end <= IF mode' = "scan" THEN position' ELSE begin'.offset,
         begin' = begin
  PROVE  InOrder'
<1>1. /\ Len(tokens) \in Nat /\ DOMAIN tokens = 1 .. Len(tokens)
      /\ Len(tokens') = Len(tokens) + 1
      /\ DOMAIN tokens' = 1 .. Len(tokens) + 1
      /\ \A j \in 1 .. Len(tokens) : tokens'[j] = tokens[j]
      /\ tokens'[Len(tokens) + 1] = t
  BY OneMoreToken DEF IInv
<1>2. /\ source' = source /\ GoesOn(position', line') /\ position' \in 0 .. Len(source)
  BY StepOn
<1>3. begin.offset <= position' /\ begin.offset <= position
  <2>1. begin.offset <= position
    BY DEF IInv, Ahead
  <2> QED BY <1>2, <2>1, InNumbers DEF GoesOn
<1>4. ASSUME NEW k \in 1 .. Len(tokens) + 1
      PROVE  /\ (tokens'[k].type = <<"M_EOF">>) <=> (k = Len(tokens) + 1 /\ mode' = "done")
             /\ tokens'[k].type # <<"M_EOF">> => tokens'[k].begin < tokens'[k].end
             /\ k > 1 => tokens'[k - 1].end <= tokens'[k].begin
             /\ tokens'[k].end <= IF mode' = "scan" THEN position' ELSE begin'.offset
  <2>1. CASE k = Len(tokens) + 1
    <3>1. tokens'[k] = t
      BY <1>1, <2>1
    <3>2. ASSUME k > 1
          PROVE  tokens'[k - 1].end <= begin.offset
      <4>0. k - 1 \in 1 .. Len(tokens)
        BY <1>1, <2>1, <3>2
      <4>1. k - 1 \in DOMAIN tokens /\ tokens'[k - 1] = tokens[k - 1]
        BY <1>1, <4>0
      <4> QED BY <4>1 DEF InOrder
    <3> QED BY <2>1, <3>1, <3>2
  <2>2. CASE k # Len(tokens) + 1
    <3>1. k \in DOMAIN tokens /\ tokens'[k] = tokens[k]
      BY <1>1, <2>2
    <3>2. tokens[k].type # <<"M_EOF">>
      BY <3>1 DEF InOrder
    <3>3. tokens[k].begin < tokens[k].end /\ tokens[k].end <= begin.offset
      BY <3>1, <3>2 DEF InOrder
    <3>4. k > 1 => tokens'[k - 1].end <= tokens[k].begin
      <4>1. ASSUME k > 1
            PROVE  tokens'[k - 1] = tokens[k - 1]
        BY <1>1, <2>2, <4>1
      <4> QED BY <3>1, <4>1 DEF InOrder
    <3>5. tokens[k].end \in 0 .. Len(source) /\ begin.offset \in 0 .. Len(source)
      BY <3>1, InNumbers
    <3>6. tokens[k].end <= position' /\ tokens[k].end <= begin'.offset
      BY <1>2, <1>3, <3>3, <3>5, InNumbers
    <3>7. tokens[k].end <= IF mode' = "scan" THEN position' ELSE begin'.offset
      BY <3>6
    <3> QED BY <2>2, <3>1, <3>2, <3>3, <3>4, <3>7
  <2> QED BY <2>1, <2>2
<1>5. mode' # "scan" => begin'.offset < position' \/ position' = length'
  BY AheadInductive DEF Ahead
<1> QED BY <1>1, <1>4, <1>5 DEF InOrder

\* Every step keeps the order.
LEMMA InOrderInductive ==
  ASSUME IInv, InOrder, [Next]_vars
  PROVE  InOrder'
<1>1. ASSUME Step
      PROVE  InOrder'
  <2>0. Step
    BY <1>1
  <2>1. CASE SkipsBlank \/ Begins \/ Matches \/ Reads \/ EndsComment
    <3>1. tokens' = tokens /\ mode' # "done"
      BY <2>1 DEF SkipsBlank, Begins, Matches, Reads, Loops, EndsComment
    <3> QED BY <2>0, <3>1, OrderKept
  <2>2. CASE Emits
    <3> DEFINE u(t) == [type |-> t, begin |-> begin.offset,
                        end |-> position', line |-> begin.line]
    <3>1. PICK t : t # <<"M_EOF">> /\ tokens' = Append(tokens, u(t))
      BY <2>2 DEF Emits
    <3>2. /\ mode # "scan" /\ mode # "done" /\ mode' = "scan" /\ begin' = begin
      BY <2>2 DEF Emits, Loops
    <3>3. begin.offset < position
      <4>1. mode = "switch" => seen[1] # NUL
        BY <2>2 DEF Emits
      <4> QED BY <3>2, <4>1 DEF IInv, Ahead
    <3>4. /\ GoesOn(position', line') /\ position' \in 0 .. Len(source)
      BY <2>0, StepOn
    <3>5. begin.offset < position'
      BY <3>3, <3>4, InNumbers DEF GoesOn
    <3>6. /\ u(t).begin = begin.offset /\ u(t).end = position' /\ u(t).type = t
      OBVIOUS
    <3> HIDE DEF u
    <3>7. /\ u(t).end \in 0 .. Len(source)
          /\ u(t).end <= position'
          /\ u(t).begin < u(t).end
      BY <3>4, <3>5, <3>6
    <3> QED BY <2>0, <3>1, <3>2, <3>6, <3>7, OrderExtended
  <2>3. CASE Ends
    <3> DEFINE u == [type |-> <<"M_EOF">>, begin |-> begin.offset,
                     end |-> begin.offset, line |-> begin.line]
    <3>1. /\ tokens' = Append(tokens, u) /\ mode = "switch" /\ mode' = "done" /\ begin' = begin
      BY <2>3 DEF Ends
    <3>2. u.begin = begin.offset /\ u.end = begin.offset /\ u.type = <<"M_EOF">>
      OBVIOUS
    <3> HIDE DEF u
    <3>3. u.end \in 0 .. Len(source) /\ u.end <= begin'.offset
      BY <3>1, <3>2, InNumbers
    <3> QED BY <2>0, <3>1, <3>2, <3>3, OrderExtended
  <2> QED BY <2>0, <2>1, <2>2, <2>3, StepShape DEF IInv
<1>2. CASE UNCHANGED vars
  BY <1>2 DEF InOrder, vars, length
<1> QED BY <1>1, <1>2 DEF Next, Terminated

\* The tokens are in order, none is empty and none overlaps another, for every
\* text: each loop of scanToken has consumed a character of its token when it ends.
THEOREM TokensInOrder == Spec => []InOrder
<1>1. Init => InOrder
  BY DEF Init, InOrder
<1> QED BY <1>1, Invariant, InOrderInductive, PTL DEF Spec

-----------------------------------------------------------------------------
(* Lines.                                                                    *)

\* Where lines end with CR and NL, a NL comes after a CR.
LEMMA AfterCR ==
  ASSUME IInv, Windows, NEW i \in Nat, At(source, i + 1) = NL
  PROVE  At(source, i) = CR
<1>1. i + 1 < length
  BY InNumbers, Distinct DEF At
<1>2. i + 1 \in 0 .. length - 1 /\ CharAt(i + 1) = NL
  BY <1>1, InNumbers, OfSource
<1>3. CharAt((i + 1) - 1) = CR
  BY <1>2 DEF Windows
<1>4. (i + 1) - 1 = i
  OBVIOUS
<1> QED BY <1>3, <1>4, OfSource

\* The loops that a line end ends.
PlainModes == {"switch", "word", "decimal", "hex", "octal", "binary", "recover"}

\* What is read from p to q ends no line.
Plainly(p, q) == \A i \in p .. q - 1 : At(source, i) \notin {NL, CR}

\* One character.
LEMMA PlainlyOne ==
  ASSUME NEW p \in Nat, NEW q \in p .. p + 1, At(source, p) \notin {NL, CR}
  PROVE  Plainly(p, q)
<1>1. \A i \in p .. q - 1 : i = p
  OBVIOUS
<1> QED BY <1>1 DEF Plainly

\* What is read goes on from what has been read.
LEMMA PlainlyJoined ==
  ASSUME NEW p \in Nat, NEW q \in Nat, NEW r \in Nat, Plainly(p, q), Plainly(q, r)
  PROVE  Plainly(p, r)
<1>1. \A i \in p .. r - 1 : i \in p .. q - 1 \/ i \in q .. r - 1
  OBVIOUS
<1> QED BY <1>1 DEF Plainly

\* consume after a character that ends no line.
LEMMA PlainConsume ==
  ASSUME IInv, Windows, At(source, position) \notin {NL, CR}
  PROVE  Plainly(position, After(source, position))
<1>1. CASE position = Len(source)
  BY <1>1, InNumbers, AfterIs DEF Plainly
<1>2. CASE position < Len(source)
  <2> DEFINE k == After(source, position)
  <2>1. /\ k \in position + 1 .. Len(source)
        /\ \A j \in position + 1 .. k - 1 : At(source, j) = NL
    BY <1>2, InNumbers, AfterIs
  <2> HIDE DEF k
  <2>2. k = position + 1
    <3>1. ASSUME k > position + 1
          PROVE  FALSE
      <4>1. At(source, position + 1) = NL
        BY <2>1, <3>1, InNumbers
      <4>2. At(source, position) = CR
        BY <4>1, AfterCR, InNumbers
      <4> QED BY <4>2
    <3> QED BY <2>1, <3>1, InNumbers
  <2>3. \A i \in position .. k - 1 : i = position
    BY <2>2, InNumbers
  <2> QED BY <2>3 DEF Plainly, k
<1> QED BY <1>1, <1>2, InNumbers

\* The step of a loop that a line end ends reads none.
LEMMA PlainStep ==
  ASSUME IInv, Windows, Step, mode' \in PlainModes
  PROVE  Plainly(position, position') /\ mode \notin {"short", "long", "string"}
<1>1. CASE ScanToken \/ Match \/ Word
  <2>1. Consume
    BY <1>1 DEF ScanToken, Match, Word
  <2>2. position' = After(source, position)
    BY <2>1, OfSource DEF Consume, ConsumeFrom
  <2>3. current \notin {NL, CR}
    <3>1. CASE ScanToken
      BY <3>1, Distinct DEF ScanToken
    <3>2. CASE Match
      BY <3>2, OperatorGrows, OperatorChars DEF Match, IsOperator
    <3>3. CASE Word
      BY <3>3, Distinct DEF Word
    <3> QED BY <1>1, <3>1, <3>2, <3>3
  <2>4. mode \notin {"short", "long", "string"}
    BY <1>1 DEF ScanToken, Match, Word
  <2> QED BY <2>2, <2>3, <2>4, PlainConsume, OfSource
<1>2. CASE BasedNumber \/ NumberDigit \/ NumberPoint \/ RecoverMalformed
  <2>1. ConsumeNoLine
    BY <1>2 DEF BasedNumber, NumberDigit, NumberPoint, RecoverMalformed
  <2>2. current \in WordChar \cup {"."}
    BY <1>2, DigitsAreWordChars
       DEF BasedNumber, NumberDigit, NumberPoint, RecoverMalformed, Prefix, Delimiter
  <2>3. current \notin {NL, CR}
    BY <2>2, Distinct
  <2>4. position \in Nat /\ position' \in position .. position + 1
    BY <2>1, InNumbers DEF ConsumeNoLine, NextOnLine
  <2>5. At(source, position) \notin {NL, CR}
    BY <2>3, OfSource
  <2>6. mode \notin {"short", "long", "string"}
    BY <1>2 DEF BasedNumber, NumberDigit, NumberPoint, RecoverMalformed, Switch
  <2> QED BY <2>4, <2>5, <2>6, PlainlyOne
<1>3. CASE NumberExponent
  <2>1. current \in {"e", "E"} /\ mode = "decimal"
    BY <1>3 DEF NumberExponent
  <2>0. position \in Nat
    BY InNumbers
  <2>a. current \notin {NL, CR}
    BY <2>1, DigitsAreWordChars, Distinct
  <2>2. position \in Nat /\ At(source, position) \notin {NL, CR}
    BY <2>0, <2>a, OfSource
  <2>3. CASE peek \in {"+", "-"}
    <3>0. peek \notin {NL, CR, NUL}
      BY <2>3, Distinct
    <3>a. At(source, position + 1) \notin {NL, CR, NUL}
      BY <3>0, OfSource
    <3>b. position + 1 < Len(source)
      BY <3>a DEF At
    <3>1. At(source, position + 1) \notin {NL, CR} /\ position < length
      BY <2>0, <3>a, <3>b, InNumbers
    <3>2. position' \in position + 1 .. (position + 1) + 1
      BY <1>3, <2>3, <3>1, InNumbers DEF NumberExponent, NextOnLine
    <3>3. Plainly(position, position + 1)
      BY <2>2, PlainlyOne
    <3>4. Plainly(position + 1, position')
      BY <2>2, <3>1, <3>2, PlainlyOne
    <3>5. position + 1 \in Nat /\ position' \in Nat
      BY <2>2, <3>2
    <3> QED BY <2>1, <2>2, <3>3, <3>4, <3>5, PlainlyJoined
  <2>4. CASE peek \notin {"+", "-"}
    <3>1. position' \in position .. position + 1
      BY <1>3, <2>4, InNumbers DEF NumberExponent, NextOnLine
    <3> QED BY <2>1, <2>2, <3>1, PlainlyOne
  <2> QED BY <2>3, <2>4
<1>4. CASE ChooseKeywordOrIdentifier \/ DecimalNumber
  <2>1. position' = position /\ mode = "switch"
    BY <1>4 DEF ChooseKeywordOrIdentifier, Goes, Switch, DecimalNumber
  <2> QED BY <2>1, InNumbers DEF Plainly
<1>5. CASE \/ SkipWhiteSpace \/ MakeToken \/ MakeEOF \/ Illegal
           \/ MakeString \/ StringEscape \/ StringChar \/ StringEnds \/ StringUnfinished
           \/ WordEnds \/ ShortComment \/ SkipShortComment \/ ShortCommentEnds
           \/ LongComment \/ SkipLongComment \/ LongCommentEnds \/ NumberEnds
  <2>1. mode' \notin PlainModes
    BY <1>5 DEF SkipWhiteSpace, MakeToken, MakeEOF, Illegal, MakeString, StringEscape, StringChar,
         StringEnds, StringUnfinished, WordEnds, ShortComment, SkipShortComment, ShortCommentEnds,
         LongComment, SkipLongComment, LongCommentEnds, NumberEnds, Goes, Emit, PlainModes
  <2> QED BY <2>1
<1> QED BY <1>1, <1>2, <1>3, <1>4, <1>5 DEF Step

\* Where lines end with CR and NL, no token but a string has a line end in it, nor
\* has what is read of one.
OneLine ==
  Windows => /\ mode \in PlainModes => Plainly(begin.offset, position)
             /\ \A k \in DOMAIN tokens :
                  IsString(tokens[k]) \/ Plainly(tokens[k].begin, tokens[k].end)

\* Every step keeps them on one line.
LEMMA OneLineInductive ==
  ASSUME IInv, OneLine, [Next]_vars
  PROVE  OneLine'
<1>1. ASSUME Step
      PROVE  OneLine'
  <2>0. Step
    BY <1>1
  <2>1. source' = source /\ position' \in 0 .. Len(source) /\ GoesOn(position', line')
    BY <2>0, StepOn
  <2>2. SUFFICES ASSUME Windows
                 PROVE  /\ mode' \in PlainModes => Plainly(begin'.offset, position')
                        /\ \A k \in DOMAIN tokens' :
                             \/ IsString(tokens'[k])
                             \/ Plainly(tokens'[k].begin, tokens'[k].end)
    <3>1. Windows' => Windows
      BY <2>1 DEF Windows, CharAt, length
    <3> QED BY <2>1, <3>1 DEF OneLine, Plainly, IsString
  <2>3. ASSUME mode' \in PlainModes
        PROVE  Plainly(begin'.offset, position')
    <3>1. Plainly(position, position') /\ mode \notin {"short", "long", "string"}
      BY <2>0, <2>2, <2>3, PlainStep
    <3>2. CASE Begins
      BY <3>1, <3>2 DEF Begins
    <3>3. CASE Matches \/ Reads
      <4>1. mode \in PlainModes /\ begin' = begin
        BY <3>1, <3>3 DEF Matches, Reads, Loops, PlainModes
      <4>2. Plainly(begin.offset, position)
        BY <2>2, <4>1 DEF OneLine
      <4>3. begin.offset \in Nat /\ position \in Nat /\ position' \in Nat
        BY <2>1, InNumbers
      <4> QED BY <3>1, <4>1, <4>2, <4>3, PlainlyJoined
    <3>4. ~(SkipsBlank \/ EndsComment \/ Emits \/ Ends)
      BY <2>3 DEF SkipsBlank, EndsComment, Emits, Ends, PlainModes
    <3> QED BY <2>0, <3>2, <3>3, <3>4, StepShape DEF IInv
  <2>4. ASSUME NEW k \in DOMAIN tokens
        PROVE  IsString(tokens[k]) \/ Plainly(tokens[k].begin, tokens[k].end)
    BY <2>2 DEF OneLine
  <2>5. CASE tokens' = tokens
    BY <2>3, <2>4, <2>5
  <2>6. ASSUME NEW t, tokens' = Append(tokens, t), IsString(t) \/ Plainly(t.begin, t.end)
        PROVE  \A k \in DOMAIN tokens' :
                 IsString(tokens'[k]) \/ Plainly(tokens'[k].begin, tokens'[k].end)
    <3>1. /\ DOMAIN tokens = 1 .. Len(tokens) /\ Len(tokens) \in Nat
          /\ DOMAIN tokens' = 1 .. Len(tokens) + 1
          /\ \A j \in 1 .. Len(tokens) : tokens'[j] = tokens[j]
          /\ tokens'[Len(tokens) + 1] = t
      BY <2>6, OneMoreToken DEF IInv
    <3>2. ASSUME NEW k \in 1 .. Len(tokens) + 1
          PROVE  IsString(tokens'[k]) \/ Plainly(tokens'[k].begin, tokens'[k].end)
      <4>1. CASE k = Len(tokens) + 1
        BY <2>6, <3>1, <4>1
      <4>2. CASE k # Len(tokens) + 1
        <5>1. k \in DOMAIN tokens /\ tokens'[k] = tokens[k]
          BY <3>1, <4>2
        <5> QED BY <2>4, <5>1
      <4> QED BY <4>1, <4>2
    <3> QED BY <3>1, <3>2
  <2>7. CASE Emits
    <3> DEFINE u(t) == [type |-> t, begin |-> begin.offset,
                        end |-> position', line |-> begin.line]
    <3>1. PICK t : /\ tokens' = Append(tokens, u(t))
                   /\ \/ position' = position /\ mode # "string"
                      \/ t \in {<<"M_V_STRING">>, <<"M_V_UNFINISHED_STRING">>}
      BY <2>7 DEF Emits
    <3>2. u(t).begin = begin.offset /\ u(t).end = position' /\ u(t).type = t
      OBVIOUS
    <3> HIDE DEF u
    <3>3. IsString(u(t)) \/ Plainly(u(t).begin, u(t).end)
      <4>1. CASE t \in {<<"M_V_STRING">>, <<"M_V_UNFINISHED_STRING">>}
        BY <3>2, <4>1 DEF IsString
      <4>2. CASE position' = position /\ mode # "string"
        <5>1. mode \in PlainModes
          BY <2>7, <4>2 DEF Emits, Loops, PlainModes
        <5>2. Plainly(begin.offset, position)
          BY <2>2, <5>1 DEF OneLine
        <5> QED BY <3>2, <4>2, <5>2
      <4> QED BY <3>1, <4>1, <4>2
    <3> QED BY <2>3, <2>6, <3>1, <3>3
  <2>8. CASE Ends
    <3> DEFINE u == [type |-> <<"M_EOF">>, begin |-> begin.offset,
                     end |-> begin.offset, line |-> begin.line]
    <3>1. tokens' = Append(tokens, u)
      BY <2>8 DEF Ends
    <3>2. u.begin = begin.offset /\ u.end = begin.offset
      OBVIOUS
    <3> HIDE DEF u
    <3>3. Plainly(u.begin, u.end)
      BY <3>2, InNumbers DEF Plainly
    <3> QED BY <2>3, <2>6, <3>1, <3>3
  <2>9. CASE SkipsBlank \/ Begins \/ Matches \/ Reads \/ EndsComment
    BY <2>5, <2>9 DEF SkipsBlank, Begins, Matches, Reads, EndsComment
  <2> QED BY <2>0, <2>7, <2>8, <2>9, StepShape DEF IInv
<1>2. CASE UNCHANGED vars
  BY <1>2 DEF OneLine, Plainly, Windows, IsString, CharAt, length, vars
<1> QED BY <1>1, <1>2 DEF Next, Terminated

\* A token that is no string is on one line wherever lines end with CR and NL, for
\* every text: the CR stops the loops that read one before consume can skip the NL.
THEOREM TokensOnOneLine == Spec => []OnOneLineInWindows
<1>1. Init => OneLine
  BY DEF Init, OneLine, PlainModes
<1>2. OneLine => OnOneLineInWindows
  BY OfSource DEF OneLine, OnOneLineInWindows, HasNewLine, Plainly
<1> QED BY <1>1, <1>2, Invariant, OneLineInductive, PTL DEF Spec

\* Lines end with CR and NL and there are no strings.
Regular == Windows /\ \A i \in 0 .. length - 1 : CharAt(i) \notin Quote

\* No new line is in front of the scanner, but the end of a short comment.
Clear == At(source, position) # NL \/ mode = "short"

\* A text without quotes has no strings.
LEMMA NoStrings ==
  ASSUME IInv, Regular, Step, mode # "string"
  PROVE  mode' # "string"
<1>1. CASE MakeString
  <2>1. mode = "switch" /\ seen[1] \in Quote
    BY <1>1 DEF MakeString, Goes, Switch
  <2>2. At(source, begin.offset) \in Quote
    BY <2>1 DEF IInv, Matched
  <2>3. begin.offset < Len(source)
    BY <2>2, Distinct DEF At
  <2>4. begin.offset \in 0 .. length - 1
    BY <2>3, InNumbers
  <2> QED BY <2>2, <2>4, OfSource DEF Regular
<1>2. CASE ~MakeString
  BY <1>2 DEF Step, SkipWhiteSpace, ScanToken, Match, MakeToken, MakeEOF, Illegal,
         StringEscape, StringChar, StringEnds, StringUnfinished, ChooseKeywordOrIdentifier, Word,
         WordEnds, ShortComment, SkipShortComment, ShortCommentEnds, LongComment, SkipLongComment,
         LongCommentEnds, BasedNumber, DecimalNumber, NumberDigit, NumberPoint, NumberExponent,
         RecoverMalformed, NumberEnds, Goes, Switch, Emit
<1> QED BY <1>1, <1>2

\* consume leaves no new line in front.
LEMMA AfterIsClear ==
  ASSUME IInv, NEW p \in 0 .. Len(source)
  PROVE  At(source, After(source, p)) # NL
<1>1. CASE p < Len(source)
  BY <1>1, InNumbers, AfterIs
<1>2. CASE p = Len(source)
  BY <1>2, InNumbers, AfterIs, Distinct DEF At
<1> QED BY <1>1, <1>2, InNumbers

\* The scanner is never left in front of a new line.
LEMMA ClearStep ==
  ASSUME IInv, Regular, Step, mode # "string", Clear
  PROVE  Clear'
<1>1. source' = source
  BY StepOn
<1>2. SUFFICES At(source, position') # NL \/ mode' = "short"
  BY <1>1 DEF Clear
<1>3. ASSUME mode' \in PlainModes
      PROVE  At(source, position') # NL
  <2>1. Plainly(position, position') /\ mode \notin {"short", "long", "string"}
    BY <1>3, PlainStep DEF Regular
  <2>2. position' \in position .. Len(source)
    BY StepOn DEF GoesOn
  <2>3. CASE position' = position
    BY <2>1, <2>3 DEF Clear
  <2>4. CASE position' > position
    <3>1. position' - 1 \in Nat /\ position' - 1 \in position .. position' - 1
          /\ (position' - 1) + 1 = position'
      BY <2>2, <2>4, InNumbers
    <3>2. At(source, position' - 1) # CR
      BY <2>1, <3>1 DEF Plainly
    <3> HIDE DEF Regular
    <3>3. At(source, (position' - 1) + 1) # NL
      BY <3>1, <3>2, AfterCR DEF Regular
    <3> QED BY <3>1, <3>3
  <2> QED BY <2>2, <2>3, <2>4, InNumbers
<1>4. CASE SkipWhiteSpace \/ ShortCommentEnds \/ SkipLongComment
  <2>1. position' = After(source, position)
    BY <1>4, OfSource DEF SkipWhiteSpace, ShortCommentEnds, SkipLongComment, Consume, ConsumeFrom
  <2> QED BY <2>1, AfterIsClear, InNumbers
<1>5. CASE LongCommentEnds
  <2>1. position' = After(source, After(source, position))
    BY <1>5, OfSource DEF LongCommentEnds, ConsumeFrom
  <2>2. After(source, position) \in 0 .. Len(source)
    BY InNumbers, CountAfter
  <2> QED BY <2>1, <2>2, AfterIsClear
<1>6. CASE MakeToken \/ MakeEOF \/ Illegal \/ WordEnds \/ LongComment \/ NumberEnds
  <2>1. position' = position /\ mode # "short"
    BY <1>6 DEF MakeToken, MakeEOF, Illegal, WordEnds, LongComment, NumberEnds, Goes, Switch
  <2> QED BY <2>1 DEF Clear
<1>7. CASE ShortComment \/ SkipShortComment
  BY <1>7 DEF ShortComment, Goes, SkipShortComment
<1>8. CASE \/ ScanToken \/ Match \/ ChooseKeywordOrIdentifier \/ Word \/ BasedNumber
           \/ DecimalNumber \/ NumberDigit \/ NumberPoint \/ NumberExponent \/ RecoverMalformed
  <2>1. mode' \in PlainModes
    BY <1>8 DEF ScanToken, Match, ChooseKeywordOrIdentifier, Goes, Word, BasedNumber,
           DecimalNumber, NumberDigit, NumberPoint, NumberExponent, RecoverMalformed, PlainModes
  <2> QED BY <1>3, <2>1
<1>9. CASE MakeString \/ StringEscape \/ StringChar \/ StringEnds \/ StringUnfinished
  <2>1. CASE MakeString
    BY <2>1, NoStrings DEF MakeString, Goes
  <2> QED BY <1>9, <2>1 DEF StringEscape, StringChar, StringEnds, StringUnfinished
<1> QED BY <1>4, <1>5, <1>6, <1>7, <1>8, <1>9 DEF Step

\* The lines of the tokens, of the token being read and of the scanner.
Numbered ==
  /\ \A k \in DOMAIN tokens : tokens[k].line <= 1 + NLs(source, tokens[k].begin)
  /\ Regular => /\ mode # "string" /\ Clear
                /\ line = 1 + NLs(source, position)
                /\ begin.line = 1 + NLs(source, begin.offset)
                /\ \A k \in DOMAIN tokens : tokens[k].line = 1 + NLs(source, tokens[k].begin)

\* Every step numbers its lines right.
LEMMA NumberedInductive ==
  ASSUME IInv, Numbered, [Next]_vars
  PROVE  Numbered'
<1>1. ASSUME Step
      PROVE  Numbered'
  <2>0. Step
    BY <1>1
  <2>1. source' = source /\ position' \in 0 .. Len(source) /\ GoesOn(position', line')
    BY <2>0, StepOn
  <2>2. Regular' = Regular
    BY <2>1 DEF Regular, Windows, CharAt, length
  <2>3. ASSUME Regular
        PROVE  /\ mode' # "string" /\ Clear'
               /\ line' = 1 + NLs(source, position')
               /\ begin'.line = 1 + NLs(source, begin'.offset)
    <3>0. mode # "string" /\ Clear /\ line = 1 + NLs(source, position)
          /\ begin.line = 1 + NLs(source, begin.offset)
      BY <2>3 DEF Numbered
    <3>1. mode' # "string" /\ Clear'
      BY <2>0, <2>3, <3>0, NoStrings, ClearStep
    <3>2. line' - line = NLs(source, position') - NLs(source, position)
      BY <2>1, <3>0 DEF GoesOn, Clear
    <3>3. line' = 1 + NLs(source, position')
      <4>1. position \in Nat /\ position' \in Nat
        BY <2>1, InNumbers
      <4>2. \A p \in Nat : NLs(source, p) \in Nat
        BY CountStep
      <4>3. NLs(source, position) \in Nat /\ NLs(source, position') \in Nat
        BY <4>1, <4>2
      <4>4. line' \in Int
        BY <2>1 DEF GoesOn
      <4> QED BY <3>0, <3>2, <4>3, <4>4
    <3>4. begin' = begin \/ begin' = [offset |-> position, line |-> line]
      BY <2>0, StepShape DEF IInv, SkipsBlank, Begins, Matches, Reads, EndsComment, Emits, Ends
    <3>5. begin'.line = 1 + NLs(source, begin'.offset)
      BY <3>0, <3>4
    <3> QED BY <3>1, <3>3, <3>5
  <2>4. begin.line <= 1 + NLs(source, begin.offset)
    BY DEF IInv, Counted
  <2>5. /\ \A k \in DOMAIN tokens' : tokens'[k].line <= 1 + NLs(source, tokens'[k].begin)
        /\ Regular => \A k \in DOMAIN tokens' :
                        tokens'[k].line = 1 + NLs(source, tokens'[k].begin)
    <3>1. CASE tokens' = tokens
      BY <3>1 DEF Numbered
    <3>2. ASSUME NEW t, tokens' = Append(tokens, t), t.begin = begin.offset, t.line = begin.line
          PROVE  <2>5!1 /\ <2>5!2
      <4>1. /\ DOMAIN tokens = 1 .. Len(tokens) /\ Len(tokens) \in Nat
            /\ DOMAIN tokens' = 1 .. Len(tokens) + 1
            /\ \A j \in 1 .. Len(tokens) : tokens'[j] = tokens[j]
            /\ tokens'[Len(tokens) + 1] = t
        BY <3>2, OneMoreToken DEF IInv
      <4>2. ASSUME NEW k \in 1 .. Len(tokens) + 1
            PROVE  tokens'[k].line <= 1 + NLs(source, tokens'[k].begin)
        <5>1. CASE k = Len(tokens) + 1
          BY <2>4, <3>2, <4>1, <5>1
        <5>2. CASE k # Len(tokens) + 1
          <6>1. k \in DOMAIN tokens /\ tokens'[k] = tokens[k]
            BY <4>1, <5>2
          <6> QED BY <6>1 DEF Numbered
        <5> QED BY <5>1, <5>2
      <4>3. ASSUME Regular, NEW k \in 1 .. Len(tokens) + 1
            PROVE  tokens'[k].line = 1 + NLs(source, tokens'[k].begin)
        <5>1. CASE k = Len(tokens) + 1
          BY <3>2, <4>1, <4>3, <5>1 DEF Numbered
        <5>2. CASE k # Len(tokens) + 1
          <6>1. k \in DOMAIN tokens /\ tokens'[k] = tokens[k]
            BY <4>1, <5>2
          <6> QED BY <4>3, <6>1 DEF Numbered
        <5> QED BY <5>1, <5>2
      <4> QED BY <4>1, <4>2, <4>3
    <3>3. CASE Emits
      <4> DEFINE u(t) == [type |-> t, begin |-> begin.offset,
                          end |-> position', line |-> begin.line]
      <4>1. PICK t : tokens' = Append(tokens, u(t))
        BY <3>3 DEF Emits
      <4>2. u(t).begin = begin.offset /\ u(t).line = begin.line
        OBVIOUS
      <4> HIDE DEF u
      <4> QED BY <3>2, <4>1, <4>2
    <3>4. CASE Ends
      <4> DEFINE u == [type |-> <<"M_EOF">>, begin |-> begin.offset,
                       end |-> begin.offset, line |-> begin.line]
      <4>1. tokens' = Append(tokens, u)
        BY <3>4 DEF Ends
      <4>2. u.begin = begin.offset /\ u.line = begin.line
        OBVIOUS
      <4> HIDE DEF u
      <4> QED BY <3>2, <4>1, <4>2
    <3>5. CASE SkipsBlank \/ Begins \/ Matches \/ Reads \/ EndsComment
      BY <3>1, <3>5 DEF SkipsBlank, Begins, Matches, Reads, EndsComment
    <3> QED BY <2>0, <3>3, <3>4, <3>5, StepShape DEF IInv
  <2> QED BY <2>1, <2>2, <2>3, <2>5 DEF Numbered
<1>2. CASE UNCHANGED vars
  BY <1>2 DEF Numbered, Regular, Clear, Windows, CharAt, length, vars
<1> QED BY <1>1, <1>2 DEF Next, Terminated

\* The line of a token is never too high, and right in a text of lines that end
\* with CR and NL and without strings, however its tokens, numbers and comments
\* are cut: each new line is counted once, by the loop that passes it.
THEOREM LinesAreRight == Spec => []LinesRight
<1>1. ASSUME Init
      PROVE  Numbered
  <2>1. IInv
    BY <1>1, InitIInv
  <2>2. position = After(source, -1) /\ line = 1 + Skips(source, -1) /\ mode = "scan"
        /\ begin = [offset |-> 0, line |-> 1] /\ tokens = <<>>
    BY <1>1, OfSource DEF Init
  <2>3. Len(source) \in Nat
    BY <2>1, InNumbers
  <2>4. -1 \in -1 .. Len(source) /\ -1 < Len(source)
    BY <2>3
  <2>5. /\ After(source, -1) \in -1 + 1 .. Len(source)
        /\ At(source, After(source, -1)) # NL
        /\ \A j \in -1 + 1 .. After(source, -1) - 1 : At(source, j) = NL
    BY <2>3, <2>4, AfterIs
  <2>6. Skips(source, -1) = After(source, -1)
    BY <2>3, <2>5 DEF Skips
  <2>7. NLs(source, 0) = 0
    BY CountStep
  <2>8. NLs(source, position) = position
    <3> DEFINE p == After(source, -1)
    <3>1. p \in Nat /\ \A j \in 0 .. p - 1 : At(source, j) = NL
      BY <2>3, <2>5
    <3> HIDE DEF p
    <3>2. NLs(source, p) = NLs(source, 0) + (p - 0)
      BY <3>1, CountRun
    <3> QED BY <2>2, <2>7, <3>1, <3>2 DEF p
  <2> QED BY <2>2, <2>5, <2>6, <2>7, <2>8 DEF Numbered, Clear
<1>2. Numbered => LinesRight
  BY OfSource DEF Numbered, LinesRight, Regular
<1> QED BY <1>1, <1>2, Invariant, NumberedInductive, PTL DEF Spec

-----------------------------------------------------------------------------
(* Nothing is lost.                                                          *)

\* InComment in the text of the scanner, and what may lie between tokens.
Commented(s, from, i) ==
  \E j \in from .. i :
    \/ At(s, j) = "#" /\ \A m \in After(s, j) .. i : At(s, m) # NL
    \/ At(s, j) = "/" /\ At(s, After(s, j)) = "*"
Between(s, from, to) ==
  \A i \in from .. to - 1 : At(s, i) \in Blank \/ Commented(s, from, i)

\* Where the token before the k-th of ts ends.
EndBefore(ts, k) == IF k = 1 THEN 0 ELSE ts[k - 1].end
LastEnd == EndBefore(tokens, Len(tokens) + 1)

\* Where the next token, or what comes before it, begins.
Scanned == IF mode = "scan" THEN position ELSE begin.offset

\* A comment that is being skipped is one.
Skipping ==
  /\ mode = "short" =>
       /\ At(source, begin.offset) = "#"
       /\ \A m \in After(source, begin.offset) .. position - 1 : At(source, m) # NL
  /\ mode = "long" => /\ At(source, begin.offset) = "/"
                      /\ At(source, After(source, begin.offset)) = "*"

Kept == /\ \A k \in DOMAIN tokens : Between(source, EndBefore(tokens, k), tokens[k].begin)
        /\ Between(source, LastEnd, Scanned)
        /\ Skipping

\* An interval of at most one number.
LEMMA OneNumber ==
  ASSUME NEW p \in Nat, NEW q \in p .. p + 1
  PROVE  \A i \in p .. q - 1 : i = p
OBVIOUS

\* An interval in two parts.
LEMMA Parts ==
  ASSUME NEW a \in Nat, NEW b \in Nat, NEW c \in Nat
  PROVE  \A i \in a .. c - 1 : i \in a .. b - 1 \/ i \in b .. c - 1
OBVIOUS

\* The tokens end before what is being scanned.
LEMMA EndsBefore ==
  ASSUME IInv, InOrder
  PROVE  LastEnd \in Nat /\ Scanned \in Nat /\ LastEnd <= Scanned
<1>1. Scanned \in Nat
  BY InNumbers DEF Scanned
<1>2. CASE Len(tokens) = 0
  BY <1>1, <1>2 DEF LastEnd, EndBefore
<1>3. CASE Len(tokens) # 0
  <2>1. Len(tokens) \in DOMAIN tokens /\ LastEnd = tokens[Len(tokens)].end
    <3> DEFINE n == Len(tokens)
    <3>1. n \in Nat /\ DOMAIN tokens = 1 .. n /\ LastEnd = EndBefore(tokens, n + 1)
      BY InNumbers DEF LastEnd
    <3> HIDE DEF n
    <3>2. n # 0
      BY <1>3 DEF n
    <3>3. n \in 1 .. n /\ (n + 1) - 1 = n /\ n + 1 # 1
      BY <3>1, <3>2
    <3> QED BY <3>1, <3>3 DEF EndBefore, n
  <2>2. tokens[Len(tokens)].end \in Nat
    BY <2>1, InNumbers
  <2> QED BY <1>1, <2>1, <2>2 DEF Scanned, InOrder
<1> QED BY <1>2, <1>3

\* A comment is skipped as it was begun.
LEMMA SkippingStep ==
  ASSUME IInv, Skipping, Step
  PROVE  Skipping'
<1>1. source' = source
  BY StepOn
<1>2. ASSUME mode' \in {"short", "long"}
      PROVE  ShortComment \/ LongComment \/ SkipShortComment \/ SkipLongComment
  BY <1>2 DEF Step, SkipWhiteSpace, ScanToken, Match, MakeToken, MakeEOF, Illegal, MakeString,
         StringEscape, StringChar, StringEnds, StringUnfinished, ChooseKeywordOrIdentifier, Word,
         WordEnds, ShortCommentEnds,
         LongCommentEnds, BasedNumber, DecimalNumber, NumberDigit, NumberPoint, NumberExponent,
         RecoverMalformed, NumberEnds, Goes, Switch, Emit
<1>3. CASE ShortComment
  <2>1. /\ mode = "switch" /\ mode' = "short" /\ seen[1] = "#"
        /\ begin' = begin /\ position' = position
    BY <1>3 DEF ShortComment, Goes, Switch
  <2>2. Len(seen) = 1
    <3>1. seen \notin Operators
      <4>1. ASSUME seen \in Operators
            PROVE  seen[1] \in OperatorChar
        BY <4>1, OperatorChars
      <4> QED BY <2>1, <4>1, OperatorChars
    <3>2. Len(seen) \in 1 .. 3 /\ ~(Len(seen) > 1)
      BY <2>1, <3>1 DEF IInv, Matched
    <3> DEFINE n == Len(seen)
    <3>3. n \in 1 .. 3 /\ ~(n > 1)
      BY <3>2
    <3> HIDE DEF n
    <3>4. n = 1
      BY <3>3
    <3> QED BY <3>4 DEF n
  <2>3. At(source, begin.offset) = "#" /\ position = After(source, begin.offset)
    BY <2>1, <2>2 DEF IInv, Matched
  <2>4. \A m \in position .. position - 1 : FALSE
    BY InNumbers
  <2> QED BY <1>1, <2>1, <2>3, <2>4 DEF Skipping
<1>4. CASE LongComment
  <2>1. /\ mode = "switch" /\ mode' = "long" /\ seen = <<"/", "*">> /\ begin' = begin
    BY <1>4 DEF LongComment, Goes, Switch
  <2>2. Len(seen) = 2 /\ seen[1] = "/" /\ seen[2] = "*"
    BY <2>1
  <2>3. At(source, begin.offset) = "/" /\ At(source, After(source, begin.offset)) = "*"
    BY <2>1, <2>2 DEF IInv, Matched
  <2> QED BY <1>1, <2>1, <2>3 DEF Skipping
<1>5. CASE SkipShortComment
  <2>1. /\ mode = "short" /\ mode' = "short" /\ begin' = begin
        /\ current # NL /\ position' = NextOnLine(position)
    BY <1>5 DEF SkipShortComment, ConsumeNoLine
  <2>2. position' \in position .. position + 1
    BY <2>1, InNumbers DEF NextOnLine
  <2> DEFINE a == After(source, begin.offset)
  <2>3. a \in Nat
    BY InNumbers, CountAfter
  <2>4. /\ At(source, begin.offset) = "#"
        /\ \A m \in a .. position - 1 : At(source, m) # NL
    BY <2>1 DEF Skipping
  <2> HIDE DEF a
  <2>5. \A m \in a .. position' - 1 : m \in a .. position - 1 \/ m = position
    <3>1. position \in Nat /\ position' \in Nat
      BY <2>2, InNumbers
    <3>2. \A m \in position .. position' - 1 : m = position
      BY <2>2, <3>1, OneNumber
    <3> QED BY <2>3, <3>1, <3>2, Parts
  <2>6. At(source, position) # NL
    BY <2>1, OfSource
  <2>7. \A m \in a .. position' - 1 : At(source, m) # NL
    BY <2>4, <2>5, <2>6
  <2> QED BY <1>1, <2>1, <2>4, <2>7 DEF Skipping, a
<1>6. CASE SkipLongComment
  BY <1>1, <1>6 DEF SkipLongComment, Skipping
<1>7. CASE mode' \notin {"short", "long"}
  BY <1>7 DEF Skipping
<1> QED BY <1>2, <1>3, <1>4, <1>5, <1>6, <1>7

\* What consume skips after a blank is blank.
LEMMA BlanksAfter ==
  ASSUME IInv, At(source, position) \in Blank
  PROVE  \A i \in position .. After(source, position) - 1 : At(source, i) \in Blank
<1>1. position < Len(source)
  BY Distinct DEF At
<1>2. /\ After(source, position) \in position + 1 .. Len(source)
      /\ \A j \in position + 1 .. After(source, position) - 1 : At(source, j) = NL
  BY <1>1, InNumbers, AfterIs
<1>3. \A i \in position .. After(source, position) - 1 :
        i = position \/ i \in position + 1 .. After(source, position) - 1
  BY <1>2, InNumbers
<1> QED BY <1>2, <1>3, Distinct

\* A comment that ends leaves only what may be between tokens.
LEMMA CommentIsBetween ==
  ASSUME IInv, InOrder, Kept, EndsComment, Step
  PROVE  Between(source, LastEnd, position')
<1> DEFINE b == begin.offset
<1>1. mode # "scan" /\ mode \in {"short", "long"}
  BY DEF EndsComment
<1>2. Between(source, LastEnd, b) /\ LastEnd \in Nat /\ b \in Nat /\ LastEnd <= b
  BY <1>1, EndsBefore DEF Kept, Scanned
<1>3. ASSUME NEW i \in b .. position' - 1
      PROVE  At(source, i) \in Blank \/ Commented(source, LastEnd, i)
  <2>1. i \in Nat /\ b \in LastEnd .. i
    BY <1>2, <1>3
  <2>2. CASE mode = "long"
    <3>1. At(source, b) = "/" /\ At(source, After(source, b)) = "*"
      BY <2>2 DEF Kept, Skipping
    <3> HIDE DEF b
    <3> QED BY <2>1, <3>1 DEF Commented
  <2>3. CASE mode = "short"
    <3>1. /\ At(source, b) = "#"
          /\ \A m \in After(source, b) .. position - 1 : At(source, m) # NL
      BY <2>3 DEF Kept, Skipping
    <3>2. ShortCommentEnds
      BY <2>3, <1>1 DEF EndsComment, Step, SkipWhiteSpace, ScanToken, Match, MakeToken, MakeEOF,
         Illegal, MakeString, StringEscape, StringChar, StringEnds, StringUnfinished,
         ChooseKeywordOrIdentifier, Word, WordEnds, ShortComment, SkipShortComment, LongComment,
         SkipLongComment, LongCommentEnds, BasedNumber, DecimalNumber, NumberDigit, NumberPoint,
         NumberExponent, RecoverMalformed, NumberEnds, Goes, Switch, Emit
    <3>3. position' = After(source, position) /\ At(source, position) \in {NL, NUL}
      BY <3>2, OfSource DEF ShortCommentEnds, ConsumeFrom
    <3>4. After(source, b) \in Nat
      <4>1. Len(source) \in Nat /\ b \in 0 .. Len(source)
        BY InNumbers
      <4> HIDE DEF b
      <4>2. After(source, b) \in b .. Len(source)
        BY <4>1, CountAfter
      <4> QED BY <4>1, <4>2
    <3>5. CASE i < position
      <4>1. \A m \in After(source, b) .. i : m \in After(source, b) .. position - 1
        BY <2>1, <3>4, <3>5, InNumbers
      <4>2. \A m \in After(source, b) .. i : At(source, m) # NL
        BY <3>1, <4>1
      <4> HIDE DEF b
      <4> QED BY <2>1, <3>1, <4>2 DEF Commented
    <3>6. CASE i >= position /\ At(source, position) = NL
      <4>1. At(source, position) \in Blank
        BY <3>6, Distinct
      <4>2. \A j \in position .. After(source, position) - 1 : At(source, j) \in Blank
        BY <4>1, BlanksAfter
      <4>3. i \in position .. After(source, position) - 1
        BY <1>3, <2>1, <3>3, <3>6, InNumbers
      <4> QED BY <4>2, <4>3
    <3>7. CASE i >= position /\ At(source, position) = NUL
      <4>1. position < Len(source)
        <5>1. CASE position = Len(source)
          <6>1. position' = position
            BY <3>3, <5>1, InNumbers, AfterIs
          <6> QED BY <1>3, <2>1, <3>7, <6>1, InNumbers
        <5> QED BY <5>1, InNumbers
      <4>2. /\ After(source, position) \in position + 1 .. Len(source)
            /\ \A j \in position + 1 .. After(source, position) - 1 : At(source, j) = NL
        BY <4>1, InNumbers, AfterIs
      <4>3. CASE i = position
        <5>1. \A m \in After(source, b) .. i :
                m \in After(source, b) .. position - 1 \/ m = position
          BY <3>4, <4>3, InNumbers
        <5>2. \A m \in After(source, b) .. i : At(source, m) # NL
          BY <3>1, <3>7, <5>1, Distinct
        <5> HIDE DEF b
        <5> QED BY <2>1, <3>1, <5>2 DEF Commented
      <4>4. CASE i # position
        <5>1. i \in position + 1 .. After(source, position) - 1
          BY <1>3, <2>1, <3>3, <3>7, <4>2, <4>4, InNumbers
        <5> QED BY <4>2, <5>1, Distinct
      <4> QED BY <4>3, <4>4
    <3> QED BY <2>1, <3>3, <3>5, <3>6, <3>7, InNumbers
  <2> QED BY <1>1, <2>2, <2>3
<1>4. \A i \in LastEnd .. position' - 1 : i \in LastEnd .. b - 1 \/ i \in b .. position' - 1
  <2>1. position' \in Nat
    BY StepOn, InNumbers
  <2> HIDE DEF b
  <2> QED BY <1>2, <2>1, Parts
<1> HIDE DEF b
<1> QED BY <1>2, <1>3, <1>4 DEF Between

\* Every step keeps what is between the tokens.
LEMMA KeptInductive ==
  ASSUME IInv, InOrder, Kept, [Next]_vars
  PROVE  Kept'
<1>1. ASSUME Step
      PROVE  Kept'
  <2>0. Step
    BY <1>1
  <2>1. source' = source
    BY <2>0, StepOn
  <2>2. Skipping'
    BY <2>0, SkippingStep DEF Kept
  <2>4. ASSUME tokens' = tokens, Between(source, LastEnd, Scanned')
        PROVE  Kept'
    <3>1. LastEnd' = LastEnd
      BY <2>4 DEF LastEnd
    <3> QED BY <2>1, <2>2, <2>4, <3>1 DEF Kept
  <2>5. ASSUME NEW t, tokens' = Append(tokens, t), t.begin = begin.offset, mode # "scan",
               t.end \in Nat, Scanned' = t.end
        PROVE  Kept'
    <3> DEFINE n == Len(tokens)
    <3>1. /\ n \in Nat
          /\ DOMAIN tokens = 1 .. n
          /\ Len(tokens') = n + 1
          /\ DOMAIN tokens' = 1 .. n + 1
          /\ \A j \in 1 .. n : tokens'[j] = tokens[j]
          /\ tokens'[n + 1] = t
      BY <2>5, OneMoreToken DEF IInv
    <3>2. LastEnd = EndBefore(tokens, n + 1) /\ LastEnd' = EndBefore(tokens', (n + 1) + 1)
      BY <3>1 DEF LastEnd
    <3> HIDE DEF n
    <3>3. LastEnd' = t.end
      <4>1. (n + 1) + 1 # 1 /\ ((n + 1) + 1) - 1 = n + 1
        BY <3>1
      <4> QED BY <3>1, <3>2, <4>1 DEF EndBefore
    <3>4. Between(source, LastEnd, begin.offset)
      BY <2>5 DEF Kept, Scanned
    <3>5. ASSUME NEW k \in 1 .. n + 1
          PROVE  EndBefore(tokens', k) = EndBefore(tokens, k)
      <4>1. CASE k = 1
        BY <4>1 DEF EndBefore
      <4>2. CASE k # 1
        <5>1. k - 1 \in 1 .. n
          BY <3>1, <4>2
        <5> QED BY <3>1, <4>2, <5>1 DEF EndBefore
      <4> QED BY <4>1, <4>2
    <3>6. ASSUME NEW k \in 1 .. n + 1
          PROVE  Between(source, EndBefore(tokens', k), tokens'[k].begin)
      <4>1. CASE k = n + 1
        BY <2>5, <3>1, <3>2, <3>4, <3>5, <4>1
      <4>2. CASE k # n + 1
        <5>1. k \in DOMAIN tokens /\ tokens'[k] = tokens[k]
          BY <3>1, <4>2
        <5> QED BY <3>5, <5>1 DEF Kept
      <4> QED BY <4>1, <4>2
    <3>7. Between(source, t.end, t.end)
      BY <2>5 DEF Between
    <3> QED BY <2>1, <2>2, <2>5, <3>1, <3>3, <3>6, <3>7 DEF Kept
  <2>6. CASE SkipsBlank
    <3>1. /\ tokens' = tokens /\ mode = "scan" /\ mode' = "scan"
          /\ At(source, position) \in Blank
          /\ position' = After(source, position)
      BY <2>6 DEF SkipsBlank
    <3>2. Between(source, LastEnd, position) /\ LastEnd \in Nat
      BY <3>1, EndsBefore DEF Kept, Scanned
    <3>3. \A i \in position .. position' - 1 : At(source, i) \in Blank
      BY <3>1, BlanksAfter
    <3>4. position \in Nat /\ position' \in Nat
      BY <2>0, StepOn, InNumbers
    <3>5. \A i \in LastEnd .. position' - 1 :
            i \in LastEnd .. position - 1 \/ i \in position .. position' - 1
      BY <3>2, <3>4, Parts
    <3>6. Between(source, LastEnd, position')
      BY <3>2, <3>3, <3>5 DEF Between
    <3> QED BY <2>4, <3>1, <3>6 DEF Scanned
  <2>7. CASE Begins
    <3>1. tokens' = tokens /\ mode = "scan" /\ mode' = "switch" /\ begin'.offset = position
      BY <2>7 DEF Begins
    <3>2. Scanned' = Scanned
      BY <3>1 DEF Scanned
    <3> QED BY <2>4, <3>1, <3>2 DEF Kept
  <2>8. CASE Matches \/ Reads
    <3>1. tokens' = tokens /\ mode # "scan" /\ mode' # "scan" /\ begin' = begin
      BY <2>8 DEF Matches, Reads, Loops
    <3>2. Scanned' = Scanned
      BY <3>1 DEF Scanned
    <3> QED BY <2>4, <3>1, <3>2 DEF Kept
  <2>9. CASE EndsComment
    <3>1. tokens' = tokens /\ Scanned' = position'
      BY <2>9 DEF EndsComment, Scanned
    <3> QED BY <2>0, <2>4, <2>9, <3>1, CommentIsBetween
  <2>10. CASE Emits
    <3> DEFINE u(t) == [type |-> t, begin |-> begin.offset,
                        end |-> position', line |-> begin.line]
    <3>1. PICK t : tokens' = Append(tokens, u(t))
      BY <2>10 DEF Emits
    <3>2. u(t).begin = begin.offset /\ u(t).end = position'
      OBVIOUS
    <3>3. mode # "scan" /\ Scanned' = position'
      BY <2>10 DEF Emits, Loops, Scanned
    <3>4. position' \in Nat
      BY <2>0, StepOn, InNumbers
    <3> HIDE DEF u
    <3>5. u(t).end \in Nat /\ Scanned' = u(t).end
      BY <3>2, <3>3, <3>4
    <3> QED BY <2>5, <3>1, <3>2, <3>3, <3>5
  <2>11. CASE Ends
    <3> DEFINE u == [type |-> <<"M_EOF">>, begin |-> begin.offset,
                     end |-> begin.offset, line |-> begin.line]
    <3>1. tokens' = Append(tokens, u)
      BY <2>11 DEF Ends
    <3>2. u.begin = begin.offset /\ u.end = begin.offset
      OBVIOUS
    <3>3. mode # "scan" /\ Scanned' = begin.offset
      BY <2>11 DEF Ends, Scanned
    <3> HIDE DEF u
    <3>4. u.end \in Nat /\ Scanned' = u.end
      BY <3>2, <3>3, InNumbers
    <3> QED BY <2>5, <3>1, <3>2, <3>3, <3>4
  <2> QED BY <2>0, <2>6, <2>7, <2>8, <2>9, <2>10, <2>11, StepShape DEF IInv
<1>2. CASE UNCHANGED vars
  BY <1>2 DEF Kept, LastEnd, Scanned, Skipping, vars
<1> QED BY <1>1, <1>2 DEF Next, Terminated

\* Every character of every text is in a token, unless it is a blank or in a
\* comment: no loop of the scanner drops what the next was to read.
THEOREM NoCharacterIsLost == Spec => []NothingLost
<1>1. ASSUME Init
      PROVE  Kept
  <2>1. position = After(source, -1) /\ mode = "scan" /\ tokens = <<>>
    BY <1>1, OfSource DEF Init
  <2>2. Len(source) \in Nat /\ -1 \in -1 .. Len(source) /\ -1 < Len(source)
    BY <1>1, InitIInv, InNumbers
  <2>3. /\ After(source, -1) \in -1 + 1 .. Len(source)
        /\ \A j \in -1 + 1 .. After(source, -1) - 1 : At(source, j) = NL
    BY <2>2, AfterIs
  <2>4. \A j \in 0 .. position - 1 : At(source, j) \in Blank
    BY <2>1, <2>3, Distinct
  <2>5. LastEnd = 0 /\ Scanned = position
    BY <2>1 DEF LastEnd, EndBefore, Scanned
  <2>6. Between(source, 0, position)
    BY <2>4 DEF Between
  <2> QED BY <2>1, <2>5, <2>6 DEF Kept, Skipping
<1>2. Kept => NothingLost
  <2>1. \A from, i : Commented(source, from, i) => InComment(from, i)
    BY OfSource DEF Commented, InComment
  <2>2. \A k : PreviousEnd(k) = EndBefore(tokens, k)
    BY DEF PreviousEnd, EndBefore
  <2> QED BY <2>1, <2>2, OfSource DEF Kept, Between, NothingLost
<1>3. Init => InOrder
  BY DEF Init, InOrder
<1> QED BY <1>1, <1>2, <1>3, Invariant, InOrderInductive, KeptInductive, PTL DEF Spec

-----------------------------------------------------------------------------
(* Numbers and their texts.                                                  *)

\* The characters that a decimal number tells apart.
ExponentChar == {"e", "E"}
Sign == {"+", "-"}
DecimalChar == Digit \cup {"_", "."} \cup ExponentChar \cup Sign
PrefixOf(m) == CASE m = "hex"   -> {"x", "X"}
                 [] m = "octal" -> {"o", "O"}
                 [] OTHER       -> {"b", "B"}
PrefixChar == {"x", "X", "o", "O", "b", "B"}
BasedModes == {"hex", "octal", "binary"}

\* They are told apart.
LEMMA NumberChars ==
  /\ ExponentChar \cap (Digit \cup {"_", "."} \cup Sign \cup PrefixChar) = {}
  /\ Sign \cap (Digit \cup {"_", "."} \cup WordChar) = {}
  /\ "." \notin Digit \cup {"_"} /\ "_" \notin Digit
  /\ PrefixChar \cap DecimalChar = {}
  /\ ExponentChar \subseteq WordChar /\ NL \notin DecimalChar
  /\ BinaryDigit \subseteq Digit /\ OctalDigit \subseteq Digit /\ "0" \in Digit
<1> USE DEF ExponentChar, Sign, PrefixChar
<1>1. ExponentChar \cap (Digit \cup {"_", "."} \cup Sign \cup PrefixChar) = {}
  BY DEF Digit, OctalDigit, BinaryDigit
<1>2. Sign \cap (Digit \cup {"_", "."}) = {} /\ "." \notin Digit \cup {"_"} /\ "_" \notin Digit
  BY DEF Digit, OctalDigit, BinaryDigit
<1>3. PrefixChar \cap DecimalChar = {} /\ NL \notin DecimalChar
  BY DEF Digit, OctalDigit, BinaryDigit, DecimalChar, NL
<1>4. ExponentChar \subseteq WordChar
  BY DigitsAreWordChars
<1>5. BinaryDigit \subseteq Digit /\ OctalDigit \subseteq Digit /\ "0" \in Digit
  BY DEF Digit, OctalDigit, BinaryDigit
<1>6. Sign \cap OtherLetter = {}
  <2>1. \A c \in Sign : <<c>> \in Operators
    BY DEF Operators
  <2> QED BY <2>1, LettersAssumption
<1>7. Sign \cap WordChar = {}
  BY <1>2, <1>6 DEF WordChar, Letter, HexLetter
<1> QED BY <1>1, <1>2, <1>3, <1>4, <1>5, <1>7

\* u is the text of s from f to t.
Spelled(u, s, f, t) == /\ \E S : u \in Seq(S)
                       /\ Len(u) = t - f
                       /\ DOMAIN u = 1 .. t - f
                       /\ \A i \in 1 .. t - f : u[i] = At(s, f + i - 1)

\* The text of a token.
LEMMA TextSpelled ==
  ASSUME NEW s, \E S : s \in Seq(S), NEW f \in 0 .. Len(s), NEW t \in f .. Len(s)
  PROVE  Spelled(SubSeq(s, f + 1, t), s, f, t)
<1> DEFINE n == Len(s)
<1>1. PICK S : s \in Seq(S)
  OBVIOUS
<1>2. n \in Nat /\ f \in 0 .. n /\ t \in f .. n /\ \A i \in 1 .. n : s[i] \in S
  BY <1>1
<1>3. \A i \in 0 .. n - 1 : At(s, i) = s[i + 1]
  BY <1>2 DEF At
<1> HIDE DEF n
<1>4. f + 1 \in Int /\ t \in Int /\ \A i \in f + 1 .. t : s[i] \in S
  BY <1>2
<1>5. /\ SubSeq(s, f + 1, t) \in Seq(S)
      /\ Len(SubSeq(s, f + 1, t)) = IF f + 1 <= t THEN t - (f + 1) + 1 ELSE 0
      /\ \A i \in 1 .. t - (f + 1) + 1 : SubSeq(s, f + 1, t)[i] = s[f + 1 + i - 1]
  BY <1>4, SubSeqProperties
<1> DEFINE u == SubSeq(s, f + 1, t)
<1> HIDE DEF u
<1>6. u \in Seq(S) /\ Len(u) = t - f /\ \A i \in 1 .. t - f : u[i] = s[(f + i - 1) + 1]
  BY <1>2, <1>5 DEF u
<1>7. DOMAIN u = 1 .. t - f
  BY <1>6
<1>8. \A i \in 1 .. t - f : f + i - 1 \in 0 .. n - 1
  BY <1>2
<1>9. \A i \in 1 .. t - f : u[i] = At(s, f + i - 1)
  BY <1>3, <1>6, <1>8
<1> QED BY <1>6, <1>7, <1>9 DEF Spelled, u

\* A part of a text.
LEMMA PartSpelled ==
  ASSUME NEW u, NEW s, NEW f \in Nat, NEW t \in Nat, f <= t, Spelled(u, s, f, t),
         NEW m \in 1 .. t - f + 1, NEW n \in m - 1 .. t - f
  PROVE  Spelled(SubSeq(u, m, n), s, f + m - 1, f + n)
<1>1. PICK S : u \in Seq(S)
  BY DEF Spelled
<1>2. Len(u) = t - f /\ DOMAIN u = 1 .. t - f /\ \A i \in 1 .. t - f : u[i] = At(s, f + i - 1)
  BY DEF Spelled
<1>3. m \in Int /\ n \in Int /\ \A i \in m .. n : u[i] \in S
  <2>1. \A i \in m .. n : i \in DOMAIN u
    BY <1>2
  <2> QED BY <1>1, <2>1
<1>4. /\ SubSeq(u, m, n) \in Seq(S)
      /\ Len(SubSeq(u, m, n)) = IF m <= n THEN n - m + 1 ELSE 0
      /\ \A i \in 1 .. n - m + 1 : SubSeq(u, m, n)[i] = u[m + i - 1]
  BY <1>3, SubSeqProperties
<1> DEFINE v == SubSeq(u, m, n)
<1> HIDE DEF v
<1>5. v \in Seq(S) /\ Len(v) = n - m + 1 /\ \A i \in 1 .. n - m + 1 : v[i] = u[m + i - 1]
  BY <1>4 DEF v
<1>6. DOMAIN v = 1 .. n - m + 1
  BY <1>5
<1>7. (f + n) - (f + m - 1) = n - m + 1
  OBVIOUS
<1>8. \A i \in 1 .. n - m + 1 : v[i] = At(s, (f + m - 1) + i - 1)
  <2> SUFFICES ASSUME NEW i \in 1 .. n - m + 1
               PROVE  v[i] = At(s, (f + m - 1) + i - 1)
    OBVIOUS
  <2>1. m + i - 1 \in 1 .. t - f /\ f + (m + i - 1) - 1 = (f + m - 1) + i - 1
    OBVIOUS
  <2> QED BY <1>2, <1>5, <2>1
<1> QED BY <1>5, <1>6, <1>7, <1>8 DEF Spelled, v

\* What a text is made of.
LEMMA CharsSpelled ==
  ASSUME NEW u, NEW s, NEW f \in Nat, NEW t \in Nat, f <= t, Spelled(u, s, f, t)
  PROVE  Chars(u) = {At(s, i) : i \in f .. t - 1}
<1>1. DOMAIN u = 1 .. t - f /\ \A i \in 1 .. t - f : u[i] = At(s, f + i - 1)
  BY DEF Spelled
<1>2. \A i \in 1 .. t - f : f + i - 1 \in f .. t - 1
  OBVIOUS
<1>3. \A j \in f .. t - 1 : j - f + 1 \in 1 .. t - f /\ f + (j - f + 1) - 1 = j
  OBVIOUS
<1>4. \A j \in f .. t - 1 : u[j - f + 1] = At(s, j) /\ j - f + 1 \in DOMAIN u
  BY <1>1, <1>3
<1>5. \A i \in DOMAIN u : u[i] = At(s, f + i - 1) /\ f + i - 1 \in f .. t - 1
  BY <1>1, <1>2
<1> QED BY <1>4, <1>5 DEF Chars

\* A text is a number without point and exponent if it is made of digits.
PlainPart(s, f, t) == \A i \in f .. t - 1 : At(s, i) \in Digit \cup {"_"}

\* What a text says of being plain, said of its places in the source.
LEMMA PlainSpelled ==
  ASSUME NEW u, NEW s, NEW f \in Nat, NEW t \in Nat, f <= t, Spelled(u, s, f, t)
  PROVE  Plain(u) <=> PlainPart(s, f, t)
<1>1. Chars(u) = {At(s, i) : i \in f .. t - 1}
  BY CharsSpelled
<1> QED BY <1>1 DEF Plain, PlainPart

\* A text is one without exponent if there is at most one point.
MantissaPart(s, f, t) ==
  /\ \A i \in f .. t - 1 : At(s, i) \in Digit \cup {"_", "."}
  /\ \A i, j \in f .. t - 1 : At(s, i) = "." /\ At(s, j) = "." => i = j

\* The same of a text without exponent.
LEMMA MantissaSpelled ==
  ASSUME NEW u, NEW s, NEW f \in Nat, NEW t \in Nat, f <= t, Spelled(u, s, f, t)
  PROVE  Mantissa(u) <=> MantissaPart(s, f, t)
<1>1. DOMAIN u = 1 .. t - f /\ \A i \in 1 .. t - f : u[i] = At(s, f + i - 1)
  BY DEF Spelled
<1>2. Chars(u) \subseteq Digit \cup {"_", "."}
      <=> \A i \in f .. t - 1 : At(s, i) \in Digit \cup {"_", "."}
  <2>1. Chars(u) = {At(s, i) : i \in f .. t - 1}
    BY CharsSpelled
  <2> QED BY <2>1
<1>3. ASSUME \A i, j \in DOMAIN u : u[i] = "." /\ u[j] = "." => i = j,
             NEW i \in f .. t - 1, NEW j \in f .. t - 1, At(s, i) = ".", At(s, j) = "."
      PROVE  i = j
  <2>1. i - f + 1 \in 1 .. t - f /\ f + (i - f + 1) - 1 = i
    OBVIOUS
  <2>2. j - f + 1 \in 1 .. t - f /\ f + (j - f + 1) - 1 = j
    OBVIOUS
  <2>3. u[i - f + 1] = "." /\ u[j - f + 1] = "."
    BY <1>1, <1>3, <2>1, <2>2
  <2>4. i - f + 1 = j - f + 1
    BY <1>1, <1>3, <2>1, <2>2, <2>3
  <2> QED BY <2>4
<1>4. ASSUME \A i, j \in f .. t - 1 : At(s, i) = "." /\ At(s, j) = "." => i = j,
             NEW i \in DOMAIN u, NEW j \in DOMAIN u, u[i] = ".", u[j] = "."
      PROVE  i = j
  <2>1. i \in 1 .. t - f /\ j \in 1 .. t - f
    BY <1>1
  <2>2. f + i - 1 \in f .. t - 1 /\ f + j - 1 \in f .. t - 1
    BY <2>1
  <2>3. At(s, f + i - 1) = "." /\ At(s, f + j - 1) = "."
    BY <1>1, <1>4, <2>1
  <2>4. f + i - 1 = f + j - 1
    BY <1>4, <2>2, <2>3
  <2> QED BY <2>1, <2>4
<1> QED BY <1>2, <1>3, <1>4 DEF Mantissa, MantissaPart

\* An exponent is a number without point, after a sign or none.
ExponentPart(s, f, t) ==
  LET g == IF f < t /\ At(s, f) \in Sign THEN f + 1 ELSE f
  IN PlainPart(s, g, t) /\ \E i \in g .. t - 1 : At(s, i) \in Digit

\* The same of an exponent.
LEMMA ExponentSpelled ==
  ASSUME NEW u, NEW s, NEW f \in Nat, NEW t \in Nat, f <= t, Spelled(u, s, f, t)
  PROVE  Exponent(u) <=> ExponentPart(s, f, t)
<1> DEFINE v == IF u # <<>> /\ u[1] \in {"+", "-"} THEN Tail(u) ELSE u
           g == IF f < t /\ At(s, f) \in Sign THEN f + 1 ELSE f
<1>1. /\ Len(u) = t - f /\ DOMAIN u = 1 .. t - f
      /\ \A i \in 1 .. t - f : u[i] = At(s, f + i - 1)
  BY DEF Spelled
<1>2. u # <<>> <=> f < t
  <2>1. PICK S : u \in Seq(S)
    BY DEF Spelled
  <2>2. u # <<>> <=> Len(u) # 0
    BY <2>1
  <2> QED BY <1>1, <2>2
<1>3. f < t => u[1] = At(s, f)
  <2>1. ASSUME f < t
        PROVE  1 \in 1 .. t - f /\ f + 1 - 1 = f
    BY <2>1
  <2> QED BY <1>1, <2>1
<1>4. Spelled(v, s, g, t) /\ g \in Nat /\ g <= t
  <2>1. CASE f < t /\ At(s, f) \in Sign
    <3>1. v = Tail(u) /\ g = f + 1
      BY <1>2, <1>3, <2>1 DEF Sign
    <3>2. PICK S : u \in Seq(S)
      BY DEF Spelled
    <3>3. Tail(u) = SubSeq(u, 2, Len(u))
      BY <1>2, <2>1, <3>2, TailIsSubSeq
    <3>4. 2 \in 1 .. t - f + 1 /\ t - f \in 2 - 1 .. t - f
      BY <2>1
    <3> DEFINE n == t - f
    <3>a. n \in 2 - 1 .. t - f
      BY <3>4
    <3> HIDE DEF n
    <3>b. Spelled(SubSeq(u, 2, n), s, f + 2 - 1, f + n)
      BY <3>4, <3>a, PartSpelled
    <3>5. Spelled(SubSeq(u, 2, t - f), s, f + 2 - 1, f + (t - f))
      BY <3>b DEF n
    <3>6. f + 2 - 1 = f + 1 /\ f + (t - f) = t /\ f + 1 <= t
      BY <2>1
    <3>7. v = SubSeq(u, 2, t - f)
      BY <1>1, <3>1, <3>3
    <3> HIDE DEF v, g
    <3>8. Spelled(v, s, f + 1, t)
      BY <3>5, <3>6, <3>7
    <3> QED BY <3>1, <3>6, <3>8
  <2>2. CASE ~(f < t /\ At(s, f) \in Sign)
    <3>1. v = u /\ g = f
      BY <1>2, <1>3, <2>2 DEF Sign
    <3> QED BY <3>1
  <2> QED BY <2>1, <2>2
<1>5. Exponent(u) <=> Plain(v) /\ Chars(v) \cap Digit # {}
  BY DEF Exponent
<1>6. ExponentPart(s, f, t) <=> PlainPart(s, g, t) /\ \E i \in g .. t - 1 : At(s, i) \in Digit
  BY DEF ExponentPart
<1> HIDE DEF v, g
<1>7. Plain(v) <=> PlainPart(s, g, t)
  BY <1>4, PlainSpelled
<1>8. Chars(v) = {At(s, i) : i \in g .. t - 1}
  BY <1>4, CharsSpelled
<1> QED BY <1>5, <1>6, <1>7, <1>8

\* A number in another base is a 0, its letter, and digits of which one at least is
\* not an underscore.
BasedPart(s, f, t) ==
  /\ t - f > 2 /\ At(s, f) = "0"
  /\ \E m \in BasedModes :
       /\ At(s, f + 1) \in PrefixOf(m)
       /\ \A i \in f + 2 .. t - 1 : At(s, i) \in DigitsOf(m) \cup {"_"}
       /\ \E i \in f + 2 .. t - 1 : At(s, i) \in DigitsOf(m)

\* The same of a number in another base.
LEMMA BasedSpelled ==
  ASSUME NEW u, NEW s, NEW f \in Nat, NEW t \in Nat, f <= t, Spelled(u, s, f, t)
  PROVE  Based(u) <=> BasedPart(s, f, t)
<1> DEFINE v == SubSeq(u, 3, Len(u))
           n == t - f
           D(c, m) == c \in CASE m = "hex"   -> {"x", "X"}
                              [] m = "octal" -> {"o", "O"}
                              [] OTHER       -> {"b", "B"}
<1>1. /\ Len(u) = n /\ n \in Nat /\ f + n = t
      /\ \A i \in 1 .. n : u[i] = At(s, f + i - 1)
  BY DEF Spelled
<1>2. Based(u) <=> /\ Len(u) > 2 /\ u[1] = "0"
                   /\ \E m \in BasedModes :
                        /\ D(u[2], m)
                        /\ Chars(v) \subseteq DigitsOf(m) \cup {"_"}
                        /\ Chars(v) \cap DigitsOf(m) # {}
  BY DEF Based, BasedModes
<1>3. \A c, m : D(c, m) <=> c \in PrefixOf(m)
  BY DEF PrefixOf
<1> HIDE DEF v, n, D
<1>4. CASE n > 2
  <2>1. 1 \in 1 .. n /\ 2 \in 1 .. n /\ 3 \in 1 .. n + 1 /\ n \in 3 - 1 .. n
    BY <1>1, <1>4
  <2>2. f + 1 - 1 = f /\ f + 2 - 1 = f + 1 /\ f + 3 - 1 = f + 2 /\ f + 2 <= t /\ f + 2 \in Nat
    BY <1>1, <1>4
  <2>3. u[1] = At(s, f) /\ u[2] = At(s, f + 1)
    BY <1>1, <2>1, <2>2
  <2>4. n = t - f
    BY DEF n
  <2>5. Spelled(SubSeq(u, 3, n), s, f + 3 - 1, f + n)
    <3>1. 3 \in 1 .. t - f + 1 /\ n \in 3 - 1 .. t - f
      BY <2>1, <2>4
    <3> QED BY <3>1, PartSpelled
  <2>6. Spelled(v, s, f + 2, t)
    BY <1>1, <2>2, <2>5 DEF v
  <2>7. Chars(v) = {At(s, i) : i \in f + 2 .. t - 1}
    BY <2>2, <2>6, CharsSpelled
  <2>8. \A m : /\ Chars(v) \subseteq DigitsOf(m) \cup {"_"}
                    <=> \A i \in f + 2 .. t - 1 : At(s, i) \in DigitsOf(m) \cup {"_"}
               /\ Chars(v) \cap DigitsOf(m) # {}
                    <=> \E i \in f + 2 .. t - 1 : At(s, i) \in DigitsOf(m)
    BY <2>7
  <2> QED BY <1>1, <1>2, <1>3, <1>4, <2>3, <2>4, <2>8 DEF BasedPart
<1>5. CASE ~(n > 2)
  BY <1>1, <1>2, <1>5 DEF BasedPart, n
<1> QED BY <1>4, <1>5

\* What a text is as a number, said of its place in the source.
FloatPart(s, f, t) ==
  \/ MantissaPart(s, f, t)
  \/ \E x \in f .. t - 1 : /\ At(s, x) \in ExponentChar
                           /\ MantissaPart(s, f, x)
                           /\ ExponentPart(s, x + 1, t)
NumberPart(s, f, t) == IF PlainPart(s, f, t) \/ BasedPart(s, f, t) THEN <<"M_V_INT">>
                       ELSE IF FloatPart(s, f, t) THEN <<"M_V_FLOAT">>
                       ELSE <<"M_V_MALFORMED_NUMBER">>

\* It is what its text says it is.
LEMMA NumberSpelled ==
  ASSUME NEW u, NEW s, NEW f \in Nat, NEW t \in Nat, f <= t, Spelled(u, s, f, t)
  PROVE  NumberOf(u) = NumberPart(s, f, t)
<1> DEFINE F == \/ Mantissa(u)
                \/ \E k \in DOMAIN u : /\ u[k] \in {"e", "E"}
                                       /\ Mantissa(SubSeq(u, 1, k - 1))
                                       /\ Exponent(SubSeq(u, k + 1, Len(u)))
<1>1. /\ Plain(u) <=> PlainPart(s, f, t)
      /\ Based(u) <=> BasedPart(s, f, t)
      /\ Mantissa(u) <=> MantissaPart(s, f, t)
  BY PlainSpelled, BasedSpelled, MantissaSpelled
<1>2. /\ Len(u) = t - f /\ DOMAIN u = 1 .. t - f
      /\ \A i \in 1 .. t - f : u[i] = At(s, f + i - 1)
  BY DEF Spelled
<1>3. ASSUME NEW k \in 1 .. t - f, NEW x \in f .. t - 1, x = f + k - 1
      PROVE  /\ u[k] = At(s, x)
             /\ Mantissa(SubSeq(u, 1, k - 1)) <=> MantissaPart(s, f, x)
             /\ Exponent(SubSeq(u, k + 1, Len(u))) <=> ExponentPart(s, x + 1, t)
  <2> DEFINE n == t - f
             j == k - 1
             l == k + 1
  <2>1. 1 \in 1 .. t - f + 1 /\ j \in 1 - 1 .. t - f /\ f + 1 - 1 = f /\ f + j = x
    BY <1>3
  <2>2. l \in 1 .. t - f + 1 /\ n \in l - 1 .. t - f /\ f + l - 1 = x + 1 /\ f + n = t
    BY <1>3
  <2>3. x \in Nat /\ f <= x /\ x + 1 \in Nat /\ x + 1 <= t
    BY <1>3
  <2>4. Len(u) = n
    BY <1>2
  <2> HIDE DEF n, j, l
  <2>5. Spelled(SubSeq(u, 1, j), s, f + 1 - 1, f + j)
    BY <2>1, PartSpelled
  <2>6. Spelled(SubSeq(u, 1, j), s, f, x)
    BY <2>1, <2>5
  <2>7. Spelled(SubSeq(u, l, n), s, f + l - 1, f + n)
    BY <2>2, PartSpelled
  <2>8. Spelled(SubSeq(u, l, Len(u)), s, x + 1, t)
    BY <2>2, <2>4, <2>7
  <2>9. Mantissa(SubSeq(u, 1, j)) <=> MantissaPart(s, f, x)
    BY <2>3, <2>6, MantissaSpelled
  <2>10. Exponent(SubSeq(u, l, Len(u))) <=> ExponentPart(s, x + 1, t)
    BY <2>3, <2>8, ExponentSpelled
  <2>11. u[k] = At(s, x)
    BY <1>2, <1>3
  <2> QED BY <2>9, <2>10, <2>11 DEF j, l
<1>4. F <=> FloatPart(s, f, t)
  <2> DEFINE G(k) == /\ u[k] \in {"e", "E"}
                     /\ Mantissa(SubSeq(u, 1, k - 1))
                     /\ Exponent(SubSeq(u, k + 1, Len(u)))
             H(x) == /\ At(s, x) \in ExponentChar
                     /\ MantissaPart(s, f, x)
                     /\ ExponentPart(s, x + 1, t)
  <2>1. ASSUME NEW k \in 1 .. t - f, NEW x \in f .. t - 1, x = f + k - 1
        PROVE  G(k) <=> H(x)
    BY <1>3, <2>1 DEF ExponentChar
  <2>2. F <=> Mantissa(u) \/ \E k \in 1 .. t - f : G(k)
    BY <1>2
  <2>3. FloatPart(s, f, t) <=> MantissaPart(s, f, t) \/ \E x \in f .. t - 1 : H(x)
    BY DEF FloatPart
  <2> HIDE DEF G, H, F
  <2>4. \A k \in 1 .. t - f : f + k - 1 \in f .. t - 1 /\ (G(k) <=> H(f + k - 1))
    <3> SUFFICES ASSUME NEW k \in 1 .. t - f
                 PROVE  f + k - 1 \in f .. t - 1 /\ (G(k) <=> H(f + k - 1))
      OBVIOUS
    <3>1. f + k - 1 \in f .. t - 1
      OBVIOUS
    <3> QED BY <2>1, <3>1
  <2>5. \A x \in f .. t - 1 : x - f + 1 \in 1 .. t - f /\ (G(x - f + 1) <=> H(x))
    <3> SUFFICES ASSUME NEW x \in f .. t - 1
                 PROVE  x - f + 1 \in 1 .. t - f /\ (G(x - f + 1) <=> H(x))
      OBVIOUS
    <3>1. x - f + 1 \in 1 .. t - f /\ x = f + (x - f + 1) - 1
      OBVIOUS
    <3> QED BY <2>1, <3>1
  <2> QED BY <1>1, <2>2, <2>3, <2>4, <2>5
<1>5. NumberOf(u) = IF Plain(u) \/ Based(u) THEN <<"M_V_INT">>
                    ELSE IF F THEN <<"M_V_FLOAT">>
                    ELSE <<"M_V_MALFORMED_NUMBER">>
  BY DEF NumberOf
<1> HIDE DEF F
<1> QED BY <1>1, <1>4, <1>5 DEF NumberPart

\* The flags of a decimal number that is none the worse so far: one point at most, one
\* exponent at most and after the point, signs behind an e only.
DecimalPart(s, f, t, n) ==
  /\ \A i \in f .. t - 1 : At(s, i) \in DecimalChar
  /\ \A i, j \in f .. t - 1 : i < j /\ At(s, j) = "." => At(s, i) \notin {"."} \cup ExponentChar
  /\ \A i, j \in f .. t - 1 : i < j /\ At(s, j) \in ExponentChar => At(s, i) \notin ExponentChar
  /\ \A i \in f .. t - 1 : At(s, i) \in Sign => i > f /\ At(s, i - 1) \in ExponentChar
  /\ n.point <=> \E i \in f .. t - 1 : At(s, i) = "."
  /\ n.exponent <=> \E i \in f .. t - 1 : At(s, i) \in ExponentChar
  /\ n.needDigit <=> /\ n.exponent
                     /\ \A i, j \in f .. t - 1 :
                          i < j /\ At(s, i) \in ExponentChar => At(s, j) \notin Digit

\* What makes a text no decimal number.
FaultyDecimal(s, f, t) ==
  \/ \E i \in f .. t - 1 : At(s, i) \notin DecimalChar
  \/ \E i, j \in f .. t - 1 : i < j /\ At(s, j) = "." /\ At(s, i) \in {"."} \cup ExponentChar
  \/ \E i, j \in f .. t - 1 : i < j /\ At(s, j) \in ExponentChar /\ At(s, i) \in ExponentChar

\* The text begins with no prefix of another base.
Unprefixed(s, f) == ~(At(s, f) = "0" /\ At(s, f + 1) \in PrefixChar)

\* A prefix is that of one base.
LEMMA Prefixes ==
  /\ \A m : PrefixOf(m) \subseteq PrefixChar
  /\ \A m, l \in BasedModes : PrefixOf(m) \cap PrefixOf(l) # {} => m = l
  /\ "0" \in Digit /\ "_" \in Digit \cup {"_"}
BY DEF PrefixOf, PrefixChar, BasedModes, Digit, OctalDigit, BinaryDigit

\* A text without a prefix is no based number.
LEMMA UnprefixedIs ==
  ASSUME NEW s, NEW f, NEW t, Unprefixed(s, f)
  PROVE  ~BasedPart(s, f, t)
BY Prefixes DEF Unprefixed, BasedPart

\* The flags say what the text is.
LEMMA DecimalIs ==
  ASSUME NEW s, NEW f \in Nat, NEW t \in Nat, f <= t, NEW n \in Numbers,
         DecimalPart(s, f, t, n), Unprefixed(s, f)
  PROVE  NumberPart(s, f, t) = IF n.needDigit THEN <<"M_V_MALFORMED_NUMBER">>
                               ELSE IF n.point \/ n.exponent THEN <<"M_V_FLOAT">>
                               ELSE <<"M_V_INT">>
<1>1. ~BasedPart(s, f, t)
  BY UnprefixedIs
<1>2. CASE ~n.exponent
  <2>1. \A i \in f .. t - 1 : At(s, i) \notin ExponentChar
    BY <1>2 DEF DecimalPart
  <2>2. \A i \in f .. t - 1 : At(s, i) \notin Sign
    <3> SUFFICES ASSUME NEW i \in f .. t - 1, At(s, i) \in Sign
                 PROVE  FALSE
      OBVIOUS
    <3>1. i > f /\ At(s, i - 1) \in ExponentChar
      BY DEF DecimalPart
    <3>2. i - 1 \in f .. t - 1
      BY <3>1
    <3> QED BY <2>1, <3>1, <3>2
  <2>3. \A i \in f .. t - 1 : At(s, i) \in Digit \cup {"_", "."}
    BY <2>1, <2>2 DEF DecimalPart, DecimalChar
  <2>4. ~n.needDigit
    BY <1>2 DEF DecimalPart
  <2>5. CASE n.point
    <3>1. ~PlainPart(s, f, t)
      BY <2>5, NumberChars DEF DecimalPart, PlainPart
    <3>2. \A i, j \in f .. t - 1 : i < j /\ At(s, j) = "." => At(s, i) # "."
      BY DEF DecimalPart
    <3>3. \A i, j \in f .. t - 1 : At(s, i) = "." /\ At(s, j) = "." => i = j
      BY <3>2
    <3>4. FloatPart(s, f, t)
      BY <2>3, <3>3 DEF FloatPart, MantissaPart
    <3> QED BY <1>1, <1>2, <2>4, <2>5, <3>1, <3>4 DEF NumberPart
  <2>6. CASE ~n.point
    <3>1. PlainPart(s, f, t)
      BY <2>3, <2>6 DEF DecimalPart, PlainPart
    <3> QED BY <1>2, <2>4, <2>6, <3>1 DEF NumberPart
  <2> QED BY <2>5, <2>6
<1>3. CASE n.exponent
  <2>1. PICK e \in f .. t - 1 : At(s, e) \in ExponentChar
    BY <1>3 DEF DecimalPart
  <2>2. ~PlainPart(s, f, t) /\ ~MantissaPart(s, f, t)
    BY <2>1, NumberChars DEF PlainPart, MantissaPart
  <2>3. \A i \in f .. t - 1 : i < e => At(s, i) \notin ExponentChar
    BY <2>1 DEF DecimalPart
  <2>4. \A i \in f .. t - 1 : e < i => At(s, i) \notin ExponentChar /\ At(s, i) # "."
    BY <2>1 DEF DecimalPart
  <2>5. \A i \in f .. t - 1 : At(s, i) \in ExponentChar => i = e
    BY <2>3, <2>4
  <2>6. \A i \in f .. t - 1 : At(s, i) \in Sign => i = e + 1
    <3> SUFFICES ASSUME NEW i \in f .. t - 1, At(s, i) \in Sign
                 PROVE  i = e + 1
      OBVIOUS
    <3>1. i > f /\ At(s, i - 1) \in ExponentChar
      BY DEF DecimalPart
    <3>2. i - 1 \in f .. t - 1
      BY <3>1
    <3>3. i - 1 = e
      BY <2>5, <3>1, <3>2
    <3> QED BY <3>3
  <2>7. MantissaPart(s, f, e)
    <3>1. ASSUME NEW i \in f .. e - 1
          PROVE  i \in f .. t - 1 /\ At(s, i) \in Digit \cup {"_", "."}
      <4>1. i \in f .. t - 1 /\ i < e /\ i # e + 1
        OBVIOUS
      <4> QED BY <2>3, <2>6, <4>1 DEF DecimalPart, DecimalChar
    <3>2. \A i, j \in f .. t - 1 : i < j /\ At(s, j) = "." => At(s, i) # "."
      BY DEF DecimalPart
    <3>3. ASSUME NEW i \in f .. e - 1, NEW j \in f .. e - 1, At(s, i) = ".", At(s, j) = "."
          PROVE  i = j
      <4>1. i \in f .. t - 1 /\ j \in f .. t - 1
        BY <3>1
      <4>2. ~(i < j) /\ ~(j < i)
        BY <3>2, <3>3, <4>1
      <4> QED BY <4>2
    <3> QED BY <3>1, <3>3 DEF MantissaPart
  <2> DEFINE g == IF e + 1 < t /\ At(s, e + 1) \in Sign THEN (e + 1) + 1 ELSE e + 1
  <2>8. g \in e + 1 .. t /\ (At(s, e + 1) \notin Sign \/ e + 1 >= t => g = e + 1)
        /\ (e + 1 < t /\ At(s, e + 1) \in Sign => g = e + 2)
    BY <2>1
  <2>9. ExponentPart(s, e + 1, t)
        <=> PlainPart(s, g, t) /\ \E i \in g .. t - 1 : At(s, i) \in Digit
    BY DEF ExponentPart
  <2> HIDE DEF g
  <2>10. PlainPart(s, g, t)
    <3> SUFFICES ASSUME NEW i \in g .. t - 1
                 PROVE  At(s, i) \in Digit \cup {"_"}
      BY DEF PlainPart
    <3>1. i \in f .. t - 1 /\ e < i
      BY <2>8
    <3>2. At(s, i) \notin Sign
      <4>1. CASE i = e + 1
        <5>1. g = e + 1 /\ e + 1 < t
          BY <2>8, <4>1
        <5>2. At(s, e + 1) \notin Sign
          BY <2>8, <5>1
        <5> QED BY <4>1, <5>2
      <4>2. CASE i # e + 1
        BY <2>6, <3>1, <4>2
      <4> QED BY <4>1, <4>2
    <3> QED BY <2>4, <3>1, <3>2 DEF DecimalPart, DecimalChar
  <2>11. n.needDigit <=> ~\E i \in g .. t - 1 : At(s, i) \in Digit
    <3>1. n.needDigit <=> \A i, j \in f .. t - 1 :
                            i < j /\ At(s, i) \in ExponentChar => At(s, j) \notin Digit
      BY <1>3 DEF DecimalPart
    <3>2. ASSUME \A i, j \in f .. t - 1 :
                   i < j /\ At(s, i) \in ExponentChar => At(s, j) \notin Digit,
                 NEW i \in g .. t - 1
          PROVE  At(s, i) \notin Digit
      <4>1. i \in f .. t - 1 /\ e < i
        BY <2>8
      <4> QED BY <2>1, <3>2, <4>1
    <3>3. ASSUME \A i \in g .. t - 1 : At(s, i) \notin Digit,
                 NEW i \in f .. t - 1, NEW j \in f .. t - 1, i < j, At(s, i) \in ExponentChar
          PROVE  At(s, j) \notin Digit
      <4>1. i = e
        BY <2>5, <3>3
      <4>2. CASE j \in g .. t - 1
        BY <3>3, <4>2
      <4>3. CASE j \notin g .. t - 1
        <5>1. j = e + 1 /\ At(s, e + 1) \in Sign
          BY <2>8, <3>3, <4>1, <4>3
        <5> QED BY <5>1, NumberChars
      <4> QED BY <4>2, <4>3
    <3> QED BY <3>1, <3>2, <3>3
  <2>12. CASE n.needDigit
    <3>1. ~ExponentPart(s, e + 1, t)
      BY <2>9, <2>11, <2>12
    <3>2. ~FloatPart(s, f, t)
      BY <2>2, <2>5, <3>1 DEF FloatPart
    <3> QED BY <1>1, <2>2, <2>12, <3>2 DEF NumberPart
  <2>13. CASE ~n.needDigit
    <3>1. ExponentPart(s, e + 1, t)
      BY <2>9, <2>10, <2>11, <2>13
    <3>2. FloatPart(s, f, t)
      BY <2>1, <2>7, <3>1 DEF FloatPart
    <3> QED BY <1>1, <1>3, <2>2, <2>13, <3>2 DEF NumberPart
  <2> QED BY <2>12, <2>13
<1> QED BY <1>2, <1>3

\* A text with a fault is no number.
LEMMA FaultyIs ==
  ASSUME NEW s, NEW f \in Nat, NEW t \in Nat, f <= t, FaultyDecimal(s, f, t), Unprefixed(s, f)
  PROVE  NumberPart(s, f, t) = <<"M_V_MALFORMED_NUMBER">>
<1>1. ~BasedPart(s, f, t)
  BY UnprefixedIs
<1>2. ~MantissaPart(s, f, t)
  <2> SUFFICES ASSUME MantissaPart(s, f, t)
               PROVE  FALSE
    OBVIOUS
  <2>1. \A i \in f .. t - 1 : At(s, i) \in DecimalChar /\ At(s, i) \notin ExponentChar
    BY NumberChars DEF MantissaPart, DecimalChar
  <2>2. ASSUME NEW i \in f .. t - 1, NEW j \in f .. t - 1, i < j, At(s, j) = "."
        PROVE  At(s, i) # "."
    <3>1. At(s, i) = "." => i = j
      BY <2>2 DEF MantissaPart
    <3> QED BY <2>2, <3>1
  <2> QED BY <2>1, <2>2 DEF FaultyDecimal
<1>3. ~PlainPart(s, f, t)
  BY <1>2, NumberChars DEF PlainPart, MantissaPart
<1>4. ASSUME NEW e \in f .. t - 1, At(s, e) \in ExponentChar,
             MantissaPart(s, f, e), ExponentPart(s, e + 1, t)
      PROVE  FALSE
  <2>1. ASSUME NEW i \in f .. t - 1
        PROVE  /\ i < e => At(s, i) \in Digit \cup {"_", "."}
               /\ i > e => At(s, i) \in Digit \cup {"_"} \cup Sign
    <3>1. CASE i < e
      <4>1. i \in f .. e - 1 /\ ~(i > e)
        BY <3>1
      <4>2. At(s, i) \in Digit \cup {"_", "."}
        BY <1>4, <4>1 DEF MantissaPart
      <4> QED BY <4>1, <4>2
    <3>2. CASE i > e
      <4> DEFINE g == IF e + 1 < t /\ At(s, e + 1) \in Sign THEN (e + 1) + 1 ELSE e + 1
      <4>1. PlainPart(s, g, t)
        BY <1>4 DEF ExponentPart
      <4>2. CASE i \in g .. t - 1
        BY <3>2, <4>1, <4>2 DEF PlainPart
      <4>3. CASE i \notin g .. t - 1
        <5>1. i = e + 1 /\ At(s, e + 1) \in Sign
          BY <3>2, <4>3
        <5>2. At(s, i) \in Sign /\ ~(i < e)
          BY <3>2, <5>1
        <5> QED BY <5>2
      <4> QED BY <4>2, <4>3
    <3>3. CASE i = e
      <4>1. ~(i < e) /\ ~(i > e)
        BY <3>3
      <4> QED BY <4>1
    <3> QED BY <3>1, <3>2, <3>3
  <2>2. \A i \in f .. t - 1 : i = e \/ i < e \/ i > e
    OBVIOUS
  <2>3. \A i \in f .. t - 1 : At(s, i) \in DecimalChar
    BY <1>4, <2>1, <2>2 DEF DecimalChar
  <2>4. \A i \in f .. t - 1 : At(s, i) \in ExponentChar => i = e
    BY <2>1, <2>2, NumberChars
  <2>5. ASSUME NEW i \in f .. t - 1, At(s, i) = "."
        PROVE  i < e
    <3>1. i # e
      BY <1>4, <2>5, NumberChars
    <3>2. ~(i > e)
      BY <2>1, <2>5, NumberChars
    <3> QED BY <2>2, <3>1, <3>2
  <2>6. \A i, j \in f .. e - 1 : At(s, i) = "." /\ At(s, j) = "." => i = j
    BY <1>4 DEF MantissaPart
  <2>7. ASSUME NEW i \in f .. t - 1, NEW j \in f .. t - 1, i < j, At(s, j) = "."
        PROVE  At(s, i) \notin {"."} \cup ExponentChar
    <3>1. j < e
      BY <2>5, <2>7
    <3>2. i \in f .. e - 1 /\ j \in f .. e - 1 /\ i # e
      BY <2>7, <3>1
    <3>3. At(s, i) # "."
      BY <2>6, <2>7, <3>2
    <3>4. At(s, i) \notin ExponentChar
      BY <2>4, <3>2
    <3> QED BY <3>3, <3>4
  <2>8. ASSUME NEW i \in f .. t - 1, NEW j \in f .. t - 1, i < j,
               At(s, j) \in ExponentChar, At(s, i) \in ExponentChar
        PROVE  FALSE
    <3>1. i = e /\ j = e
      BY <2>4, <2>8
    <3> QED BY <2>8, <3>1
  <2> QED BY <2>3, <2>7, <2>8 DEF FaultyDecimal
<1> QED BY <1>1, <1>2, <1>3, <1>4 DEF NumberPart, FloatPart

\* The flags of a number in another base.
DigitsPart(s, f, t, m, n) ==
  /\ m \in BasedModes /\ f + 2 <= t
  /\ At(s, f) = "0" /\ At(s, f + 1) \in PrefixOf(m)
  /\ \A i \in f + 2 .. t - 1 : At(s, i) \in DigitsOf(m) \cup {"_"}
  /\ n.needDigit <=> \A i \in f + 2 .. t - 1 : At(s, i) \notin DigitsOf(m)
  /\ ~n.point /\ ~n.exponent

\* What makes a text no such number.
FaultyDigits(s, f, t) ==
  \E m \in BasedModes : /\ At(s, f) = "0" /\ At(s, f + 1) \in PrefixOf(m)
                        /\ \E i \in f + 2 .. t - 1 : At(s, i) \notin DigitsOf(m) \cup {"_"}

\* A text with a prefix is a number of its base or none.
LEMMA PrefixedIs ==
  ASSUME NEW s, NEW f \in Nat, NEW t \in Nat, f + 2 <= t, NEW m \in BasedModes,
         At(s, f) = "0", At(s, f + 1) \in PrefixOf(m)
  PROVE  /\ ~PlainPart(s, f, t) /\ ~FloatPart(s, f, t)
         /\ BasedPart(s, f, t) <=> /\ \A i \in f + 2 .. t - 1 : At(s, i) \in DigitsOf(m) \cup {"_"}
                                   /\ \E i \in f + 2 .. t - 1 : At(s, i) \in DigitsOf(m)
<1>1. At(s, f + 1) \in PrefixChar /\ f + 1 \in f .. t - 1
  BY Prefixes
<1>2. At(s, f + 1) \notin DecimalChar
  BY <1>1, NumberChars
<1>3. ~PlainPart(s, f, t) /\ ~MantissaPart(s, f, t)
  BY <1>1, <1>2 DEF PlainPart, MantissaPart, DecimalChar
<1>4. ASSUME NEW e \in f .. t - 1, At(s, e) \in ExponentChar, MantissaPart(s, f, e)
      PROVE  FALSE
  <2>1. e # f
    BY <1>4, NumberChars
  <2>2. e # f + 1
    BY <1>2, <1>4 DEF DecimalChar
  <2>3. f + 1 \in f .. e - 1
    BY <2>1, <2>2
  <2> QED BY <1>2, <1>4, <2>3 DEF MantissaPart, DecimalChar
<1>5. ~FloatPart(s, f, t)
  BY <1>3, <1>4 DEF FloatPart
<1>6. \A l \in BasedModes : At(s, f + 1) \in PrefixOf(l) => l = m
  BY Prefixes
<1>7. ASSUME BasedPart(s, f, t)
      PROVE  /\ \A i \in f + 2 .. t - 1 : At(s, i) \in DigitsOf(m) \cup {"_"}
             /\ \E i \in f + 2 .. t - 1 : At(s, i) \in DigitsOf(m)
  BY <1>6, <1>7 DEF BasedPart
<1>8. ASSUME \A i \in f + 2 .. t - 1 : At(s, i) \in DigitsOf(m) \cup {"_"},
             \E i \in f + 2 .. t - 1 : At(s, i) \in DigitsOf(m)
      PROVE  BasedPart(s, f, t)
  <2>1. PICK i \in f + 2 .. t - 1 : At(s, i) \in DigitsOf(m)
    BY <1>8
  <2>2. i \in f + 2 .. t - 1
    OBVIOUS
  <2>3. t - f > 2
    BY <2>2
  <2> QED BY <1>8, <2>3 DEF BasedPart
<1> QED BY <1>3, <1>5, <1>7, <1>8

\* The flags say what the text is.
LEMMA DigitsAre ==
  ASSUME NEW s, NEW f \in Nat, NEW t \in Nat, NEW m, NEW n \in Numbers,
         DigitsPart(s, f, t, m, n)
  PROVE  NumberPart(s, f, t) = IF n.needDigit THEN <<"M_V_MALFORMED_NUMBER">>
                               ELSE IF n.point \/ n.exponent THEN <<"M_V_FLOAT">>
                               ELSE <<"M_V_INT">>
<1>1. m \in BasedModes /\ f + 2 <= t /\ At(s, f) = "0" /\ At(s, f + 1) \in PrefixOf(m)
  BY DEF DigitsPart
<1>2. /\ ~PlainPart(s, f, t) /\ ~FloatPart(s, f, t)
      /\ BasedPart(s, f, t) <=> /\ \A i \in f + 2 .. t - 1 : At(s, i) \in DigitsOf(m) \cup {"_"}
                                /\ \E i \in f + 2 .. t - 1 : At(s, i) \in DigitsOf(m)
  BY <1>1, PrefixedIs
<1>3. BasedPart(s, f, t) <=> ~n.needDigit
  BY <1>2 DEF DigitsPart
<1>4. ~n.point /\ ~n.exponent
  BY DEF DigitsPart
<1> QED BY <1>2, <1>3, <1>4 DEF NumberPart

\* A text with a fault is no number.
LEMMA FaultyDigitsAre ==
  ASSUME NEW s, NEW f \in Nat, NEW t \in Nat, FaultyDigits(s, f, t)
  PROVE  NumberPart(s, f, t) = <<"M_V_MALFORMED_NUMBER">>
<1>1. PICK m \in BasedModes :
        /\ At(s, f) = "0" /\ At(s, f + 1) \in PrefixOf(m)
        /\ \E i \in f + 2 .. t - 1 : At(s, i) \notin DigitsOf(m) \cup {"_"}
  BY DEF FaultyDigits
<1>2. f + 2 <= t
  <2>1. PICK i \in f + 2 .. t - 1 : At(s, i) \notin DigitsOf(m) \cup {"_"}
    BY <1>1
  <2>2. i \in f + 2 .. t - 1
    OBVIOUS
  <2> QED BY <2>2
<1>3. /\ ~PlainPart(s, f, t) /\ ~FloatPart(s, f, t)
      /\ ~BasedPart(s, f, t)
  BY <1>1, <1>2, PrefixedIs
<1> QED BY <1>3 DEF NumberPart

-----------------------------------------------------------------------------
(* Reading a number.                                                         *)

\* The places of a text with one character more.
LEMMA OnePlaceMore ==
  ASSUME NEW f \in Nat, NEW t \in Nat, f <= t
  PROVE  /\ f .. t - 1 \subseteq f .. (t + 1) - 1 /\ t \in f .. (t + 1) - 1
         /\ \A i \in f .. (t + 1) - 1 : i \in f .. t - 1 \/ i = t
         /\ \A i \in f .. t - 1 : i < t
         /\ \A i, j \in f .. (t + 1) - 1 :
              i < j => i \in f .. t - 1 /\ (j = t \/ j \in f .. t - 1)
OBVIOUS

\* A fault stays.
LEMMA FaultStays ==
  ASSUME NEW s, NEW f \in Nat, NEW t \in Nat, NEW u \in Nat, t <= u
  PROVE  /\ FaultyDecimal(s, f, t) => FaultyDecimal(s, f, u)
         /\ FaultyDigits(s, f, t) => FaultyDigits(s, f, u)
<1>1. /\ \A i \in f .. t - 1 : i \in f .. u - 1
      /\ \A i \in f + 2 .. t - 1 : i \in f + 2 .. u - 1
  OBVIOUS
<1>2. FaultyDecimal(s, f, t) => FaultyDecimal(s, f, u)
  BY <1>1 DEF FaultyDecimal
<1>3. FaultyDigits(s, f, t) => FaultyDigits(s, f, u)
  BY <1>1 DEF FaultyDigits
<1> QED BY <1>2, <1>3

\* A digit of a decimal number.
LEMMA DigitRead ==
  ASSUME NEW s, NEW f \in Nat, NEW t \in Nat, f <= t, NEW n \in Numbers,
         DecimalPart(s, f, t, n), At(s, t) \in Digit \cup {"_"}
  PROVE  DecimalPart(s, f, t + 1, [n EXCEPT !.needDigit = @ /\ At(s, t) = "_"])
<1> DEFINE o == [n EXCEPT !.needDigit = @ /\ At(s, t) = "_"]
<1>1. /\ o.point <=> n.point
      /\ o.exponent <=> n.exponent
      /\ o.needDigit <=> n.needDigit /\ At(s, t) = "_"
  BY DEF Numbers
<1> HIDE DEF o
<1>2. At(s, t) \notin {"."} \cup ExponentChar \cup Sign /\ At(s, t) \in DecimalChar
  BY NumberChars DEF DecimalChar
<1>3. \A i \in f .. (t + 1) - 1 : At(s, i) \in DecimalChar
  BY <1>2, OnePlaceMore DEF DecimalPart
<1>4. /\ \A i, j \in f .. (t + 1) - 1 :
           i < j /\ At(s, j) = "." => At(s, i) \notin {"."} \cup ExponentChar
      /\ \A i, j \in f .. (t + 1) - 1 :
           i < j /\ At(s, j) \in ExponentChar => At(s, i) \notin ExponentChar
  <2> SUFFICES ASSUME NEW i \in f .. (t + 1) - 1, NEW j \in f .. (t + 1) - 1, i < j
               PROVE  /\ At(s, j) = "." => At(s, i) \notin {"."} \cup ExponentChar
                      /\ At(s, j) \in ExponentChar => At(s, i) \notin ExponentChar
    OBVIOUS
  <2>1. CASE j = t
    BY <1>2, <2>1
  <2>2. CASE j # t
    <3>1. i \in f .. t - 1 /\ j \in f .. t - 1
      BY <2>2, OnePlaceMore
    <3> QED BY <3>1 DEF DecimalPart
  <2> QED BY <2>1, <2>2
<1>5. \A i \in f .. (t + 1) - 1 : At(s, i) \in Sign => i > f /\ At(s, i - 1) \in ExponentChar
  BY <1>2, OnePlaceMore DEF DecimalPart
<1>6. /\ o.point <=> \E i \in f .. (t + 1) - 1 : At(s, i) = "."
      /\ o.exponent <=> \E i \in f .. (t + 1) - 1 : At(s, i) \in ExponentChar
  BY <1>1, <1>2, OnePlaceMore DEF DecimalPart
<1>7. o.needDigit <=> /\ o.exponent
                      /\ \A i, j \in f .. (t + 1) - 1 :
                           i < j /\ At(s, i) \in ExponentChar => At(s, j) \notin Digit
  <2>1. CASE o.needDigit
    <3>1. n.needDigit /\ At(s, t) = "_"
      BY <1>1, <2>1
    <3>2. n.exponent /\ At(s, t) \notin Digit
      BY <3>1, NumberChars DEF DecimalPart
    <3>3. \A i, j \in f .. t - 1 : i < j /\ At(s, i) \in ExponentChar => At(s, j) \notin Digit
      BY <3>1 DEF DecimalPart
    <3>4. ASSUME NEW i \in f .. (t + 1) - 1, NEW j \in f .. (t + 1) - 1, i < j,
                 At(s, i) \in ExponentChar
          PROVE  At(s, j) \notin Digit
      <4>1. CASE j = t
        BY <3>2, <4>1
      <4>2. CASE j # t
        <5>1. i \in f .. t - 1 /\ j \in f .. t - 1
          BY <3>4, <4>2, OnePlaceMore
        <5> QED BY <3>3, <3>4, <5>1
      <4> QED BY <4>1, <4>2
    <3> QED BY <1>1, <2>1, <3>2, <3>4
  <2>2. CASE ~o.needDigit /\ o.exponent
    <3>1. PICK e \in f .. t - 1 : At(s, e) \in ExponentChar
      BY <1>1, <2>2 DEF DecimalPart
    <3>2. CASE n.needDigit
      <4>1. At(s, t) \in Digit
        BY <1>1, <2>2, <3>2
      <4>2. e \in f .. (t + 1) - 1 /\ t \in f .. (t + 1) - 1 /\ e < t
        BY OnePlaceMore
      <4> QED BY <2>2, <3>1, <4>1, <4>2
    <3>3. CASE ~n.needDigit
      <4>1. PICK i \in f .. t - 1, j \in f .. t - 1 :
              i < j /\ At(s, i) \in ExponentChar /\ At(s, j) \in Digit
        BY <1>1, <2>2, <3>3 DEF DecimalPart
      <4>2. i \in f .. (t + 1) - 1 /\ j \in f .. (t + 1) - 1
        BY OnePlaceMore
      <4> QED BY <2>2, <4>1, <4>2
    <3> QED BY <3>2, <3>3
  <2>3. CASE ~o.needDigit /\ ~o.exponent
    BY <2>3
  <2> QED BY <2>1, <2>2, <2>3
<1>8. DecimalPart(s, f, t + 1, o)
  BY <1>3, <1>4, <1>5, <1>6, <1>7 DEF DecimalPart
<1> QED BY <1>8 DEF o

\* A character that no decimal number has.
LEMMA ForeignRead ==
  ASSUME NEW s, NEW f \in Nat, NEW t \in Nat, f <= t, At(s, t) \notin DecimalChar
  PROVE  FaultyDecimal(s, f, t + 1)
BY OnePlaceMore DEF FaultyDecimal

\* A second point, or one after an e, is a fault.
LEMMA PointFaulty ==
  ASSUME NEW s, NEW f \in Nat, NEW t \in Nat, f <= t, NEW n,
         DecimalPart(s, f, t, n), At(s, t) = ".", n.exponent \/ n.needDigit \/ n.point
  PROVE  FaultyDecimal(s, f, t + 1)
<1>1. PICK i \in f .. t - 1 : At(s, i) \in {"."} \cup ExponentChar
  BY DEF DecimalPart
<1>2. i \in f .. (t + 1) - 1 /\ t \in f .. (t + 1) - 1 /\ i < t
  BY OnePlaceMore
<1> QED BY <1>1, <1>2 DEF FaultyDecimal

\* The point of a decimal number.
LEMMA PointRead ==
  ASSUME NEW s, NEW f \in Nat, NEW t \in Nat, f <= t, NEW n, NEW o,
         DecimalPart(s, f, t, n), At(s, t) = ".", ~n.exponent, ~n.needDigit, ~n.point,
         o.point, ~o.exponent, ~o.needDigit
  PROVE  DecimalPart(s, f, t + 1, o)
<1>1. At(s, t) \notin Digit \cup {"_"} \cup ExponentChar \cup Sign /\ At(s, t) \in DecimalChar
  BY NumberChars DEF DecimalChar
<1>2. \A i \in f .. t - 1 : At(s, i) \notin {"."} \cup ExponentChar
  BY DEF DecimalPart
<1>3. \A i \in f .. (t + 1) - 1 : At(s, i) \in DecimalChar /\ At(s, i) \notin ExponentChar
  BY <1>1, <1>2, OnePlaceMore DEF DecimalPart
<1>4. \A i, j \in f .. (t + 1) - 1 :
        i < j /\ At(s, j) = "." => At(s, i) \notin {"."} \cup ExponentChar
  BY <1>2, OnePlaceMore
<1>5. \A i \in f .. (t + 1) - 1 : At(s, i) \in Sign => i > f /\ At(s, i - 1) \in ExponentChar
  BY <1>1, OnePlaceMore DEF DecimalPart
<1>6. \E i \in f .. (t + 1) - 1 : At(s, i) = "."
  BY OnePlaceMore
<1> QED BY <1>3, <1>4, <1>5, <1>6 DEF DecimalPart

\* A second e is a fault.
LEMMA ExponentFaulty ==
  ASSUME NEW s, NEW f \in Nat, NEW t \in Nat, f <= t, NEW n,
         DecimalPart(s, f, t, n), At(s, t) \in ExponentChar, n.exponent \/ n.needDigit
  PROVE  FaultyDecimal(s, f, t + 1)
<1>1. PICK i \in f .. t - 1 : At(s, i) \in ExponentChar
  BY DEF DecimalPart
<1>2. i \in f .. (t + 1) - 1 /\ t \in f .. (t + 1) - 1 /\ i < t
  BY OnePlaceMore
<1> QED BY <1>1, <1>2 DEF FaultyDecimal

\* The e of a decimal number.
LEMMA ExponentRead ==
  ASSUME NEW s, NEW f \in Nat, NEW t \in Nat, f <= t, NEW n, NEW o,
         DecimalPart(s, f, t, n), At(s, t) \in ExponentChar, ~n.exponent, ~n.needDigit,
         o.point <=> n.point, o.exponent, o.needDigit
  PROVE  DecimalPart(s, f, t + 1, o)
<1>1. At(s, t) \notin Digit \cup {"_", "."} \cup Sign /\ At(s, t) \in DecimalChar
  BY NumberChars DEF DecimalChar
<1>2. \A i \in f .. t - 1 : At(s, i) \notin ExponentChar
  BY DEF DecimalPart
<1>3. \A i \in f .. (t + 1) - 1 : At(s, i) \in DecimalChar
  BY <1>1, OnePlaceMore DEF DecimalPart
<1>4. \A i, j \in f .. (t + 1) - 1 :
        i < j /\ At(s, j) = "." => At(s, i) \notin {"."} \cup ExponentChar
  <2> SUFFICES ASSUME NEW i \in f .. (t + 1) - 1, NEW j \in f .. (t + 1) - 1,
                      i < j, At(s, j) = "."
               PROVE  At(s, i) \notin {"."} \cup ExponentChar
    OBVIOUS
  <2>1. i \in f .. t - 1 /\ j \in f .. t - 1
    BY <1>1, OnePlaceMore
  <2> QED BY <2>1 DEF DecimalPart
<1>5. \A i, j \in f .. (t + 1) - 1 : i < j => At(s, i) \notin ExponentChar
  BY <1>2, OnePlaceMore
<1>6. \A i \in f .. (t + 1) - 1 : At(s, i) \in Sign => i > f /\ At(s, i - 1) \in ExponentChar
  BY <1>1, OnePlaceMore DEF DecimalPart
<1>7. o.point <=> \E i \in f .. (t + 1) - 1 : At(s, i) = "."
  BY <1>1, OnePlaceMore DEF DecimalPart
<1>8. \E i \in f .. (t + 1) - 1 : At(s, i) \in ExponentChar
  BY OnePlaceMore
<1>9. \A i, j \in f .. (t + 1) - 1 : i < j /\ At(s, i) \in ExponentChar => At(s, j) \notin Digit
  BY <1>5
<1> QED BY <1>3, <1>4, <1>5, <1>6, <1>7, <1>8, <1>9 DEF DecimalPart

\* The sign of an exponent.
LEMMA SignRead ==
  ASSUME NEW s, NEW f \in Nat, NEW t \in Nat, f < t, NEW n,
         DecimalPart(s, f, t, n), At(s, t - 1) \in ExponentChar, At(s, t) \in Sign
  PROVE  DecimalPart(s, f, t + 1, n)
<1>0. f <= t
  OBVIOUS
<1>1. /\ At(s, t) \notin Digit \cup {"_", "."} \cup ExponentChar /\ At(s, t) \in DecimalChar
  BY NumberChars DEF DecimalChar
<1>2. \A i \in f .. (t + 1) - 1 : At(s, i) \in DecimalChar
  BY <1>0, <1>1, OnePlaceMore DEF DecimalPart
<1>3. /\ \A i, j \in f .. (t + 1) - 1 :
           i < j /\ At(s, j) = "." => At(s, i) \notin {"."} \cup ExponentChar
      /\ \A i, j \in f .. (t + 1) - 1 :
           i < j /\ At(s, j) \in ExponentChar => At(s, i) \notin ExponentChar
  <2> SUFFICES ASSUME NEW i \in f .. (t + 1) - 1, NEW j \in f .. (t + 1) - 1, i < j,
                      At(s, j) \in {"."} \cup ExponentChar
               PROVE  /\ At(s, j) = "." => At(s, i) \notin {"."} \cup ExponentChar
                      /\ At(s, j) \in ExponentChar => At(s, i) \notin ExponentChar
    OBVIOUS
  <2>1. i \in f .. t - 1 /\ j \in f .. t - 1
    BY <1>0, <1>1, OnePlaceMore
  <2> QED BY <2>1 DEF DecimalPart
<1>4. \A i \in f .. (t + 1) - 1 : At(s, i) \in Sign => i > f /\ At(s, i - 1) \in ExponentChar
  BY <1>0, <1>1, OnePlaceMore DEF DecimalPart
<1>5. /\ n.point <=> \E i \in f .. (t + 1) - 1 : At(s, i) = "."
      /\ n.exponent <=> \E i \in f .. (t + 1) - 1 : At(s, i) \in ExponentChar
  BY <1>0, <1>1, OnePlaceMore DEF DecimalPart
<1>6. (\A i, j \in f .. t - 1 : i < j /\ At(s, i) \in ExponentChar => At(s, j) \notin Digit)
      <=> \A i, j \in f .. (t + 1) - 1 :
            i < j /\ At(s, i) \in ExponentChar => At(s, j) \notin Digit
  <2>1. \A i, j \in f .. (t + 1) - 1 : i < j => i \in f .. t - 1 /\ (j = t \/ j \in f .. t - 1)
    BY <1>0, OnePlaceMore
  <2>2. \A i \in f .. t - 1 : i \in f .. (t + 1) - 1
    BY <1>0, OnePlaceMore
  <2> QED BY <1>1, <2>1, <2>2
<1> QED BY <1>2, <1>3, <1>4, <1>5, <1>6 DEF DecimalPart

\* A character of a number in another base.
LEMMA BasedRead ==
  ASSUME NEW s, NEW f \in Nat, NEW t \in Nat, NEW m, NEW n \in Numbers,
         DigitsPart(s, f, t, m, n)
  PROVE  /\ At(s, t) \in DigitsOf(m) \cup {"_"} =>
              DigitsPart(s, f, t + 1, m, [n EXCEPT !.needDigit = @ /\ At(s, t) = "_"])
         /\ At(s, t) \notin DigitsOf(m) \cup {"_"} => FaultyDigits(s, f, t + 1)
<1> DEFINE o == [n EXCEPT !.needDigit = @ /\ At(s, t) = "_"]
<1>1. /\ o.point <=> n.point
      /\ o.exponent <=> n.exponent
      /\ o.needDigit <=> n.needDigit /\ At(s, t) = "_"
  BY DEF Numbers
<1> HIDE DEF o
<1>2. /\ m \in BasedModes /\ f + 2 <= t
      /\ At(s, f) = "0" /\ At(s, f + 1) \in PrefixOf(m)
  BY DEF DigitsPart
<1>3. /\ \A i \in f + 2 .. t - 1 : i \in f + 2 .. (t + 1) - 1
      /\ t \in f + 2 .. (t + 1) - 1 /\ f + 2 <= t + 1
      /\ \A i \in f + 2 .. (t + 1) - 1 : i \in f + 2 .. t - 1 \/ i = t
  BY <1>2
<1>4. "_" \notin DigitsOf(m)
  <2>1. DigitsOf(m) \subseteq Digit \cup HexLetter
    BY <1>2, NumberChars DEF DigitsOf, BasedModes
  <2> QED BY <2>1, NumberChars DEF HexLetter
<1>5. ASSUME At(s, t) \in DigitsOf(m) \cup {"_"}
      PROVE  DigitsPart(s, f, t + 1, m, o)
  <2>1. \A i \in f + 2 .. (t + 1) - 1 : At(s, i) \in DigitsOf(m) \cup {"_"}
    BY <1>3, <1>5 DEF DigitsPart
  <2>2. o.needDigit <=> \A i \in f + 2 .. (t + 1) - 1 : At(s, i) \notin DigitsOf(m)
    <3>1. n.needDigit <=> \A i \in f + 2 .. t - 1 : At(s, i) \notin DigitsOf(m)
      BY DEF DigitsPart
    <3>2. At(s, t) = "_" <=> At(s, t) \notin DigitsOf(m)
      BY <1>4, <1>5
    <3> QED BY <1>1, <1>3, <3>1, <3>2
  <2>3. ~o.point /\ ~o.exponent
    BY <1>1 DEF DigitsPart
  <2> QED BY <1>2, <1>3, <2>1, <2>2, <2>3 DEF DigitsPart
<1>6. ASSUME At(s, t) \notin DigitsOf(m) \cup {"_"}
      PROVE  FaultyDigits(s, f, t + 1)
  BY <1>2, <1>3, <1>6 DEF FaultyDigits
<1> QED BY <1>5, <1>6 DEF o

-----------------------------------------------------------------------------
(* The scanner of numbers.                                                   *)

NumberModes == {"decimal", "hex", "octal", "binary", "recover"}

\* The flags say what the text from f to t is.
Flagged(s, f, t, m, n) ==
  \/ m = "decimal" /\ ~n.malformed /\ Unprefixed(s, f) /\ DecimalPart(s, f, t, n)
  \/ m \in {"decimal", "recover"} /\ n.malformed /\ Unprefixed(s, f) /\ FaultyDecimal(s, f, t)
  \/ ~n.malformed /\ DigitsPart(s, f, t, m, n)
  \/ m = "recover" /\ n.malformed /\ FaultyDigits(s, f, t)

\* They do so for a number that goes on on the line on which it began.
Flags ==
  mode \in NumberModes =>
    /\ After(source, begin.offset) <= position
    /\ At(source, begin.offset + 1) = NL
         \/ Flagged(source, begin.offset, position, mode, number)

\* A number in a state of the invariant.
LEMMA InNumberModes ==
  ASSUME IInv, mode \in NumberModes
  PROVE  /\ begin.offset \in Nat /\ position \in Nat /\ Len(source) \in Nat
         /\ begin.offset < position /\ position <= Len(source)
         /\ number \in Numbers
<1>1. mode # "scan" /\ mode \notin {"switch", "done"}
  BY DEF NumberModes
<1>2. begin.offset < position
  BY <1>1 DEF IInv, Ahead
<1>3. number \in Numbers
  BY DEF IInv, TypeOK, Numbers
<1> QED BY <1>2, <1>3, InNumbers

\* The character that a number reads is in the text, and is no new line.
LEMMA ReadsOne ==
  ASSUME IInv, current # NUL, ConsumeNoLine
  PROVE  position < Len(source) /\ position' = position + 1
<1>1. position < length
  BY InNumbers DEF current, CharAt
<1> QED BY <1>1, InNumbers DEF ConsumeNoLine, NextOnLine

\* consume goes on by one character, or to the other side of a new line.
LEMMA AfterNext ==
  ASSUME NEW s, Len(s) \in Nat, NEW i \in Nat, i < Len(s), At(s, i + 1) # NL
  PROVE  After(s, i) = i + 1
<1> DEFINE k == After(s, i)
<1>1. k \in i + 1 .. Len(s) /\ \A j \in i + 1 .. k - 1 : At(s, j) = NL
  BY AfterIs
<1> HIDE DEF k
<1>2. ASSUME k > i + 1
      PROVE  FALSE
  <2>1. i + 1 \in i + 1 .. k - 1
    BY <1>1, <1>2
  <2> QED BY <1>1, <2>1
<1> QED BY <1>1, <1>2 DEF k

\* A digit or a point is a token's first character and the only one seen.
LEMMA NumberSeen ==
  ASSUME IInv, mode = "switch", seen[1] \in Digit \/ seen = <<".">>
  PROVE  /\ seen[1] = At(source, begin.offset) /\ seen = <<At(source, begin.offset)>>
         /\ position = After(source, begin.offset)
         /\ begin.offset < Len(source)
<1>1. /\ seen \in Operators \cup {<<At(source, begin.offset)>>}
      /\ seen[1] = At(source, begin.offset)
      /\ Len(seen) = 1 => position = After(source, begin.offset)
  BY DEF IInv, Matched
<1>2. seen = <<At(source, begin.offset)>>
  <2>1. CASE seen = <<".">>
    BY <1>1, <2>1
  <2>2. CASE seen[1] \in Digit
    <3>1. Digit \cap OperatorChar = {}
      BY DEF Digit, OctalDigit, BinaryDigit, OperatorChar, Simple
    <3>2. seen \notin Operators
      <4> SUFFICES ASSUME seen \in Operators
                   PROVE  FALSE
        OBVIOUS
      <4>1. seen \in Seq(OperatorChar) /\ Len(seen) \in 1 .. 3
        BY OperatorChars
      <4>2. seen[1] \in OperatorChar
        BY <4>1
      <4> QED BY <2>2, <3>1, <4>2
    <3> QED BY <1>1, <3>2
  <2> QED BY <2>1, <2>2
<1>3. Len(seen) = 1
  BY <1>2
<1>4. At(source, begin.offset) # NUL
  <2>1. At(source, begin.offset) \in Digit \cup {"."}
    BY <1>1, <1>2
  <2> QED BY <2>1, DigitsAreWordChars, Distinct
<1>5. begin.offset < Len(source)
  BY <1>4 DEF At
<1> QED BY <1>1, <1>2, <1>3, <1>5

\* A number begins with its flags down.
LEMMA NumberBegins ==
  ASSUME IInv, BasedNumber \/ DecimalNumber, At(source, begin.offset + 1) # NL
  PROVE  Flagged(source, begin.offset, position', mode', number')
<1> DEFINE b == begin.offset
<1>0. b \in Nat /\ Len(source) \in Nat /\ position \in Nat
  BY InNumbers
<1>1. CASE BasedNumber
  <2>1. mode = "switch" /\ seen = <<"0">> /\ current \in PrefixChar /\ ConsumeNoLine
    BY <1>1 DEF BasedNumber, Switch, Prefix, PrefixChar
  <2>2. seen[1] \in Digit
    BY <2>1, NumberChars
  <2>3. /\ At(source, b) = "0" /\ position = After(source, b) /\ b < Len(source)
    <3>1. /\ seen[1] = At(source, b) /\ position = After(source, b) /\ b < Len(source)
      BY <2>1, <2>2, NumberSeen
    <3> QED BY <2>1, <3>1
  <2>4. position = b + 1
    BY <1>0, <2>3, AfterNext
  <2>5. current # NUL
    BY <2>1, DigitsAreWordChars, Distinct DEF PrefixChar
  <2>6. position' = b + 2
    BY <1>0, <2>1, <2>4, <2>5, ReadsOne
  <2>7. At(source, b + 1) = current
    BY <2>4, OfSource
  <2>8. mode' \in BasedModes /\ current \in PrefixOf(mode')
    <3>1. mode' = IF current \in {"x", "X"} THEN "hex"
                  ELSE IF current \in {"o", "O"} THEN "octal" ELSE "binary"
      BY <1>1 DEF BasedNumber
    <3>2. current \in {"x", "X", "o", "O", "b", "B"}
      BY <2>1 DEF PrefixChar
    <3>3. CASE current \in {"x", "X"}
      BY <3>1, <3>3 DEF BasedModes, PrefixOf
    <3>4. CASE current \in {"o", "O"}
      BY <3>1, <3>4 DEF BasedModes, PrefixOf
    <3>5. CASE current \in {"b", "B"}
      BY <3>1, <3>5 DEF BasedModes, PrefixOf
    <3> QED BY <3>2, <3>3, <3>4, <3>5
  <2>9. number' = [NoNumber EXCEPT !.needDigit = TRUE]
    BY <1>1 DEF BasedNumber
  <2>10. ~number'.malformed /\ ~number'.point /\ ~number'.exponent /\ number'.needDigit
    BY <2>9 DEF NoNumber
  <2>11. b + 2 <= b + 2 /\ \A i \in b + 2 .. (b + 2) - 1 : FALSE
    BY <1>0
  <2>12. DigitsPart(source, b, b + 2, mode', number')
    <3> HIDE DEF b
    <3> QED BY <2>3, <2>7, <2>8, <2>10, <2>11 DEF DigitsPart
  <2> QED BY <2>6, <2>10, <2>12 DEF Flagged
<1>2. CASE DecimalNumber
  <2>1. /\ mode = "switch" /\ (seen[1] \in Digit \/ seen = <<".">>)
        /\ ~Prefix /\ position' = position /\ mode' = "decimal"
        /\ number' = [NoNumber EXCEPT !.point = CharAt(position - 1) = "."]
    BY <1>2 DEF DecimalNumber, Switch, StartsNumber
  <2>2. /\ seen[1] = At(source, b) /\ seen = <<At(source, b)>>
        /\ position = After(source, b) /\ b < Len(source)
    BY <1>2, <2>1, NumberSeen DEF DecimalNumber, Switch
  <2>3. position = b + 1 /\ position - 1 = b
    BY <1>0, <2>2, AfterNext
  <2>4. /\ number'.point <=> At(source, b) = "."
        /\ ~number'.malformed /\ ~number'.exponent /\ ~number'.needDigit
    BY <2>1, <2>3, OfSource DEF NoNumber
  <2>5. At(source, b) \in Digit \cup {"."}
    BY <2>1, <2>2
  <2>6. At(source, b) \in DecimalChar /\ At(source, b) \notin ExponentChar \cup Sign
    BY <2>5, NumberChars DEF DecimalChar
  <2>7. \A i \in b .. (b + 1) - 1 : i = b
    BY <1>0
  <2>8. b \in b .. (b + 1) - 1 /\ ~(b < b)
    BY <1>0
  <2>9. Unprefixed(source, b)
    <3>1. current = At(source, b + 1)
      BY <2>3, OfSource
    <3>2. ~(seen = <<"0">> /\ current \in PrefixChar)
      BY <2>1 DEF Prefix, PrefixChar
    <3> QED BY <2>2, <3>1, <3>2 DEF Unprefixed
  <2>10. DecimalPart(source, b, b + 1, number')
    <3> HIDE DEF b
    <3>1. \A i \in b .. (b + 1) - 1 : At(source, i) = At(source, b)
      BY <2>7
    <3>2. \A i, j \in b .. (b + 1) - 1 : ~(i < j)
      BY <2>7, <2>8
    <3> QED BY <2>4, <2>6, <2>8, <3>1, <3>2 DEF DecimalPart
  <2> QED BY <2>1, <2>3, <2>4, <2>9, <2>10 DEF Flagged
<1> QED BY <1>1, <1>2

\* A number is read on.
LEMMA NumberReads ==
  ASSUME IInv, mode \in NumberModes, Step, mode' \in NumberModes,
         Flagged(source, begin.offset, position, mode, number)
  PROVE  Flagged(source, begin.offset, position', mode', number')
<1> DEFINE b == begin.offset
           p == position
<1>0. /\ b \in Nat /\ p \in Nat /\ Len(source) \in Nat
      /\ b < p /\ b <= p /\ number \in Numbers
  BY InNumberModes
<1>1. current = At(source, p)
  BY OfSource
<1>2. \A m : m \in BasedModes => m \notin {"decimal", "recover"}
  BY DEF BasedModes
<1>3. ASSUME DigitsPart(source, b, p, mode, number)
      PROVE  mode \in BasedModes
  BY <1>3 DEF DigitsPart
<1>4. CASE NumberDigit
  <2>1. /\ At(source, p) \in DigitsOf(mode) \cup {"_"} /\ mode # "recover" /\ mode' = mode
        /\ number' = [number EXCEPT !.needDigit = @ /\ At(source, p) = "_"]
        /\ ConsumeNoLine
    BY <1>1, <1>4 DEF NumberDigit
  <2>2. position' = p + 1
    <3>1. current # NUL
      BY <1>1, <2>1, DigitsAreWordChars, Distinct
    <3> QED BY <2>1, <3>1, ReadsOne
  <2>3. number'.malformed <=> number.malformed
    BY <1>0, <2>1 DEF Numbers
  <2>4. CASE mode = "decimal" /\ ~number.malformed /\ Unprefixed(source, b)
             /\ DecimalPart(source, b, p, number)
    <3>1. At(source, p) \in Digit \cup {"_"}
      BY <2>1, <2>4 DEF DigitsOf
    <3> HIDE DEF b, p
    <3>2. DecimalPart(source, b, p + 1, number')
      BY <1>0, <2>1, <2>4, <3>1, DigitRead
    <3> QED BY <2>1, <2>2, <2>3, <2>4, <3>2 DEF Flagged, b
  <2>5. CASE mode = "decimal" /\ number.malformed /\ Unprefixed(source, b)
             /\ FaultyDecimal(source, b, p)
    <3> HIDE DEF b, p
    <3>1. FaultyDecimal(source, b, p + 1)
      BY <1>0, <2>5, FaultStays
    <3> QED BY <2>1, <2>2, <2>3, <2>5, <3>1 DEF Flagged, b
  <2>6. CASE ~number.malformed /\ DigitsPart(source, b, p, mode, number)
    <3> HIDE DEF b, p
    <3>1. DigitsPart(source, b, p + 1, mode, number')
      BY <1>0, <2>1, <2>6, BasedRead
    <3> QED BY <2>1, <2>2, <2>3, <2>6, <3>1 DEF Flagged, b
  <2> QED BY <2>1, <2>4, <2>5, <2>6 DEF Flagged
<1>5. CASE NumberPoint
  <2>1. /\ mode = "decimal" /\ mode' = mode /\ At(source, p) = "." /\ ConsumeNoLine
        /\ number' = IF number.exponent \/ number.needDigit \/ number.point
                       THEN [number EXCEPT !.malformed = TRUE]
                       ELSE [number EXCEPT !.point = ~number.malformed]
    BY <1>1, <1>5 DEF NumberPoint
  <2>2. position' = p + 1
    <3>1. current # NUL
      BY <1>1, <2>1, Distinct
    <3> QED BY <2>1, <3>1, ReadsOne
  <2>3. /\ number'.malformed <=> \/ number.malformed \/ number.exponent \/ number.needDigit
                                 \/ number.point
        /\ ~number'.malformed => /\ number'.point
                                 /\ ~number'.exponent /\ ~number'.needDigit
                                 /\ ~number.exponent /\ ~number.needDigit /\ ~number.point
    BY <1>0, <2>1 DEF Numbers
  <2>4. CASE ~number.malformed /\ Unprefixed(source, b) /\ DecimalPart(source, b, p, number)
    <3> HIDE DEF b, p
    <3>1. CASE number'.malformed
      <4>1. FaultyDecimal(source, b, p + 1)
        <5>1. \/ number.exponent \/ number.needDigit \/ number.point
          BY <2>3, <2>4, <3>1
        <5> QED BY <1>0, <2>1, <2>4, <5>1, PointFaulty
      <4> QED BY <2>1, <2>2, <2>4, <3>1, <4>1 DEF Flagged, b
    <3>2. CASE ~number'.malformed
      <4>1. DecimalPart(source, b, p + 1, number')
        BY <1>0, <2>1, <2>3, <2>4, <3>2, PointRead
      <4> QED BY <2>1, <2>2, <2>4, <3>2, <4>1 DEF Flagged, b
    <3> QED BY <3>1, <3>2
  <2>5. CASE number.malformed /\ Unprefixed(source, b) /\ FaultyDecimal(source, b, p)
    <3> HIDE DEF b, p
    <3>1. FaultyDecimal(source, b, p + 1)
      BY <1>0, <2>5, FaultStays
    <3> QED BY <2>1, <2>2, <2>3, <2>5, <3>1 DEF Flagged, b
  <2> QED BY <1>2, <1>3, <2>1, <2>4, <2>5 DEF Flagged
<1>6. CASE NumberExponent
  <2>1. /\ mode = "decimal" /\ mode' = mode /\ At(source, p) \in ExponentChar
        /\ number' = IF number.exponent \/ number.needDigit
                       THEN [number EXCEPT !.malformed = TRUE]
                       ELSE [number EXCEPT !.exponent = ~number.malformed, !.needDigit = TRUE]
        /\ position' = NextOnLine(IF peek \in Sign THEN NextOnLine(p) ELSE p)
    BY <1>1, <1>6 DEF NumberExponent, ExponentChar, Sign
  <2>2. position' \in {p + 1, p + 2} /\ (position' = p + 2 => At(source, p + 1) \in Sign)
    <3>1. current # NUL
      BY <1>1, <2>1, NumberChars, Distinct
    <3>2. p < length /\ length \in Nat
      BY <3>1, InNumbers DEF current, CharAt
    <3>3. NextOnLine(p) = p + 1
      BY <1>0, <3>2 DEF NextOnLine
    <3>4. CASE peek \in Sign
      <4>1. peek # NUL
        BY <3>4, Distinct DEF Sign
      <4>2. p + 1 < length
        BY <4>1 DEF peek, CharAt
      <4>3. position' = p + 2
        BY <1>0, <2>1, <3>2, <3>3, <3>4, <4>2 DEF NextOnLine
      <4>4. At(source, p + 1) \in Sign
        BY <3>4, OfSource
      <4> QED BY <4>3, <4>4
    <3>5. CASE peek \notin Sign
      <4>1. position' = p + 1
        BY <2>1, <3>3, <3>5
      <4> QED BY <1>0, <4>1
    <3> QED BY <3>4, <3>5
  <2>3. /\ number'.malformed <=> number.malformed \/ number.exponent \/ number.needDigit
        /\ ~number'.malformed => /\ number'.point <=> number.point
                                 /\ number'.exponent /\ number'.needDigit
                                 /\ ~number.exponent /\ ~number.needDigit
    BY <1>0, <2>1 DEF Numbers
  <2>4. p + 1 \in Nat /\ p + 2 \in Nat /\ p + 1 <= p + 2 /\ b <= p + 1 /\ b < p + 1
        /\ (p + 1) + 1 = p + 2 /\ (p + 1) - 1 = p /\ p <= p + 1 /\ p <= p + 2
    BY <1>0
  <2>5. CASE ~number.malformed /\ Unprefixed(source, b) /\ DecimalPart(source, b, p, number)
    <3> HIDE DEF b, p
    <3>1. CASE number'.malformed
      <4>1. FaultyDecimal(source, b, p + 1)
        <5>1. number.exponent \/ number.needDigit
          BY <2>3, <2>5, <3>1
        <5> QED BY <1>0, <2>1, <2>5, <5>1, ExponentFaulty
      <4>2. FaultyDecimal(source, b, p + 2)
        BY <1>0, <2>4, <4>1, FaultStays
      <4> QED BY <2>1, <2>2, <2>5, <3>1, <4>1, <4>2 DEF Flagged, b
    <3>2. CASE ~number'.malformed
      <4>1. DecimalPart(source, b, p + 1, number')
        BY <1>0, <2>1, <2>3, <2>5, <3>2, ExponentRead
      <4>2. ASSUME At(source, p + 1) \in Sign
            PROVE  DecimalPart(source, b, p + 2, number')
        <5>1. DecimalPart(source, b, (p + 1) + 1, number')
          BY <1>0, <2>1, <2>4, <4>1, <4>2, SignRead
        <5> QED BY <2>4, <5>1
      <4> QED BY <2>1, <2>2, <2>5, <3>2, <4>1, <4>2 DEF Flagged, b
    <3> QED BY <3>1, <3>2
  <2>6. CASE number.malformed /\ Unprefixed(source, b) /\ FaultyDecimal(source, b, p)
    <3> HIDE DEF b, p
    <3>1. FaultyDecimal(source, b, p + 1) /\ FaultyDecimal(source, b, p + 2)
      BY <1>0, <2>4, <2>6, FaultStays
    <3> QED BY <2>1, <2>2, <2>3, <2>6, <3>1 DEF Flagged, b
  <2> QED BY <1>2, <1>3, <2>1, <2>5, <2>6 DEF Flagged
<1>7. CASE RecoverMalformed
  <2>1. /\ ~InNumber /\ current \in WordChar \cup {"."}
        /\ mode' = "recover" /\ ConsumeNoLine
        /\ number' = [number EXCEPT !.malformed = TRUE]
    BY <1>7 DEF RecoverMalformed, Delimiter
  <2>2. position' = p + 1 /\ number'.malformed
    <3>1. current # NUL
      BY <2>1, Distinct
    <3>2. number'.malformed
      BY <1>0, <2>1 DEF Numbers
    <3> QED BY <2>1, <3>1, <3>2, ReadsOne
  <2>3. CASE mode = "decimal" /\ Unprefixed(source, b) /\ DecimalPart(source, b, p, number)
    <3>1. current \notin Digit \cup {"_", "."} \cup ExponentChar
      BY <2>1, <2>3 DEF InNumber, ExponentChar
    <3>2. current \notin Sign
      BY <2>1, NumberChars
    <3>3. At(source, p) \notin DecimalChar
      BY <1>1, <3>1, <3>2 DEF DecimalChar
    <3> HIDE DEF b, p
    <3>4. FaultyDecimal(source, b, p + 1)
      BY <1>0, <3>3, ForeignRead
    <3> QED BY <2>1, <2>2, <2>3, <3>4 DEF Flagged, b
  <2>4. CASE Unprefixed(source, b) /\ FaultyDecimal(source, b, p)
    <3> HIDE DEF b, p
    <3>1. FaultyDecimal(source, b, p + 1)
      BY <1>0, <2>4, FaultStays
    <3> QED BY <2>1, <2>2, <2>4, <3>1 DEF Flagged, b
  <2>5. CASE DigitsPart(source, b, p, mode, number)
    <3>1. mode \in BasedModes
      BY <1>3, <2>5
    <3>2. At(source, p) \notin DigitsOf(mode) \cup {"_"}
      BY <1>1, <2>1, <3>1 DEF InNumber, BasedModes
    <3> HIDE DEF b, p
    <3>3. FaultyDigits(source, b, p + 1)
      BY <1>0, <2>5, <3>2, BasedRead
    <3> QED BY <2>1, <2>2, <3>3 DEF Flagged, b
  <2>6. CASE FaultyDigits(source, b, p)
    <3> HIDE DEF b, p
    <3>1. FaultyDigits(source, b, p + 1)
      BY <1>0, <2>6, FaultStays
    <3> QED BY <2>1, <2>2, <3>1 DEF Flagged, b
  <2> QED BY <2>3, <2>4, <2>5, <2>6 DEF Flagged
<1>8. CASE ~(NumberDigit \/ NumberPoint \/ NumberExponent \/ RecoverMalformed)
  <2>1. mode \notin {"scan", "switch", "string", "word", "short", "long"}
    BY DEF NumberModes
  <2>2. NumberEnds
    BY <1>8, <2>1 DEF Step, SkipWhiteSpace, ScanToken, Match, MakeToken, MakeEOF, Illegal,
         MakeString, StringEscape, StringChar, StringEnds, StringUnfinished,
         ChooseKeywordOrIdentifier, Word, WordEnds, ShortComment, SkipShortComment,
         ShortCommentEnds, LongComment, SkipLongComment, LongCommentEnds, BasedNumber,
         DecimalNumber, Goes, Switch
  <2> QED BY <2>2 DEF NumberEnds, Emit, NumberModes
<1> QED BY <1>4, <1>5, <1>6, <1>7, <1>8

\* The flags stay true to the text.
LEMMA FlagsInductive ==
  ASSUME IInv, Flags, Step
  PROVE  Flags'
<1> SUFFICES ASSUME mode' \in NumberModes
             PROVE  /\ source' = source /\ begin' = begin
                    /\ After(source, begin.offset) <= position'
                    /\ \/ At(source, begin.offset + 1) = NL
                       \/ Flagged(source, begin.offset, position', mode', number')
  BY DEF Flags
<1>1. source' = source /\ position' \in Nat /\ position \in Nat /\ position <= position'
  <2>1. source' = source /\ GoesOn(position', line')
    BY StepOn
  <2> QED BY <2>1, InNumbers DEF GoesOn
<1>2. /\ begin.offset \in Nat /\ begin.offset <= Len(source) /\ Len(source) \in Nat
      /\ begin' = begin
      /\ mode \in NumberModes \/ mode = "switch"
  <2>1. mode' \in Loops
    BY DEF NumberModes, Loops
  <2>2. Reads
    BY <2>1, StepShape DEF IInv, SkipsBlank, Begins, Matches, EndsComment, Emits, Ends, Loops
  <2>3. mode \in NumberModes \/ mode \in {"switch", "string", "word", "short", "long"}
    BY <2>2 DEF Reads, Loops, NumberModes
  <2>4. CASE mode \in {"string", "word", "short", "long"}
    <3>1. mode' \notin NumberModes
      BY <2>4 DEF Step, SkipWhiteSpace, ScanToken, Match, MakeToken, MakeEOF, Illegal,
         MakeString, StringEscape, StringChar, StringEnds, StringUnfinished,
         ChooseKeywordOrIdentifier, Word, WordEnds, ShortComment, SkipShortComment,
         ShortCommentEnds, LongComment, SkipLongComment, LongCommentEnds, BasedNumber,
         DecimalNumber, NumberDigit, NumberPoint, NumberExponent, RecoverMalformed, NumberEnds,
         Goes, Switch, Emit, NumberModes
    <3> QED BY <3>1
  <2> QED BY <2>2, <2>3, <2>4, InNumbers DEF Reads
<1>3. CASE mode \in NumberModes
  <2>1. /\ After(source, begin.offset) <= position
        /\ \/ At(source, begin.offset + 1) = NL
           \/ Flagged(source, begin.offset, position, mode, number)
    BY <1>3 DEF Flags
  <2>2. After(source, begin.offset) \in Int
    BY <1>2, AfterIs
  <2>3. After(source, begin.offset) <= position'
    BY <1>1, <2>1, <2>2
  <2> QED BY <1>1, <1>2, <1>3, <2>1, <2>3, NumberReads
<1>4. CASE mode = "switch"
  <2>1. BasedNumber \/ DecimalNumber
    BY <1>4 DEF Step, SkipWhiteSpace, ScanToken, Match, MakeToken, MakeEOF, Illegal,
         MakeString, StringEscape, StringChar, StringEnds, StringUnfinished,
         ChooseKeywordOrIdentifier, Word, WordEnds, ShortComment, SkipShortComment,
         ShortCommentEnds, LongComment, SkipLongComment, LongCommentEnds, NumberDigit,
         NumberPoint, NumberExponent, RecoverMalformed, NumberEnds, Goes, Switch, Emit,
         NumberModes
  <2>2. seen[1] \in Digit \/ seen = <<".">>
    BY <2>1, NumberChars DEF BasedNumber, DecimalNumber, Switch, StartsNumber
  <2>3. position = After(source, begin.offset)
    BY <1>4, <2>2, NumberSeen
  <2> QED BY <1>1, <1>2, <2>1, <2>3, NumberBegins
<1> QED BY <1>2, <1>3, <1>4

\* The last flags give the type.
LEMMA FlaggedIs ==
  ASSUME NEW s, NEW f \in Nat, NEW t \in Nat, f <= t, NEW m, NEW n \in Numbers,
         Flagged(s, f, t, m, n)
  PROVE  NumberPart(s, f, t) =
           IF n.needDigit \/ n.malformed THEN <<"M_V_MALFORMED_NUMBER">>
           ELSE IF n.point \/ n.exponent THEN <<"M_V_FLOAT">>
           ELSE <<"M_V_INT">>
<1>1. CASE n.malformed
  <2>1. NumberPart(s, f, t) = <<"M_V_MALFORMED_NUMBER">>
    BY <1>1, FaultyIs, FaultyDigitsAre DEF Flagged
  <2> QED BY <1>1, <2>1
<1>2. CASE ~n.malformed
  <2>1. NumberPart(s, f, t) = IF n.needDigit THEN <<"M_V_MALFORMED_NUMBER">>
                              ELSE IF n.point \/ n.exponent THEN <<"M_V_FLOAT">>
                              ELSE <<"M_V_INT">>
    BY <1>2, DecimalIs, DigitsAre DEF Flagged
  <2> QED BY <1>2, <2>1
<1> QED BY <1>1, <1>2

\* A token on one line that is called a number is what its text says.
Classified(s, t) == t.type \in NumberTypes =>
                      \/ \E i \in t.begin .. t.end - 1 : At(s, i) = NL
                      \/ t.type = NumberPart(s, t.begin, t.end)

\* The names of the types of numbers are no operators.
LEMMA NumberTypesApart ==
  /\ NumberTypes \cap Operators = {}
  /\ NumberTypes \cap {<<"M_ERROR">>, <<"M_EOF">>, <<"M_V_STRING">>, <<"M_V_UNFINISHED_STRING">>,
                       <<"M_V_IDENTIFIER">>} = {}
<1>1. {"M_V_INT", "M_V_FLOAT", "M_V_MALFORMED_NUMBER"} \cap OperatorChar = {}
  BY DEF OperatorChar, Simple
<1>2. ASSUME NEW t \in NumberTypes
      PROVE  t \notin Operators
  <2>1. t[1] \in {"M_V_INT", "M_V_FLOAT", "M_V_MALFORMED_NUMBER"} /\ Len(t) = 1
    BY <1>2 DEF NumberTypes
  <2>2. ASSUME t \in Operators
        PROVE  t[1] \in OperatorChar
    <3>1. t \in Seq(OperatorChar)
      BY <2>2, OperatorChars
    <3> QED BY <2>1, <3>1
  <2> QED BY <1>1, <2>1, <2>2
<1>3. \A x, y : <<x>> = <<y>> => x = y
  OBVIOUS
<1> QED BY <1>2, <1>3 DEF NumberTypes

\* Every token that a step makes is classified.
LEMMA TokenClassified ==
  ASSUME IInv, Flags, Step
  PROVE  \/ tokens' = tokens
         \/ \E t : tokens' = Append(tokens, t) /\ Classified(source, t)
<1> DEFINE b == begin.offset
           u(t) == [type |-> t, begin |-> b, end |-> position', line |-> begin.line]
<1>0. \A t : u(t).type = t /\ u(t).begin = b /\ u(t).end = position'
  OBVIOUS
<1>1. ASSUME NEW t, tokens' = Append(tokens, u(t)), t \notin NumberTypes
      PROVE  \E v : tokens' = Append(tokens, v) /\ Classified(source, v)
  <2>1. Classified(source, u(t))
    BY <1>0, <1>1 DEF Classified
  <2> QED BY <1>1, <2>1
<1>2. CASE MakeToken
  <2> DEFINE t == IF seen = <<"!">> THEN <<"M_ERROR">> ELSE seen
  <2>1. tokens' = Append(tokens, u(t)) /\ seen \in Operators
    BY <1>2 DEF MakeToken, Emit, IsOperator
  <2>2. t \notin NumberTypes
    BY <2>1, NumberTypesApart
  <2> HIDE DEF t, u
  <2> QED BY <1>1, <2>1, <2>2
<1>3. CASE Illegal \/ StringEnds \/ StringUnfinished
  <2>1. PICK t \in {<<"M_ERROR">>, <<"M_V_STRING">>, <<"M_V_UNFINISHED_STRING">>} :
          tokens' = Append(tokens, u(t))
    BY <1>3 DEF Illegal, StringEnds, StringUnfinished, Emit
  <2>2. t \notin NumberTypes
    BY NumberTypesApart
  <2> HIDE DEF u
  <2> QED BY <1>1, <2>1, <2>2
<1>4. CASE WordEnds
  <2> DEFINE t == IF Text(begin.offset, position) \in Keywords
                  THEN Text(begin.offset, position) ELSE <<"M_V_IDENTIFIER">>
  <2>1. tokens' = Append(tokens, u(t))
    BY <1>4 DEF WordEnds, Emit
  <2>2. t \notin NumberTypes
    BY NumberTypesApart, KeywordsAssumption
  <2> HIDE DEF t, u
  <2> QED BY <1>1, <2>1, <2>2
<1>5. CASE MakeEOF
  <2> DEFINE v == [type |-> <<"M_EOF">>, begin |-> begin.offset, end |-> begin.offset,
                   line |-> begin.line]
  <2>1. tokens' = Append(tokens, v)
    BY <1>5 DEF MakeEOF
  <2>2. v.type = <<"M_EOF">>
    OBVIOUS
  <2> HIDE DEF v
  <2>3. Classified(source, v)
    BY <2>2, NumberTypesApart DEF Classified
  <2> QED BY <2>1, <2>3
<1>6. CASE NumberEnds
  <2> DEFINE t == IF number.needDigit \/ number.malformed THEN <<"M_V_MALFORMED_NUMBER">>
                  ELSE IF number.point \/ number.exponent THEN <<"M_V_FLOAT">>
                  ELSE <<"M_V_INT">>
  <2>1. tokens' = Append(tokens, u(t)) /\ mode \in NumberModes /\ position' = position
    BY <1>6 DEF NumberEnds, Emit, NumberModes
  <2>2. /\ b \in Nat /\ position \in Nat /\ Len(source) \in Nat
        /\ b < position /\ position <= Len(source) /\ b <= position /\ b < Len(source)
        /\ number \in Numbers
    BY <2>1, InNumberModes
  <2>3. /\ After(source, b) <= position
        /\ At(source, b + 1) = NL \/ Flagged(source, b, position, mode, number)
    BY <2>1 DEF Flags
  <2> HIDE DEF b, t, u
  <2>4. CASE At(source, b + 1) = NL
    <3>1. After(source, b) \in b + 1 .. Len(source) /\ At(source, After(source, b)) # NL
      BY <2>2, AfterIs
    <3>2. After(source, b) # b + 1
      BY <2>4, <3>1
    <3>3. b + 1 \in b .. position - 1
      BY <2>2, <2>3, <3>1, <3>2
    <3>4. Classified(source, u(t))
      BY <1>0, <2>1, <2>4, <3>3 DEF Classified
    <3> QED BY <2>1, <3>4
  <2>5. CASE Flagged(source, b, position, mode, number)
    <3>1. t = NumberPart(source, b, position)
      BY <2>2, <2>5, FlaggedIs DEF t
    <3>2. Classified(source, u(t))
      BY <1>0, <2>1, <3>1 DEF Classified
    <3> QED BY <2>1, <3>2
  <2> QED BY <2>3, <2>4, <2>5
<1>7. CASE ~(MakeToken \/ Illegal \/ StringEnds \/ StringUnfinished \/ WordEnds \/ MakeEOF
             \/ NumberEnds)
  BY <1>7 DEF Step, SkipWhiteSpace, ScanToken, Match, MakeString, StringEscape, StringChar,
         ChooseKeywordOrIdentifier, Word, ShortComment, SkipShortComment, ShortCommentEnds,
         LongComment, SkipLongComment, LongCommentEnds, BasedNumber, DecimalNumber, NumberDigit,
         NumberPoint, NumberExponent, RecoverMalformed, Goes
<1> QED BY <1>2, <1>3, <1>4, <1>5, <1>6, <1>7

\* The flags of the number being scanned, and the types of those that have been.
NumbersRight == /\ Flags
             /\ \A k \in DOMAIN tokens : Classified(source, tokens[k])

\* Every step keeps them right.
LEMMA NumbersInductive ==
  ASSUME IInv, NumbersRight, [Next]_vars
  PROVE  NumbersRight'
<1>1. ASSUME Step
      PROVE  NumbersRight'
  <2>0. Step
    BY <1>1
  <2>1. Flags' /\ source' = source
    BY <2>0, FlagsInductive, StepOn DEF NumbersRight
  <2>2. ASSUME NEW k \in DOMAIN tokens
        PROVE  Classified(source, tokens[k])
    BY DEF NumbersRight
  <2>3. CASE tokens' = tokens
    BY <2>1, <2>2, <2>3 DEF NumbersRight, Classified
  <2>4. ASSUME NEW t, tokens' = Append(tokens, t), Classified(source, t)
        PROVE  \A k \in DOMAIN tokens' : Classified(source, tokens'[k])
    <3>1. /\ DOMAIN tokens = 1 .. Len(tokens) /\ Len(tokens) \in Nat
          /\ DOMAIN tokens' = 1 .. Len(tokens) + 1
          /\ \A j \in 1 .. Len(tokens) : tokens'[j] = tokens[j]
          /\ tokens'[Len(tokens) + 1] = t
      BY <2>4, OneMoreToken DEF IInv
    <3>2. ASSUME NEW k \in 1 .. Len(tokens) + 1
          PROVE  Classified(source, tokens'[k])
      <4>1. CASE k = Len(tokens) + 1
        BY <2>4, <3>1, <4>1
      <4>2. CASE k # Len(tokens) + 1
        <5>1. k \in DOMAIN tokens /\ tokens'[k] = tokens[k]
          BY <3>1, <4>2
        <5> QED BY <2>2, <5>1
      <4> QED BY <4>1, <4>2
    <3> QED BY <3>1, <3>2
  <2>5. \A k \in DOMAIN tokens' : Classified(source, tokens'[k])
    BY <1>1, <2>2, <2>3, <2>4, TokenClassified DEF NumbersRight
  <2> QED BY <2>1, <2>5 DEF NumbersRight, Classified
<1>2. CASE UNCHANGED vars
  BY <1>2 DEF NumbersRight, Flags, Classified, vars
<1> QED BY <1>1, <1>2 DEF Next, Terminated

\* A number is an int, a float or malformed as its text says, for every text: the
\* flags that scanDecimalNumber and the others set on the way, and the characters
\* they skip after a fault, agree with what the whole looks like in the end.
THEOREM NumbersAreClassified == Spec => []NumbersClassified
<1>1. Init => NumbersRight
  <2> SUFFICES ASSUME Init
               PROVE  NumbersRight
    OBVIOUS
  <2>1. mode = "scan" /\ tokens = <<>>
    BY DEF Init
  <2>2. DOMAIN tokens = {}
    BY <2>1
  <2> QED BY <2>1, <2>2 DEF NumbersRight, Flags, NumberModes
<1>2. IInv /\ InOrder /\ NumbersRight => NumbersClassified
  <2> SUFFICES ASSUME IInv, InOrder, NumbersRight, NEW k \in DOMAIN tokens,
                      tokens[k].type \in NumberTypes, ~HasNewLine(tokens[k])
               PROVE  tokens[k].type = NumberOf(Text(tokens[k].begin, tokens[k].end))
    BY DEF NumbersClassified
  <2> DEFINE f == tokens[k].begin
             t == tokens[k].end
  <2>1. tokens[k].type = NumberPart(source, f, t)
    <3>1. ~\E i \in f .. t - 1 : At(source, i) = NL
      BY OfSource DEF HasNewLine
    <3> QED BY <3>1 DEF NumbersRight, Classified
  <2>2. f \in 0 .. Len(source) /\ t \in 0 .. Len(source) /\ Len(source) \in Nat
    BY InNumbers
  <2>3. f < t
    <3>1. tokens[k].type # <<"M_EOF">>
      BY NumberTypesApart
    <3> QED BY <3>1 DEF InOrder
  <2>4. \E S : source \in Seq(S)
    BY SourcesAssumption DEF IInv
  <2> HIDE DEF f, t
  <2>5. f \in 0 .. Len(source) /\ t \in f .. Len(source) /\ f \in Nat /\ t \in Nat /\ f <= t
    BY <2>2, <2>3
  <2>6. Spelled(SubSeq(source, f + 1, t), source, f, t)
    BY <2>4, <2>5, TextSpelled
  <2>7. NumberOf(SubSeq(source, f + 1, t)) = NumberPart(source, f, t)
    BY <2>5, <2>6, NumberSpelled
  <2> QED BY <2>1, <2>7 DEF Text, f, t
<1> QED BY <1>1, <1>2, Invariant, TokensInOrder, NumbersInductive, PTL DEF Spec

==============================================================================
