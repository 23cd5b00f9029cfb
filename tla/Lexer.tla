-------------------------------- MODULE Lexer --------------------------------
(***************************************************************************)
(* The scanner of src/src/frontend/lexer.c, a turn of its loops at a time. *)
(* A source is a sequence of characters, CharAt(i) the one at offset i; of *)
(* the locations only offsets and lines are kept.  An operator's type is   *)
(* the operator itself.                                                    *)
(***************************************************************************)
EXTENDS Integers, Sequences, FiniteSets

CONSTANTS Sources,      \* the texts of the programs
          OtherLetter,  \* the letters that are no digit, prefix or exponent
          Keywords      \* the keywords, sequences of letters

\* Texts are sequences, as long as they like.
ASSUME SourcesAssumption == \A s \in Sources : s \in Seq({s[i] : i \in DOMAIN s})

NL == "NL"
CR == "CR"
NUL == "NUL"
BACKSLASH == "BACKSLASH"

Blank == {" ", "TAB", CR, NL}
Quote == {"QUOTE", "'", "BACKQUOTE"}
BinaryDigit == {"0", "1"}
OctalDigit == BinaryDigit \cup {"2", "3", "4", "5", "6", "7"}
Digit == OctalDigit \cup {"8", "9"}
HexLetter == {"a", "b", "c", "d", "e", "f", "A", "B", "C", "D", "E", "F"}
Letter == HexLetter \cup {"x", "X", "o", "O"} \cup OtherLetter
WordChar == Letter \cup Digit \cup {"_"}

\* Every beginning of an operator is one, except that "!" is an error.
Simple == {"(", ")", "{", "}", "[", "]", ";", ",", "."}
Operators ==
  {<<s>> : s \in Simple \cup {"+", "-", "*", "/", "%", "^", "=", "<", ">", "!"}}
  \cup {<<s, "=">> : s \in {"+", "-", "*", "/", "%", "^", "=", "<", ">", "!"}}
  \cup {<<"+", "+">>, <<"-", "-">>, <<"/", "/">>, <<"/", "/", "=">>, <<"<", ">">>,
        <<"<", ">", "=">>, <<"/", "*">>, <<"*", "/">>}

\* A letter is no blank and no operator, nor the end of the text, as in the character
\* classes of C.
ASSUME LettersAssumption == /\ OtherLetter \cap (Blank \cup {NUL}) = {}
                            /\ \A c \in OtherLetter : <<c>> \notin Operators

NumberTypes == {<<"M_V_INT">>, <<"M_V_FLOAT">>, <<"M_V_MALFORMED_NUMBER">>}

\* A keyword's type is the keyword, and the other types are no keywords.
ASSUME KeywordsAssumption == Keywords \cap ({<<"M_EOF">>} \cup NumberTypes) = {}

VARIABLES source,
          position, line,   \* L->position and L->line
          mode,             \* the loop that is running
          begin,            \* where the token began
          seen,             \* the characters that scanToken has matched
          number,           \* the flags of scanDecimalNumber and the others
          tokens

vars == <<source, position, line, mode, begin, seen, number, tokens>>

-----------------------------------------------------------------------------

length == Len(source)
CharAt(i) == IF i < length THEN source[i + 1] ELSE NUL
current == CharAt(position)
peek == CharAt(position + 1)

\* Mutant: the end of the buffer is not tested.
NextOffset_Past(i) ==
  IF i >= length THEN i + 1
  ELSE CHOOSE k \in i + 1 .. length : /\ CharAt(k) # NL
                                      /\ \A j \in i + 1 .. k - 1 : CharAt(j) = NL
\* consume: on to the next character that is no new line.
NextOffset(i) ==
  IF i >= length THEN i
  ELSE CHOOSE k \in i + 1 .. length : /\ CharAt(k) # NL
                                      /\ \A j \in i + 1 .. k - 1 : CharAt(j) = NL
LinesTo(i) == IF NextOffset(i) > i THEN NextOffset(i) - i - 1 ELSE 0

\* Mutant: a new line is counted when it is reached and when it is left.
ConsumeFrom_CountsTwice(i, n) == /\ position' = NextOffset(i)
                                 /\ line' = n + 2 * LinesTo(i)
ConsumeFrom(i, n) == /\ position' = NextOffset(i)
                     /\ line' = n + LinesTo(i)
Consume == ConsumeFrom(position, line)

NextOnLine(i) == IF i >= length THEN i ELSE i + 1
ConsumeNoLine == position' = NextOnLine(position) /\ UNCHANGED line

Emit(type) ==
  /\ tokens' = Append(tokens, [type |-> type, begin |-> begin.offset,
                               end |-> position', line |-> begin.line])
  /\ mode' = "scan"

-----------------------------------------------------------------------------

NoNumber == [point |-> FALSE, exponent |-> FALSE, malformed |-> FALSE, needDigit |-> FALSE]

Init == /\ source \in Sources
        /\ position = NextOffset(-1)
        /\ line = 1 + LinesTo(-1)
        /\ mode = "scan"
        /\ begin = [offset |-> 0, line |-> 1]
        /\ seen = <<>>
        /\ number = NoNumber
        /\ tokens = <<>>

SkipWhiteSpace == /\ mode = "scan"
                  /\ current \in Blank
                  /\ Consume
                  /\ UNCHANGED <<source, mode, begin, seen, number, tokens>>

\* Mutant: the position of a token is taken after its first character.
ScanToken_Late == /\ mode = "scan"
                  /\ current \notin Blank
                  /\ begin' = [offset |-> NextOffset(position), line |-> line]
                  /\ seen' = <<current>>
                  /\ Consume
                  /\ mode' = "switch"
                  /\ UNCHANGED <<source, number, tokens>>
\* scanToken consumes a character, and switches on it.
ScanToken == /\ mode = "scan"
             /\ current \notin Blank
             /\ begin' = [offset |-> position, line |-> line]
             /\ seen' = <<current>>
             /\ Consume
             /\ mode' = "switch"
             /\ UNCHANGED <<source, number, tokens>>

Switch(chars) == /\ mode = "switch"
                 /\ seen[1] \in chars
                 /\ UNCHANGED <<source, begin>>

IsOperator == seen \in Operators \ {<<"/", "*">>}
StartsNumber == \/ seen[1] \in Digit
                \/ seen = <<".">> /\ current \in Digit \cup {"_"}

\* match, until the operator gets no longer.
Match == /\ mode = "switch"
         /\ IsOperator /\ ~StartsNumber
         /\ Append(seen, current) \in Operators
         /\ seen' = Append(seen, current)
         /\ Consume
         /\ UNCHANGED <<source, mode, begin, number, tokens>>

MakeToken == /\ mode = "switch"
             /\ IsOperator /\ ~StartsNumber
             /\ Append(seen, current) \notin Operators
             /\ UNCHANGED <<source, position, line, begin, seen, number>>
             /\ Emit(IF seen = <<"!">> THEN <<"M_ERROR">> ELSE seen)

\* The cases that go on in a loop.
Goes(chars, next) == /\ Switch(chars)
                     /\ mode' = next
                     /\ UNCHANGED <<position, line, seen, number, tokens>>
MakeString == Goes(Quote, "string")
ChooseKeywordOrIdentifier == Goes(Letter \cup {"_"}, "word")
ShortComment == Goes({"#"}, "short")
LongComment == Goes({"/"}, "long") /\ seen = <<"/", "*">>

MakeEOF == /\ Switch({NUL})
           /\ tokens' = Append(tokens, [type |-> <<"M_EOF">>, begin |-> begin.offset,
                                        end |-> begin.offset, line |-> begin.line])
           /\ mode' = "done"
           /\ UNCHANGED <<position, line, seen, number>>

Illegal == /\ mode = "switch"
           /\ ~IsOperator /\ seen # <<"/", "*">>
           /\ seen[1] \notin Digit \cup Letter \cup Quote \cup {"_", "#", NUL}
           /\ UNCHANGED <<source, position, line, begin, seen, number>>
           /\ Emit(<<"M_ERROR">>)

-----------------------------------------------------------------------------
(* Comments, strings and words.                                              *)

\* Mutant: a comment goes on to the end of the program.
SkipShortComment_ToEnd ==
  /\ mode = "short"
  /\ current # NUL
  /\ ConsumeNoLine
  /\ UNCHANGED <<source, mode, begin, seen, number, tokens>>
SkipShortComment == /\ mode = "short"
                    /\ current \notin {NL, NUL}
                    /\ ConsumeNoLine
                    /\ UNCHANGED <<source, mode, begin, seen, number, tokens>>

ShortCommentEnds == /\ mode = "short"
                    /\ current \in {NL, NUL}
                    /\ ConsumeFrom(position, IF current = NL THEN line + 1 ELSE line)
                    /\ mode' = "scan"
                    /\ UNCHANGED <<source, begin, seen, number, tokens>>

\* At the end of the buffer this changes nothing, for ever.
SkipLongComment == /\ mode = "long"
                   /\ current # "*" /\ peek # "/"
                   /\ Consume
                   /\ UNCHANGED <<source, mode, begin, seen, number, tokens>>

LongCommentEnds ==
  /\ mode = "long"
  /\ current = "*" \/ peek = "/"
  /\ ConsumeFrom(NextOffset(position), line + LinesTo(position))
  /\ mode' = "scan"
  /\ UNCHANGED <<source, begin, seen, number, tokens>>

StringEscape == /\ mode = "string"
                /\ current = BACKSLASH
                /\ peek # NL
                /\ ConsumeFrom(NextOnLine(position), line)
                /\ UNCHANGED <<source, mode, begin, seen, number, tokens>>

StringChar == /\ mode = "string"
              /\ current \notin {BACKSLASH, seen[1], NL, NUL}
              /\ ConsumeNoLine
              /\ UNCHANGED <<source, mode, begin, seen, number, tokens>>

StringEnds == /\ mode = "string"
              /\ current = seen[1]
              /\ Consume
              /\ Emit(<<"M_V_STRING">>)
              /\ UNCHANGED <<source, begin, seen, number>>

\* Mutant: the end of the program does not end a string, and consumeNoLine is
\* called there for ever.
StringUnfinished_AtLine ==
  /\ mode = "string"
  /\ current \in {NL, NUL} \/ (current = BACKSLASH /\ peek = NL)
  /\ position' = IF current = BACKSLASH THEN position + 1 ELSE position
  /\ IF current = NUL THEN UNCHANGED <<mode, tokens>> ELSE Emit(<<"M_V_UNFINISHED_STRING">>)
  /\ UNCHANGED <<source, line, begin, seen, number>>
StringUnfinished ==
  /\ mode = "string"
  /\ current \in {NL, NUL} \/ (current = BACKSLASH /\ peek = NL)
  /\ position' = IF current = BACKSLASH THEN position + 1 ELSE position
  /\ Emit(<<"M_V_UNFINISHED_STRING">>)
  /\ UNCHANGED <<source, line, begin, seen, number>>

Word == /\ mode = "word"
        /\ current \in WordChar
        /\ Consume
        /\ UNCHANGED <<source, mode, begin, seen, number, tokens>>

Text(from, to) == SubSeq(source, from + 1, to)

WordEnds == /\ mode = "word"
            /\ current \notin WordChar
            /\ UNCHANGED <<source, position, line, begin, seen, number>>
            /\ Emit(IF Text(begin.offset, position) \in Keywords
                    THEN Text(begin.offset, position) ELSE <<"M_V_IDENTIFIER">>)

-----------------------------------------------------------------------------
(* Numbers.                                                                  *)

Prefix == seen = <<"0">> /\ current \in {"x", "X", "o", "O", "b", "B"}

BasedNumber == /\ Switch({"0"})
               /\ Prefix
               /\ ConsumeNoLine
               /\ mode' = IF current \in {"x", "X"} THEN "hex"
                          ELSE IF current \in {"o", "O"} THEN "octal" ELSE "binary"
               /\ number' = [NoNumber EXCEPT !.needDigit = TRUE]
               /\ UNCHANGED <<seen, tokens>>

DecimalNumber == /\ Switch(Digit \cup {"."})
                 /\ StartsNumber /\ ~Prefix
                 /\ mode' = "decimal"
                 /\ number' = [NoNumber EXCEPT !.point = CharAt(position - 1) = "."]
                 /\ UNCHANGED <<position, line, seen, tokens>>

DigitsOf(m) == CASE m = "decimal" -> Digit
                 [] m = "hex"     -> Digit \cup HexLetter
                 [] m = "octal"   -> OctalDigit
                 [] m = "binary"  -> BinaryDigit
                 [] OTHER         -> {}

NumberDigit == /\ current \in DigitsOf(mode) \cup {"_"}
               /\ mode \in {"decimal", "hex", "octal", "binary"}
               /\ number' = [number EXCEPT !.needDigit = @ /\ current = "_"]
               /\ ConsumeNoLine
               /\ UNCHANGED <<source, mode, begin, seen, tokens>>

NumberPoint ==
  /\ mode = "decimal"
  /\ current = "."
  /\ number' = IF number.exponent \/ number.needDigit \/ number.point
                 THEN [number EXCEPT !.malformed = TRUE]
                 ELSE [number EXCEPT !.point = ~number.malformed]
  /\ ConsumeNoLine
  /\ UNCHANGED <<source, mode, begin, seen, tokens>>

\* Mutant: no digit is asked for after the e.
NumberExponent_Bare ==
  /\ mode = "decimal"
  /\ current \in {"e", "E"}
  /\ number' = [number EXCEPT !.exponent = TRUE]
  /\ position' = NextOnLine(IF peek \in {"+", "-"} THEN NextOnLine(position) ELSE position)
  /\ UNCHANGED <<source, line, mode, begin, seen, tokens>>
NumberExponent ==
  /\ mode = "decimal"
  /\ current \in {"e", "E"}
  /\ number' = IF number.exponent \/ number.needDigit
                 THEN [number EXCEPT !.malformed = TRUE]
                 ELSE [number EXCEPT !.exponent = ~number.malformed, !.needDigit = TRUE]
  /\ position' = NextOnLine(IF peek \in {"+", "-"} THEN NextOnLine(position) ELSE position)
  /\ UNCHANGED <<source, line, mode, begin, seen, tokens>>

InNumber == \/ mode = "decimal" /\ current \in Digit \cup {"_", ".", "e", "E"}
            \/ mode \in {"hex", "octal", "binary"} /\ current \in DigitsOf(mode) \cup {"_"}

\* Mutant: blanks do not end a malformed number.
Delimiter_NoBlank(c) == c \notin WordChar \cup {"."} \cup {CR, NL, " "}
Delimiter(c) == c \notin WordChar \cup {"."}

RecoverMalformed == /\ mode \in {"decimal", "hex", "octal", "binary", "recover"}
                    /\ ~InNumber
                    /\ ~Delimiter(current)
                    /\ mode' = "recover"
                    /\ number' = [number EXCEPT !.malformed = TRUE]
                    /\ ConsumeNoLine
                    /\ UNCHANGED <<source, begin, seen, tokens>>

NumberEnds == /\ mode \in {"decimal", "hex", "octal", "binary", "recover"}
              /\ ~InNumber
              /\ Delimiter(current)
              /\ UNCHANGED <<source, position, line, begin, seen, number>>
              /\ Emit(IF number.needDigit \/ number.malformed THEN <<"M_V_MALFORMED_NUMBER">>
                      ELSE IF number.point \/ number.exponent THEN <<"M_V_FLOAT">>
                      ELSE <<"M_V_INT">>)

-----------------------------------------------------------------------------

Step == \/ SkipWhiteSpace \/ ScanToken
        \/ Match \/ MakeToken \/ MakeEOF \/ Illegal
        \/ MakeString \/ StringEscape \/ StringChar \/ StringEnds \/ StringUnfinished
        \/ ChooseKeywordOrIdentifier \/ Word \/ WordEnds
        \/ ShortComment \/ SkipShortComment \/ ShortCommentEnds
        \/ LongComment \/ SkipLongComment \/ LongCommentEnds
        \/ BasedNumber \/ DecimalNumber \/ NumberDigit \/ NumberPoint \/ NumberExponent
        \/ RecoverMalformed \/ NumberEnds

Terminated == mode = "done" /\ UNCHANGED vars

Next == Step \/ Terminated

\* Lexer_execute runs on one thread and waits for nothing.
Spec == Init /\ [][Next]_vars /\ WF_vars(Next)

-----------------------------------------------------------------------------

Modes == {"scan", "switch", "string", "word", "short", "long", "decimal", "hex", "octal",
          "binary", "recover", "done"}

\* The scanner stays inside the buffer, and so do the tokens.
TypeOK == /\ position \in 0 .. length
          /\ line \in 1 .. length + 1
          /\ mode \in Modes
          /\ begin \in [offset : 0 .. length, line : 1 .. length + 1]
          /\ seen \in Operators \cup {<<>>} \cup {<<CharAt(i)>> : i \in 0 .. length}
          /\ number \in [point : BOOLEAN, exponent : BOOLEAN, malformed : BOOLEAN,
                         needDigit : BOOLEAN]
          /\ \A k \in DOMAIN tokens : /\ tokens[k].begin \in 0 .. length
                                      /\ tokens[k].end \in 0 .. length

\* Tokens follow each other without overlap, none but the last is empty, and the one
\* being scanned begins after them and has been advanced over: the parser takes
\* the text of a token from its offsets.
InOrder ==
  /\ \A k \in DOMAIN tokens :
       /\ tokens[k].type = <<"M_EOF">> <=> k = Len(tokens) /\ mode = "done"
       /\ tokens[k].type # <<"M_EOF">> => tokens[k].begin < tokens[k].end
       /\ k > 1 => tokens[k - 1].end <= tokens[k].begin
       /\ tokens[k].end <= IF mode = "scan" THEN position ELSE begin.offset
  /\ mode # "scan" => begin.offset < position \/ position = length

PreviousEnd(k) == IF k = 1 THEN 0 ELSE tokens[k - 1].end
InComment(from, i) ==
  \E j \in from .. i : \/ CharAt(j) = "#" /\ \A m \in NextOffset(j) .. i : CharAt(m) # NL
                       \/ CharAt(j) = "/" /\ CharAt(NextOffset(j)) = "*"

\* Every character of the program is in a token, unless it is a blank or in a
\* comment.  A short comment ends with its line, but an empty one with the next:
\* consume has skipped its NL.
NothingLost ==
  \A k \in DOMAIN tokens :
    \A i \in PreviousEnd(k) .. tokens[k].begin - 1 :
      CharAt(i) \in Blank \/ InComment(PreviousEnd(k), i)

NewLines(i) == Cardinality({j \in 0 .. i - 1 : CharAt(j) = NL})
\* A source whose lines end with CR and NL.
Windows == \A i \in 0 .. length - 1 : CharAt(i) = NL => i > 0 /\ CharAt(i - 1) = CR

\* The line of a token, which error messages give, is never too high, and it is
\* right where lines end with CR and NL and there are no strings.
LinesRight ==
  \A k \in DOMAIN tokens :
    LET n == 1 + NewLines(tokens[k].begin)
    IN /\ tokens[k].line <= n
       /\ Windows /\ (\A i \in 0 .. length - 1 : CharAt(i) \notin Quote) => tokens[k].line = n

IsString(t) == t.type \in {<<"M_V_STRING">>, <<"M_V_UNFINISHED_STRING">>}
HasNewLine(t) == \E i \in t.begin .. t.end - 1 : CharAt(i) = NL

\* A token that is no string is on one line, where lines end with CR and NL: the
\* CR ends it, for consume skips a NL.
OnOneLineInWindows ==
  Windows => \A k \in DOMAIN tokens : IsString(tokens[k]) \/ ~HasNewLine(tokens[k])

JoinsLines(t) == \E i, j \in t.begin .. t.end - 1 : i < j /\ CharAt(i) = NL /\ CharAt(j) # NL

\* No token has characters of two lines: "var n = 5" and "var n2 = 6" are two lines
\* of test/numbers.m.
OnOneLine == \A k \in DOMAIN tokens : IsString(tokens[k]) \/ ~JoinsLines(tokens[k])

Chars(s) == {s[i] : i \in DOMAIN s}
Plain(s) == Chars(s) \subseteq Digit \cup {"_"}
Mantissa(s) == /\ Chars(s) \subseteq Digit \cup {"_", "."}
               /\ \A i, j \in DOMAIN s : s[i] = "." /\ s[j] = "." => i = j
Exponent(s) == LET u == IF s # <<>> /\ s[1] \in {"+", "-"} THEN Tail(s) ELSE s
               IN Plain(u) /\ Chars(u) \cap Digit # {}
Based(s) ==
  /\ Len(s) > 2 /\ s[1] = "0"
  /\ \E m \in {"hex", "octal", "binary"} :
       /\ s[2] \in CASE m = "hex"   -> {"x", "X"}
                     [] m = "octal" -> {"o", "O"}
                     [] OTHER       -> {"b", "B"}
       /\ LET u == SubSeq(s, 3, Len(s))
          IN Chars(u) \subseteq DigitsOf(m) \cup {"_"} /\ Chars(u) \cap DigitsOf(m) # {}

\* What a text is as a number, without a scanner.
NumberOf(s) ==
  IF Plain(s) \/ Based(s) THEN <<"M_V_INT">>
  ELSE IF \/ Mantissa(s)
          \/ \E k \in DOMAIN s : /\ s[k] \in {"e", "E"}
                                 /\ Mantissa(SubSeq(s, 1, k - 1))
                                 /\ Exponent(SubSeq(s, k + 1, Len(s)))
       THEN <<"M_V_FLOAT">>
  ELSE <<"M_V_MALFORMED_NUMBER">>

\* scanDecimalNumber and the others agree, flag by flag, with what a number looks
\* like: the compiler converts the text of a token and stops if it is none.
NumbersClassified ==
  \A k \in DOMAIN tokens :
    tokens[k].type \in NumberTypes /\ ~HasNewLine(tokens[k]) =>
      tokens[k].type = NumberOf(Text(tokens[k].begin, tokens[k].end))

\* Every source is scanned to its end, except that a long comment without an end
\* is looked through for ever.
EndsOrHangs == <>(mode = "done" \/ (mode = "long" /\ position = length))

=============================================================================
