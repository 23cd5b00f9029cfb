------------------------------ MODULE MCFrontend ------------------------------
(***************************************************************************)
(* The texts of MCLexer, and all short sequences of lexemes, alone and     *)
(* after the beginning of each construct that the parser reads on in.      *)
(***************************************************************************)
EXTENDS Frontend, MCLexer

MCLetters == {"r", "v", "c", "n", "s", "t", "i", "l", "h", "w", "u"}
MCAllKeywords == {t[1] : t \in KeywordTypes}

VarWord == <<"v","a","r">>
IfWord == <<"i","f">>
ForWord == <<"f","o","r">>
FixedWord == <<"f","i","x","e","d">>

Few == {<<"5">>, <<"r">>, <<",">>, <<";">>, <<"=">>, <<"[">>, <<"]">>, <<"{">>, <<"}">>, <<")">>}
Most == Few \cup {<<"(">>, <<"*">>, <<"-">>, <<"+","+">>, <<"*","=">>, <<"@">>,
                  <<"n","i","l">>, <<"n","o","t">>, VarWord, <<"c","o","n","s","t">>, IfWord,
                  <<"e","l","s","e">>, <<"e","l","s","e","i","f">>, <<"w","h","i","l","e">>,
                  ForWord, FixedWord}

Contexts == {<<<<"r">>, <<"=">>, <<"[">>>>,
             <<<<"r">>, <<"=">>, <<"{">>, <<"r">>, <<"=">>>>,
             <<<<"r">>, <<"=">>, FixedWord, <<"(">>>>,
             <<<<"r">>, <<",">>, <<"r">>, <<"=">>>>,
             <<<<"r">>, <<",">>, <<"r">>, <<",">>, <<"r">>, <<"=">>, <<"5">>>>,
             <<VarWord, <<"r">>, <<",">>, <<"r">>, <<"=">>>>,
             <<IfWord, <<"5">>, <<"r">>, <<"=">>>>,
             <<IfWord, <<"5">>, <<"r">>, <<"+","+">>, <<"e","l","s","e">>>>,
             <<ForWord, <<"r">>, <<"=">>, <<"5">>>>}

Written(lexemes) == FoldLeft(LAMBDA all, word : all \o word \o <<" ">>, <<>>, lexemes)

MCTexts == MCSources \cup {Written(l) : l \in SeqOf(Most, 3) \cup SeqOf(Few, 4)
                           \cup {c \o l : c \in Contexts, l \in SeqOf(Few, 3)}}
=============================================================================
