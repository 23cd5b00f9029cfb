------------------------------- MODULE MCLexer -------------------------------
(***************************************************************************)
(* All short texts: of anything, of what numbers are made of, of strings,  *)
(* and of what line ends, comments and operators may do to each other.     *)
(***************************************************************************)
EXTENDS Lexer, SequencesExt

Anything == {"5", "0", "e", "x", "r", "_", ".", "QUOTE", BACKSLASH, "#", "/", "*", "+", "=",
             "<", ">", "!", "(", "@", " ", CR, NL}
InNumbers == {"0", "5", ".", "e", "_", "+", "b"}
InStrings == {"QUOTE", "'", BACKSLASH, "r", CR, NL}
InLines == {"5", "o", "r", "/", "*", "=", "#", CR, NL}

MCSources == SeqOf(Anything, 3) \cup SeqOf(InNumbers, 5) \cup SeqOf(InStrings, 5)
             \cup SeqOf(InLines, 4)
MCKeywords == {<<"o", "r">>}
=============================================================================
