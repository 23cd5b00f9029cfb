------------------------------- MODULE Frontend -------------------------------
(***************************************************************************)
(* A text on its way through Lexer_execute and parser_execute, as          *)
(* cli_execute_frontend of src/src/cli/cli.c calls them: scanned to its    *)
(* end, then parsed a statement at a time.  Any text may arrive here, and  *)
(* the properties say what becomes of one that is no program.              *)
(***************************************************************************)
EXTENDS Lexer, Parser

VARIABLES stage,    \* what cli_execute_frontend is at: "lexing", "parsing" or "ended"
          P,        \* the parser
          tree      \* the statements it has read

G == INSTANCE Grammar

parserVars == <<stage, P, tree>>
frontendVars == <<vars, parserVars>>

-----------------------------------------------------------------------------
(* The tokens as the parser sees them: the type for each text, and the text   *)
(* that later parts take from the offsets.                                    *)

KeywordTypes ==
  {<< <<"v","a","r">>, "M_VAR" >>, << <<"c","o","n","s","t">>, "M_CONST" >>,
   << <<"i","f">>, "M_IF" >>, << <<"e","l","s","e">>, "M_ELSE" >>,
   << <<"e","l","s","e","i","f">>, "M_ELSEIF" >>, << <<"f","o","r">>, "M_FOR" >>,
   << <<"w","h","i","l","e">>, "M_WHILE" >>, << <<"f","i","x","e","d">>, "M_FIXED" >>,
   << <<"a","n","d">>, "M_AND" >>, << <<"o","r">>, "M_OR" >>, << <<"n","o","t">>, "M_NOT" >>,
   << <<"n","i","l">>, "M_V_NIL" >>, << <<"t","r","u","e">>, "M_V_TRUE" >>,
   << <<"f","a","l","s","e">>, "M_V_FALSE" >>}

OperatorTypes ==
  {<< <<"+">>, "M_PLUS" >>, << <<"+","=">>, "M_PLUS_ASSING" >>, << <<"+","+">>, "M_INC" >>,
   << <<"-">>, "M_MINUS" >>, << <<"-","=">>, "M_MINUS_ASSING" >>, << <<"-","-">>, "M_DEC" >>,
   << <<"*">>, "M_STAR" >>, << <<"*","=">>, "M_STAR_ASSING" >>,
   << <<"*","/">>, "M_LONG_COMMENT_FINISH" >>,
   << <<"/">>, "M_SLASH" >>, << <<"/","=">>, "M_SLASH_ASSING" >>,
   << <<"/","/">>, "M_FLOOR_DIV" >>, << <<"/","/","=">>, "M_FLOOR_DIV_ASSING" >>,
   << <<"%">>, "M_MOD" >>, << <<"%","=">>, "M_MOD_ASSING" >>,
   << <<"^">>, "M_POW" >>, << <<"^","=">>, "M_POW_ASSING" >>,
   << <<"=">>, "M_ASSING" >>, << <<"=","=">>, "M_EQ" >>, << <<"!","=">>, "M_NEQ" >>,
   << <<"<">>, "M_LT" >>, << <<"<","=">>, "M_LTE" >>, << <<"<",">">>, "M_CONCAT" >>,
   << <<"<",">","=">>, "M_CONCAT_ASSING" >>,
   << <<">">>, "M_GT" >>, << <<">","=">>, "M_GTE" >>,
   << <<"(">>, "M_LPAREN" >>, << <<")">>, "M_RPAREN" >>, << <<"{">>, "M_LBRACE" >>,
   << <<"}">>, "M_RBRACE" >>, << <<"[">>, "M_LBRAKET" >>, << <<"]">>, "M_RBRAKET" >>,
   << <<";">>, "M_SEMICOLON" >>, << <<",">>, "M_COMMA" >>, << <<".">>, "M_DOT" >>}

Types == KeywordTypes \cup OperatorTypes

\* The other types are the lexer's own.
TypeOf(type) == IF \E t \in Types : t[1] = type
                THEN (CHOOSE t \in Types : t[1] = type)[2] ELSE type[1]

ValueOf(type, text) == CASE type = "M_V_IDENTIFIER" -> text
                         [] type = "M_V_INT" -> <<"int", text>>
                         [] type = "M_V_FLOAT" -> <<"float", text>>
                         [] type = "M_V_STRING" -> <<"text", text>>
                         [] type \in {"M_V_TRUE", "M_V_FALSE"} -> <<"bool", type = "M_V_TRUE">>
                         [] type = "M_V_NIL" -> <<"nil">>
                         [] OTHER -> <<>>

ParserToken(t) == [type |-> TypeOf(t.type),
                   text |-> ValueOf(TypeOf(t.type), Text(t.begin, t.end))]
ParserTokens == [k \in DOMAIN tokens |-> ParserToken(tokens[k])]

-----------------------------------------------------------------------------

FrontendInit == /\ Init
                /\ stage = "lexing"
                /\ P = parser_init(G!TokensOf(<<>>))
                /\ tree = <<>>

Scan == /\ Step
        /\ UNCHANGED parserVars

BeginParse == /\ stage = "lexing"
              /\ mode = "done"
              /\ stage' = "parsing"
              /\ P' = parser_init(ParserTokens)
              /\ UNCHANGED <<vars, tree>>

\* The loop of parser_program.
ParseStatement ==
  /\ stage = "parsing"
  /\ ~Sees(P, "M_EOF") /\ ~P.exited
  /\ P' = parser_program(P, tree)
  /\ tree' = IF P'.exited THEN tree ELSE Append(tree, P'.node)
  /\ UNCHANGED <<vars, stage>>

\* A failed assert, or what has been overwritten, may end the process.
Abort == /\ stage = "parsing"
         /\ P.asserted \/ P.overrun # {}
         /\ stage' = "ended"
         /\ UNCHANGED <<vars, P, tree>>

Ended == stage = "ended" \/ (stage = "parsing" /\ (Sees(P, "M_EOF") \/ P.exited))

FrontendNext == \/ Scan \/ BeginParse \/ ParseStatement \/ Abort
                \/ Ended /\ UNCHANGED frontendVars

\* One thread does all of it and waits for nothing; only the scanner is asked to go
\* on, for every step of the parser advances (StatementsAdvance).
FrontendSpec == /\ FrontendInit
                /\ [][FrontendNext]_frontendVars
                /\ WF_vars(Step)

-----------------------------------------------------------------------------

\* Every statement takes a token at least, whatever it is that cannot be read:
\* the recovery of sync_expression and sync_statement never leaves the parser where
\* it was, so that parser_program comes to the end of every text.
StatementsAdvance == [][tree' # tree => P'.pos > P.pos]_frontendVars

\* No error was reported, and the compiler has none to report.
Accepted == /\ ~P.reported
            /\ \A k \in DOMAIN G!TokensOf(tree) : G!TokensOf(tree)[k].type # "M_ERROR"

\* What parser_grouping drops: an operand before a parenthesis.
EndsOperand == Literals \cup {"M_V_IDENTIFIER", "M_RPAREN", "M_RBRAKET", "M_RBRACE", "M_INC",
                              "M_DEC"}
LooksCalled == \E k \in DOMAIN P.Tokens : /\ k > 1
                                          /\ P.Tokens[k].type = "M_LPAREN"
                                          /\ P.Tokens[k - 1].type \in EndsOperand

\* The tokens that a tree cannot do without.
Core(toks) ==
  FoldLeft(LAMBDA all, t :
             all \o CASE t.type \in {"M_LPAREN", "M_RPAREN", "M_SEMICOLON", "M_COMMA"} -> <<>>
                      [] t.type = "M_ELSEIF" -> G!Of("M_ELSE") \o G!Of("M_IF")
                      [] OTHER -> <<t>>, <<>>, toks)

\* A text is reported, by the parser or by the compiler that finds an error in its
\* tree, or every token of it is in the tree, in its place: no recovery skips a part
\* of a program in silence.
ReadOrReported ==
  stage = "parsing" /\ Sees(P, "M_EOF") /\ P.overrun = {} /\ ~LooksCalled /\ Accepted =>
    Core(P.Tokens) = Core(G!TokensOf(tree))

\* The arrays of the parser hold what is put into them, except those of an assignment:
\* parser_assign lets one target, and one value, more in than they have cells.
ArraysHold == P.overrun \subseteq {"parser_assign"}

=============================================================================
