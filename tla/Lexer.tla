------------------------------- MODULE Lexer -------------------------------
(***************************************************************************)
(* The lexer of the compiler (src/src/compiler/syntax/lexer.cpp).          *)
(*                                                                         *)
(* A source text is a sequence of symbols.  A symbol stands for one        *)
(* character, or for a run of characters that the lexer always takes       *)
(* together: a word, a number, an operator.  Inside a string literal all   *)
(* symbols but the quotes, the dollar sign and the backslash are content.  *)
(* A token is [type, text, first, last]; first and last are the positions  *)
(* of its first and last symbol (SourceRange).                             *)
(*                                                                         *)
(* Comments are left out, and so are the digits of a number: a number is   *)
(* one symbol.                                                             *)
(***************************************************************************)
EXTENDS Integers, Sequences, SequencesExt, TLC

\* The words the model uses: keywords, and names that stand for all others.
Keywords ==
    ("as" :> "KwAs") @@ ("assert" :> "KwAssert") @@ ("break" :> "KwBreak")
    @@ ("const" :> "KwConst") @@ ("continue" :> "KwContinue")
    @@ ("defer" :> "KwDefer") @@ ("else" :> "KwElse") @@ ("export" :> "KwExport")
    @@ ("false" :> "KwFalse") @@ ("for" :> "KwFor") @@ ("func" :> "KwFunc")
    @@ ("if" :> "KwIf") @@ ("import" :> "KwImport") @@ ("in" :> "KwIn")
    @@ ("null" :> "KwNull") @@ ("return" :> "KwReturn") @@ ("true" :> "KwTrue")
    @@ ("var" :> "KwVar") @@ ("while" :> "KwWhile")

Names == {"a", "b", "c", "f", "g", "h", "map", "set"}

Words == DOMAIN Keywords \cup Names

lex_identifier(w) == IF w \in DOMAIN Keywords THEN Keywords[w] ELSE "Identifier"

lex_operator ==
    ("(" :> "LeftParen") @@ (")" :> "RightParen") @@ ("[" :> "LeftBracket")
    @@ ("]" :> "RightBracket") @@ ("{" :> "LeftBrace") @@ ("}" :> "RightBrace")
    @@ ("." :> "Dot") @@ ("," :> "Comma") @@ (":" :> "Colon") @@ (";" :> "Semicolon")
    @@ ("?." :> "QuestionDot") @@ ("?(" :> "QuestionLeftParen")
    @@ ("?[" :> "QuestionLeftBracket") @@ ("??" :> "QuestionQuestion")
    @@ ("+" :> "Plus") @@ ("-" :> "Minus") @@ ("*" :> "Star") @@ ("**" :> "StarStar")
    @@ ("/" :> "Slash") @@ ("+=" :> "PlusEquals") @@ ("!" :> "LogicalNot")
    @@ ("||" :> "LogicalOr") @@ ("&&" :> "LogicalAnd") @@ ("=" :> "Equals")
    @@ ("==" :> "EqualsEquals") @@ ("<" :> "Less") @@ ("<<" :> "LeftShift")

Quotes == {"\"", "'"}

\* Lexer::State.
normal == [type |-> "Normal", open_braces |-> 0, string_delim |-> "", string_needs_identifier |-> FALSE]
string(delim) == [normal EXCEPT !.type = "String", !.string_delim = delim]

\* A lexer at position pos of source src; toks are the tokens of the calls of next so far.
\* states is the stack of saved states, state the current one.
Lexer(src) ==
    [src |-> src, pos |-> 1, state |-> normal, states |-> <<>>, last_non_ws |-> "Eof", toks |-> <<>>]

eof(l) == l.pos > Len(l.src)
cur(l) == l.src[l.pos]

\* Emits the n next symbols as one token.
Emit(l, type, n) ==
    LET tok == [type |-> type, first |-> l.pos, last |-> l.pos + n - 1,
                text |-> IF n = 1 THEN cur(l) ELSE ""]
    IN  [l EXCEPT !.pos = @ + n, !.last_non_ws = type, !.toks = Append(@, tok)]

push_state(l, new) == [l EXCEPT !.states = Append(@, l.state), !.state = new]

\* pop_state() leaves the current state alone when no state was saved.
pop_state(l) ==
    IF l.states = <<>> THEN l
    ELSE [l EXCEPT !.state = Last(l.states), !.states = Front(@)]

\* A closing brace ends the block of a string when no brace inside of the block is open; the
\* outermost state may have more closing braces than opening ones.
lex_brace(l) ==
    IF l.state.open_braces = 0 /\ l.states # <<>>
    THEN Emit(pop_state(l), "StringBlockEnd", 1)
    ELSE LET k == l.state.open_braces
         IN  Emit([l EXCEPT !.state.open_braces = IF k > 0 THEN k - 1 ELSE 0], "RightBrace", 1)

lex_normal(l) ==
    CASE eof(l) -> Emit(l, "Eof", 0)
      [] cur(l) \in Quotes -> Emit(push_state(l, string(cur(l))), "StringStart", 1)
      [] cur(l) = "1" ->
            Emit(l, IF l.last_non_ws \in {"Dot", "QuestionDot"} THEN "TupleField" ELSE "Integer", 1)
      [] cur(l) = "1.5" -> Emit(l, "Float", 1)
      [] cur(l) = "#a" -> Emit(l, "Symbol", 1)
      [] cur(l) \in Words -> Emit(l, lex_identifier(cur(l)), 1)
      [] cur(l) = "{" -> Emit([l EXCEPT !.state.open_braces = @ + 1], "LeftBrace", 1)
      [] cur(l) = "}" -> lex_brace(l)
      [] cur(l) \in DOMAIN lex_operator \ {"{", "}"} -> Emit(l, lex_operator[cur(l)], 1)
      [] OTHER -> Emit(l, "Unexpected", 1)

\* The position behind the string content at i.  A backslash takes the symbol behind it with it.
RECURSIVE lex_string_content(_, _)
lex_string_content(l, i) ==
    IF i > Len(l.src) THEN Len(l.src) + 1
    ELSE IF l.src[i] \in {l.state.string_delim, "$"} THEN i
    ELSE lex_string_content(l, IF l.src[i] = "\\" THEN i + 2 ELSE i + 1)

lex_string(l) ==
    LET m == [l EXCEPT !.state.string_needs_identifier = FALSE]
    IN  CASE eof(l) -> lex_normal(l)
          [] cur(l) = l.state.string_delim -> Emit(pop_state(l), "StringEnd", 1)
          [] l.state.string_needs_identifier /\ cur(l) \in Words -> Emit(m, lex_identifier(cur(l)), 1)
          [] cur(l) = "$" ->
                IF l.pos < Len(l.src) /\ l.src[l.pos + 1] = "{"
                THEN Emit(push_state(m, normal), "StringBlockStart", 2)
                ELSE Emit([m EXCEPT !.state.string_needs_identifier = TRUE], "StringVar", 1)
          [] OTHER -> Emit(m, "StringContent", lex_string_content(l, l.pos) - l.pos)

next(l) == IF l.state.type = "Normal" THEN lex_normal(l) ELSE lex_string(l)

RECURSIVE LexFrom(_)
LexFrom(l) ==
    LET m == next(l) IN IF Last(m.toks).type = "Eof" THEN m ELSE LexFrom(m)

\* The tokens of a source file, the end of the file included.
Lex(src) == LexFrom(Lexer(src)).toks

\* Opening and closing tokens, as the parser pairs them.
Closing == ("StringStart" :> "StringEnd") @@ ("StringBlockStart" :> "StringBlockEnd")
           @@ ("LeftBrace" :> "RightBrace") @@ ("LeftParen" :> "RightParen")
           @@ ("LeftBracket" :> "RightBracket") @@ ("QuestionLeftParen" :> "RightParen")
           @@ ("QuestionLeftBracket" :> "RightBracket")

\* TRUE iff the tokens with types in opening and the ones that close them are well nested.
\* With strict = FALSE, openings may be left open at the end, and closings where nothing is open.
Nested(toks, opening, strict) ==
    LET closing == {Closing[t] : t \in opening}
        step(stack, tok) ==
            CASE stack = <<"bad">> -> stack
              [] tok.type \in opening -> Append(stack, Closing[tok.type])
              [] tok.type \in closing ->
                    IF stack = <<>> /\ ~strict THEN stack
                    ELSE IF stack # <<>> /\ Last(stack) = tok.type THEN Front(stack) ELSE <<"bad">>
              [] OTHER -> stack
        end == FoldLeft(step, <<>>, toks)
    IN  IF strict THEN end = <<>> ELSE end # <<"bad">>
=============================================================================
