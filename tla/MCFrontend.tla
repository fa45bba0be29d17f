---------------------------- MODULE MCFrontend ----------------------------
EXTENDS Frontend

\* A function around a body.
InFunc(body) == <<"func", "f", "(", "b", ")", "{">> \o body \o <<"}">>

\* Texts that do not follow the grammar, for the recovery from errors.
Pieces == {<<"a">>, <<"(">>, <<")">>, <<"{">>, <<"}">>, <<"\"">>, <<"$", "{">>, <<"for">>, <<",">>,
           <<":">>, <<";">>, <<"a", "{">>, <<"func">>, <<"var">>}

\* Another string with a block, where a name is expected.
NotANameButABlock == InFunc(<<"a", "[", "(", "a", ":", "1", ",", "\"", "$", "{", "a", "}", "\"", ")", "]", ";">>)

Broken == {NotANameButABlock} \cup {InFunc(p \o q \o r) : p, q, r \in Pieces} \cup {p \o q \o r : p, q, r \in Pieces}

\* Operators of all kinds of precedence and associativity.
Ops == {"=", "+=", "||", "&&", "??", "==", "<", "<<", "+", "*", "**"}
Operands == {<<"a">>, <<"-", "a">>, <<"a", ".", "b">>, <<"(", "a", "+", "b", ")">>, <<"a", "(", "b", ",", "1", ")">>,
             <<"null">>, <<"1.5">>, <<"#a">>, <<"a", ".", "1">>, <<"(", "true", ",", ")">>, <<"[", "false", "]">>}
Chains == {<<"func", "f", "(", ")", "=", "a", o>> \o x \o <<p, "b", q, "c", ";">> :
            o, p, q \in {"=", "||", "+", "**"}, x \in Operands}
          \cup {<<"func", "f", "(", ")", "=", "a", o, "b", p, "c", ";">> : o, p \in Ops}

\* Programs of nested statements.
Values == {<<"1">>, <<"a">>, <<"func", "h", "(", ")", "{", "a", ";", "}">>,
           <<"if", "b", "{", "1", ";", "}", "else", "{", "b", ";", "}">>, <<"if", "b", "{", "1", ";", "}">>,
           <<"\"", "a", "$", "{", "b", "}", "\"">>}
Simple == {<<kw, "a", "=">> \o v \o <<";">> : kw \in {"const", "var"}, v \in Values}
          \cup {<<"a", "=", "b", ";">>, <<"(", "b", ",", "a", ")", "=", "b", ";">>, <<"a", ".", "b", "=", "1", ";">>,
                <<"a", "?.", "b", "=", "1", ";">>, <<"h", "(", ")", ";">>, <<"break", ";">>, <<"return", "a", ";">>,
                <<"const", "a", ";">>, <<"defer", "a", "(", ")", ";">>, <<"assert", "(", "a", ")", ";">>}
Wrapped(body) ==
    {body, <<"{">> \o body \o <<"}">>, <<"while", "a", "{">> \o body \o <<"}">>,
     <<"for", "a", "in", "b", "{">> \o body \o <<"}">>,
     <<"for", "var", "a", "=", "1", ";", "a", ";", "a", "+=", "1", "{">> \o body \o <<"}">>,
     <<"const", "g", "=", "func", "(", "a", ")", "{">> \o body \o <<"}", ";">>}
Global == <<"export", "const", "a", "=", "1", ";">>
Twice == {w \o t : t \in Simple, w \in UNION {Wrapped(s) : s \in Simple}}
         \cup UNION {UNION {Wrapped(w) : w \in Wrapped(s)} : s \in Simple}
Programs == UNION {{InFunc(p), Global \o InFunc(p)} : p \in Twice}

\* Closures: the innermost function uses variables of the functions, blocks, loops and deferred
\* statements around it; in a row, the second one may leave the scope of the first one.
Within(x, body) ==
    LET b == <<"{", "var", x, "=", "1", ";">> \o body \o <<"}">>
    IN  {b, <<"while", "b">> \o b, <<"for", "c", "in", "b">> \o b, <<"for", ";", ";">> \o b,
         <<"defer">> \o b \o <<";">>, <<"const", "g", "=", "func", "(", ")">> \o b \o <<";">>}
Use(xs) == <<"const", "h", "=", "func", "(", ")", "{">> \o xs \o <<"}", ";">>
UseAll == Use(<<"a", ";", "b", ";", "c", ";">>)
Uses == {UseAll, Use(<<"c", ";">>) \o <<"return", "b", ";">>,
         Use(<<"a", "=", "c", ";">>) \o <<"if", "b", "{", "continue", ";", "}">>}
Nests == UNION {UNION {Within("c", v) : v \in Within("a", u)} : u \in Uses}
Rows == {v \o w : v \in Within("a", UseAll), w \in Within("c", Use(<<"c", ";">>) \o <<"return", "b", ";">>)}
\* The same in the initializer of a module, next to functions that are members of the module.
InModule == {<<"const", "g", "=">> \o f \o <<";", "var", "a", "=", "{", "var", "b", "=", "1", ";">> \o u \o <<"b", ";", "}", ";">> :
               f \in {<<"1">>, <<"func", "h", "(", ")", "=", "1">>},
               u \in UNION {Within("c", Use(xs)) : xs \in {<<"b", ";">>, <<"g", ";", "c", ";">>}}}
ClosurePrograms ==
    {<<"func", "f", "(", "b", ")", "{", "var", "c", "=", "1", ";">> \o w \o <<"}">> : w \in Nests \cup Rows}
    \cup InModule

MCValid == Chains \cup Programs \cup ClosurePrograms
MCSources == MCValid \cup Broken
=============================================================================
