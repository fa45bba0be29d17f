------------------------------- MODULE Parser -------------------------------
(***************************************************************************)
(* The parser (src/src/compiler/syntax/parser.cpp and syntax/grammar/):    *)
(* a recursive descent parser that writes a list of events, recovers from  *)
(* errors and never looks back.  A node is opened by a tombstone event     *)
(* that becomes a start event when the node is completed, and a completed  *)
(* node is wrapped by naming a later start event as its forward parent.    *)
(*                                                                         *)
(* Every function of the grammar is an operator from the parser to the     *)
(* parser after the call; the completed marker a function returns is the   *)
(* field res (the index of the start event, 0 for none).                   *)
(*                                                                         *)
(* The code counts the inspections of tokens since the last advance and    *)
(* gives up at 1024 with an exception.  A loop that comes around without   *)
(* having advanced comes around until then: the model notices the first    *)
(* such round, stuck is set to the token the parser stands at, and nothing *)
(* is left to parse.  The inspections themselves are not counted: hundreds *)
(* of nested constructs that end at the same token reach 1024 as well,     *)
(* which a text of a few dozen tokens cannot.                              *)
(***************************************************************************)
EXTENDS Lexer

Tombstone == [e |-> "tombstone"]
Finish == [e |-> "finish"]
Error == [e |-> "error"]
StartEvent(type) == [e |-> "start", type |-> type, forward_parent |-> 0]
TokenEvent(tok) == [e |-> "token", tok |-> tok]

Parser(toks) == [toks |-> toks, pos |-> 1, ev |-> <<>>, res |-> 0, stuck |-> ""]

ahead(p, n) == IF p.pos + n > Len(p.toks) THEN "Eof" ELSE p.toks[p.pos + n].type
current(p) == ahead(p, 0)
at_any(p, types) == current(p) \in types
at_source(p, text) == p.pos <= Len(p.toks) /\ p.toks[p.pos].text = text

advance_with_type(p, type) ==
    IF p.pos > Len(p.toks) THEN p
    ELSE [p EXCEPT !.pos = @ + 1, !.ev = Append(@, TokenEvent([p.toks[p.pos] EXCEPT !.type = type]))]

advance(p) == advance_with_type(p, current(p))

\* The token is skipped instead of taken (mutant).
accept_drops(p, types) == IF at_any(p, types) THEN [p EXCEPT !.pos = @ + 1] ELSE p

accept(p, types) == IF at_any(p, types) THEN advance(p) ELSE p

error(p) == [p EXCEPT !.ev = Append(@, Error)]

expect(p, type) == IF current(p) = type THEN advance(p) ELSE error(p)

\* on_inspection, as far as it ends a loop: its body has not moved since before.
on_inspection(before, p) ==
    IF p.stuck = "" /\ p.pos = before.pos
    THEN [p EXCEPT !.stuck = current(p), !.pos = Len(p.toks) + 1]
    ELSE p

\* Marker and CompletedMarker: the marker of the next node is mark(p).
mark(p) == Len(p.ev) + 1
start(p) == [p EXCEPT !.ev = Append(@, Tombstone)]
complete(p, m, type) ==
    [p EXCEPT !.ev = Append([@ EXCEPT ![m] = StartEvent(type)], Finish), !.res = m]

precede(p, c) == start([p EXCEPT !.ev[c].forward_parent = mark(p)])

none(p) == [p EXCEPT !.res = 0]

SKIP_CONSUME_ON_ERROR == {"LeftBrace", "RightBrace", "StringBlockStart", "StringBlockEnd"}

error_recover(p, recovery) ==
    IF at_any(p, SKIP_CONSUME_ON_ERROR \cup recovery) THEN none(error(p))
    ELSE none(complete(error(advance(start(p))), mark(p), "Error"))

NESTING_START == {"LeftBrace", "StringBlockStart", "StringStart"}

closing_token(t) ==
    CASE t = "LeftBrace" -> "RightBrace"
      [] t = "StringBlockStart" -> "StringBlockEnd"
      [] OTHER -> "StringEnd"

\* The first entry of the stack is the closing token, the ones for nested blocks are their
\* opening tokens.
RECURSIVE discard_rest(_, _)
discard_rest(p, stack) ==
    IF stack = <<>> \/ current(p) = "Eof" THEN p
    ELSE discard_rest(advance(p),
            CASE at_any(p, NESTING_START) -> Append(stack, current(p))
              [] current(p) = Last(stack) -> Front(stack)
              [] OTHER -> stack)

discard_block_impl(p) == discard_rest(advance(p), <<closing_token(current(p))>>)

discard_nested(p) == complete(discard_block_impl(error(start(p))), mark(p), "Error")

RECURSIVE discard_input(_, _)
discard_input(p, recovery) ==
    CASE current(p) = "Eof" -> p
      [] at_any(p, NESTING_START) -> discard_input(discard_block_impl(p), recovery)
      [] at_any(p, recovery) -> p
      [] OTHER -> discard_input(advance(p), recovery)

unary_precedence == 13

\* InfixOperator: precedence and associativity of the infix operators.
infix_operator_precedence ==
    LET ops(types, prec) == [t \in types |-> prec]
    IN  ops({"Equals", "PlusEquals"}, 0) @@ ops({"LogicalOr"}, 1) @@ ops({"LogicalAnd"}, 2)
        @@ ops({"QuestionQuestion"}, 3) @@ ops({"EqualsEquals"}, 7) @@ ops({"Less"}, 8)
        @@ ops({"LeftShift"}, 9) @@ ops({"Plus", "Minus"}, 10) @@ ops({"Star", "Slash"}, 11)
        @@ ops({"StarStar"}, 12)
        @@ ops({"LeftParen", "LeftBracket", "Dot", "QuestionLeftParen", "QuestionLeftBracket",
                "QuestionDot"}, 14)

right_assoc == {"Equals", "PlusEquals", "StarStar"}

\* All operators are left associative (mutant).
next_bp_left(op) == infix_operator_precedence[op] + 1

\* The binding power that the operand to the right of an operator is parsed with.
next_bp(op) == infix_operator_precedence[op] + (IF op \in right_assoc THEN 0 ELSE 1)

LITERAL_FIRST == {"KwTrue", "KwFalse", "KwNull", "Symbol", "Float", "Integer"}
UNARY_OP_FIRST == {"Plus", "Minus", "BitwiseNot", "LogicalNot"}
EXPR_FIRST ==
    LITERAL_FIRST \cup UNARY_OP_FIRST
    \cup {"KwFunc", "KwContinue", "KwBreak", "KwReturn", "KwIf", "Identifier", "StringStart",
          "LeftParen", "LeftBracket", "LeftBrace"}
VAR_FIRST == {"KwConst", "KwVar"}
BINDING_PATTERN_FIRST == {"LeftParen", "Identifier"}

EXPR_STMT_OPTIONAL_SEMI == {"KwFunc", "KwIf", "LeftBrace"}
STMT_FIRST == EXPR_FIRST \cup VAR_FIRST \cup {"KwDefer", "KwAssert", "KwWhile", "KwFor"}
MODIFIERS == {"KwExport"}
ITEM_FIRST == MODIFIERS \cup VAR_FIRST \cup {"KwImport", "KwFunc"}
CLOSING_BRACES == {"RightParen", "RightBracket", "RightBrace"}

RECURSIVE parse_expr(_, _, _, _)
RECURSIVE parse_stmt(_, _)
RECURSIVE parse_if_expr(_, _)

parse_name(p, recovery) ==
    IF current(p) # "Identifier" THEN error_recover(p, recovery)
    ELSE complete(advance(start(p)), mark(p), "Name")

\* Expressions separated by commas, up to the closing token: the loop of argument lists,
\* array and set literals.
RECURSIVE expr_list(_, _, _)
more_exprs(p, close, recovery) ==
    CASE p.res = 0 \/ current(p) = close -> p
      [] current(p) = "Comma" /\ p.res # 0 -> expr_list(advance(p), close, recovery)
      [] OTHER -> error(p)

expr_list(p, close, recovery) ==
    IF at_any(p, {"Eof", close}) THEN p
    ELSE more_exprs(parse_expr(p, 0, FALSE, recovery \cup {"Comma", close}), close, recovery)

parse_arg_list(p, recovery) ==
    IF ~at_any(p, {"LeftParen", "QuestionLeftParen"}) THEN error(p)
    ELSE complete(expect(expr_list(advance(start(p)), "RightParen", recovery), "RightParen"), mark(p), "ArgList")

\* Names separated by commas; lenient goes on behind a missing comma (parameter lists), the
\* tuple pattern of a binding does not.
RECURSIVE name_list(_, _)
name_list(p, lenient) ==
    IF at_any(p, {"Eof", "RightParen"}) THEN p
    ELSE IF current(p) # "Identifier" THEN error(p)
    ELSE LET q == advance(p)
         IN  CASE current(q) = "RightParen" -> q
               [] current(q) = "Comma" \/ lenient -> name_list(expect(q, "Comma"), lenient)
               [] OTHER -> error(q)

parse_param_list(p) ==
    IF ~at_any(p, {"LeftParen", "QuestionLeftParen"}) THEN error(p)
    ELSE complete(expect(name_list(advance(start(p)), TRUE), "RightParen"), mark(p), "ParamList")

RECURSIVE block_stmts(_)
block_stmts(p) ==
    CASE at_any(p, {"Eof", "RightBrace"}) -> p
      [] current(p) = "Semicolon" -> block_stmts(advance(p))
      [] OTHER -> block_stmts(on_inspection(p, parse_stmt(p, STMT_FIRST \cup {"RightBrace"})))

parse_block_expr_unchecked(p) ==
    complete(expect(block_stmts(advance(start(p))), "RightBrace"), mark(p), "BlockExpr")

parse_block_expr(p) ==
    IF current(p) # "LeftBrace" THEN error(p) ELSE parse_block_expr_unchecked(p)

func_name(p, recovery) ==
    IF current(p) = "Identifier" THEN parse_name(p, recovery \cup {"LeftParen"}) ELSE p

\* short: the body is an expression behind "=", not a block.
func_body(p, m, short, recovery) ==
    [p |-> complete(IF short THEN parse_expr(p, 0, FALSE, recovery) ELSE parse_block_expr(p), m, "Func"),
     short |-> short]

func_rest(p, m, recovery) ==
    LET q == accept(p, {"Equals"})
    IN  func_body(q, m, current(p) = "Equals" /\ current(q) # "LeftBrace", recovery)

\* modifiers is the completed node of the modifiers, 0 for none.  Without modifiers and
\* without the keyword the callers only report an error.
parse_func(p, recovery, modifiers) ==
    func_rest(parse_param_list(func_name(advance(IF modifiers # 0 THEN precede(p, modifiers) ELSE start(p)), recovery)),
              mark(p), recovery)

parse_binding_pattern(p, recovery) ==
    CASE current(p) = "LeftParen" ->
            complete(expect(name_list(advance(start(p)), FALSE), "RightParen"), mark(p), "BindingTuple")
      [] current(p) = "Identifier" -> complete(advance(start(p)), mark(p), "BindingName")
      [] OTHER -> error_recover(p, recovery)

initializer(p, no_block, recovery) ==
    IF current(p) = "Equals" THEN parse_expr(advance(p), 0, no_block, recovery) ELSE p

parse_binding(p, no_block, recovery) ==
    complete(initializer(parse_binding_pattern(start(p), recovery \cup {"Equals"}), no_block, recovery),
             mark(p), "Binding")

RECURSIVE bindings(_, _, _)
more_bindings(p, no_block, recovery) ==
    IF current(p) = "Comma" THEN bindings(advance(p), no_block, recovery) ELSE p

bindings(p, no_block, recovery) ==
    IF current(p) = "Eof" THEN p
    ELSE more_bindings(parse_binding(p, no_block, recovery \cup {"Comma"}), no_block, recovery)

\* Called at one of VAR_FIRST only.
parse_var(p, no_block, recovery, modifiers) ==
    complete(bindings(advance(IF modifiers # 0 THEN precede(p, modifiers) ELSE start(p)), no_block, recovery),
             mark(p), "Var")

parse_condition(p, recovery) ==
    complete(parse_expr(start(p), 0, TRUE, recovery), mark(p), "Condition")

RECURSIVE record_items(_, _)
more_records(p, m, recovery) ==
    IF p.res = 0 \/ current(p) = "RightParen" THEN complete(p, m, "RecordItem")
    ELSE record_items(expect(complete(p, m, "RecordItem"), "Comma"), recovery)

record_items(p, recovery) ==
    IF at_any(p, {"Eof", "RightParen"}) THEN p
    ELSE more_records(parse_expr(expect(parse_name(start(p), recovery \cup {"Colon"}), "Colon"), 0, FALSE,
                                 recovery \cup {"Comma", "RightParen"}),
                      mark(p), recovery)

\* Goes on behind a missing comma.  The field comma is set by the first comma.
RECURSIVE paren_items(_, _, _)
more_parens(p, recovery, comma) ==
    IF p.res = 0 \/ current(p) = "RightParen" THEN [p |-> p, comma |-> comma]
    ELSE paren_items(expect(p, "Comma"), recovery, comma \/ current(p) = "Comma")

paren_items(p, recovery, comma) ==
    IF at_any(p, {"Eof", "RightParen"}) THEN [p |-> p, comma |-> comma]
    ELSE more_parens(parse_expr(p, 0, FALSE, recovery \cup {"Comma", "RightParen"}), recovery, comma)

paren_end(items, m, empty) ==
    complete(expect(items.p, "RightParen"), m, IF ~empty /\ ~items.comma THEN "GroupedExpr" ELSE "TupleExpr")

parse_paren_expr(p, recovery) ==
    LET m == mark(p)
        q == advance(start(p))
    IN  CASE current(q) = "RightParen" -> complete(advance(q), m, "TupleExpr")
          [] current(q) = "Colon" -> complete(expect(advance(q), "RightParen"), m, "RecordExpr")
          [] current(q) = "Identifier" /\ ahead(q, 1) = "Colon" ->
                complete(expect(record_items(q, recovery), "RightParen"), m, "RecordExpr")
          [] OTHER -> paren_end(paren_items(q, recovery, FALSE), m, current(q) = "Eof")

else_body(p, recovery) == IF current(p) = "KwIf" THEN parse_if_expr(p, recovery) ELSE parse_block_expr(p)

else_branch(p, recovery) == IF current(p) # "KwElse" THEN p ELSE else_body(accept(p, {"KwElse"}), recovery)

parse_if_expr(p, recovery) ==
    complete(else_branch(parse_block_expr(parse_condition(advance(start(p)), recovery \cup {"LeftBrace"})), recovery),
             mark(p), "IfExpr")

parse_array_expr(p, recovery) ==
    complete(expect(expr_list(advance(start(p)), "RightBracket", recovery), "RightBracket"),
             mark(p), "ArrayExpr")

parse_set_expr(p, recovery) ==
    LET q == expect(advance_with_type(start(p), "KwSet"), "LeftBrace")
    IN  complete(expect(expr_list(q, "RightBrace", recovery), "RightBrace"), mark(p), "SetExpr")

RECURSIVE map_items(_, _)
\* p stands behind the value of the item at m.
more_map_items(p, m, recovery) ==
    LET done == complete(p, m, "MapItem")
    IN  CASE p.res = 0 \/ current(p) = "RightBrace" -> done
          [] p.res # 0 /\ current(p) = "Comma" -> map_items(advance(done), recovery)
          [] OTHER -> expect(done, "Comma")

\* p stands behind the key.
map_value(p, m, recovery) ==
    CASE p.res = 0 -> complete(p, m, "MapItem")
      [] p.res # 0 /\ current(p) # "Colon" -> complete(expect(p, "Colon"), m, "MapItem")
      [] OTHER -> more_map_items(parse_expr(expect(p, "Colon"), 0, FALSE, recovery \cup {"Colon"}), m, recovery)

map_items(p, recovery) ==
    IF at_any(p, {"Eof", "RightBrace"}) THEN p
    ELSE map_value(parse_expr(start(p), 0, FALSE, recovery \cup {"Colon"}), mark(p), recovery)

parse_map_expr(p, recovery) ==
    LET q == expect(advance_with_type(start(p), "KwMap"), "LeftBrace")
    IN  complete(expect(map_items(q, recovery), "RightBrace"), mark(p), "MapExpr")

\* The items of a string literal, up to its end.
RECURSIVE string_items(_)
string_name(p) == complete(expect(start(p), "Identifier"), mark(p), "VarExpr")

block_rest(p) ==
    IF current(p) = "StringBlockEnd" THEN p
    ELSE complete(discard_input(error(start(p)), {"StringBlockEnd"}), mark(p), "Error")

string_block(p) == accept(block_rest(parse_expr(advance(p), 0, FALSE, {"StringBlockEnd"})), {"StringBlockEnd"})

string_items(p) ==
    CASE at_any(p, {"Eof", "StringEnd"}) -> p
      [] current(p) = "StringContent" -> string_items(advance(p))
      [] current(p) = "StringVar" ->
            string_items(complete(string_name(advance(start(p))), mark(p), "StringFormatItem"))
      [] current(p) = "StringBlockStart" ->
            string_items(complete(string_block(start(p)), mark(p), "StringFormatBlock"))
      [] OTHER -> string_items(discard_input(error(p),
                        {"StringContent", "StringVar", "StringBlockStart", "StringEnd"}))

parse_string_literal(p) ==
    complete(expect(string_items(advance(start(p))), "StringEnd"), mark(p), "StringExpr")

RECURSIVE more_strings(_)
more_strings(p) ==
    IF current(p) = "StringStart" THEN more_strings(parse_string_literal(p)) ELSE p

\* Adjacent strings are joined to one group.
string_group(p) ==
    IF current(p) # "StringStart" THEN p
    ELSE complete(more_strings(precede(p, p.res)), mark(p), "StringGroup")

parse_string_expr(p) == string_group(parse_string_literal(p))

parse_primary_expr(p, no_block, recovery) ==
    LET m == mark(p)
        one == advance(start(p))
        t == current(p)
    IN  CASE t \in LITERAL_FIRST -> complete(one, m, "Literal")
          [] t = "LeftBrace" -> parse_block_expr_unchecked(p)
          [] t = "LeftParen" -> parse_paren_expr(p, recovery)
          [] t = "KwIf" -> parse_if_expr(p, recovery)
          [] t = "KwReturn" ->
                complete(IF at_any(one, EXPR_FIRST) THEN parse_expr(one, 0, FALSE, recovery) ELSE one,
                         m, "ReturnExpr")
          [] t = "KwContinue" -> complete(one, m, "ContinueExpr")
          [] t = "KwBreak" -> complete(one, m, "BreakExpr")
          [] t = "Identifier" /\ ~no_block /\ ahead(p, 1) = "LeftBrace" ->
                CASE at_source(p, "map") -> parse_map_expr(p, recovery)
                  [] at_source(p, "set") -> parse_set_expr(p, recovery)
                  [] OTHER -> complete(discard_nested(advance(error(start(p)))), m, "Error")
          [] t = "Identifier" /\ (no_block \/ ahead(p, 1) # "LeftBrace") -> complete(one, m, "VarExpr")
          [] t = "KwFunc" -> complete(parse_func(start(p), recovery, 0).p, m, "FuncExpr")
          [] t = "LeftBracket" -> parse_array_expr(p, recovery)
          [] t = "StringStart" -> parse_string_expr(p)
          [] OTHER -> error_recover(p, recovery)

parse_prefix_expr(p, no_block, recovery) ==
    IF ~at_any(p, UNARY_OP_FIRST) THEN parse_primary_expr(p, no_block, recovery)
    ELSE complete(parse_expr(advance(start(p)), unary_precedence, no_block, recovery), mark(p), "UnaryExpr")

\* p stands behind the completed left operand p.res, at an infix operator.
parse_infix_expr(p, no_block, recovery) ==
    LET m == mark(p)
        op == current(p)
        q == precede(p, p.res)
        member == advance(q)
    IN  CASE op \in {"Dot", "QuestionDot"} ->
                CASE current(member) = "Identifier" -> complete(advance(member), m, "FieldExpr")
                  [] current(member) = "TupleField" -> complete(advance(member), m, "TupleFieldExpr")
                  [] OTHER -> complete(error(member), m, "FieldExpr")
          [] op \in {"LeftBracket", "QuestionLeftBracket"} ->
                complete(expect(parse_expr(member, 0, FALSE, {"RightBracket"}), "RightBracket"), m, "IndexExpr")
          [] op \in {"LeftParen", "QuestionLeftParen"} -> complete(parse_arg_list(q, recovery), m, "CallExpr")
          [] OTHER -> complete(parse_expr(advance(q), next_bp(op), no_block, recovery), m, "BinaryExpr")

RECURSIVE infix_loop(_, _, _, _)
infix_loop(p, bp, no_block, recovery) ==
    IF current(p) \notin DOMAIN infix_operator_precedence THEN p
    ELSE IF infix_operator_precedence[current(p)] < bp THEN p
    ELSE infix_loop(parse_infix_expr(p, no_block, recovery), bp, no_block, recovery)

infix_exprs(p, bp, no_block, recovery) == IF p.res = 0 THEN p ELSE infix_loop(p, bp, no_block, recovery)

parse_expr(p, bp, no_block, recovery) ==
    infix_exprs(parse_prefix_expr(p, no_block, recovery), bp, no_block, recovery)

parse_while_stmt(p, recovery) ==
    complete(parse_block_expr(parse_condition(advance(start(p)), recovery \cup {"LeftBrace"})),
             mark(p), "WhileStmt")

\* The header of a classic loop: optional declaration, condition and step.
for_decl(p, recovery) ==
    IF current(p) = "Semicolon" THEN advance(start(p))
    ELSE expect(parse_var(start(p), TRUE, recovery \cup {"Semicolon"}, 0), "Semicolon")

for_cond(p, recovery) ==
    IF current(p) = "Semicolon" THEN advance(p)
    ELSE expect(complete(parse_expr(start(p), 0, FALSE, recovery \cup {"Semicolon"}), mark(p), "Condition"),
                "Semicolon")

for_step(p, recovery) ==
    IF current(p) = "LeftBrace" THEN p ELSE parse_expr(p, 0, TRUE, recovery \cup {"LeftBrace"})

for_header(p, recovery) ==
    complete(for_step(for_cond(for_decl(p, recovery), recovery), recovery), mark(p), "ForStmtHeader")

for_each_header(p, recovery) ==
    complete(parse_expr(expect(parse_binding_pattern(start(p), recovery \cup {"KwIn"}), "KwIn"), 0, TRUE,
                        recovery \cup {"LeftBrace"}),
             mark(p), "ForEachStmtHeader")

\* The marker is left incomplete when neither form of a loop follows.
parse_for_stmt(p, recovery) ==
    LET q == advance(start(p))
        r == IF current(q) = "LeftParen" /\ ahead(q, 1) \in VAR_FIRST THEN error(q) ELSE q
    IN  CASE at_any(r, VAR_FIRST \cup {"Semicolon"}) ->
                complete(parse_block_expr(for_header(r, recovery)), mark(p), "ForStmt")
          [] at_any(r, BINDING_PATTERN_FIRST) ->
                complete(parse_block_expr(for_each_header(r, recovery)), mark(p), "ForEachStmt")
          [] OTHER -> error_recover(r, recovery)

parse_var_stmt(p, recovery) ==
    complete(expect(parse_var(start(p), FALSE, recovery \cup {"Semicolon"}, 0), "Semicolon"),
             mark(p), "VarStmt")

\* The end of an expression that started with the given token.
statement_end(p, first) ==
    IF first \in EXPR_STMT_OPTIONAL_SEMI THEN accept(p, {"Semicolon"}) ELSE expect(p, "Semicolon")

parse_expr_stmt(p, recovery) ==
    complete(statement_end(parse_expr(start(p), 0, FALSE, recovery \cup {"Semicolon"}), current(p)),
             mark(p), "ExprStmt")

parse_stmt(p, recovery) ==
    LET one == advance(start(p))
        t == current(p)
    IN  CASE t = "KwDefer" ->
                complete(expect(parse_expr(one, 0, FALSE, recovery \cup {"Semicolon"}), "Semicolon"),
                         mark(p), "DeferStmt")
          [] t = "KwAssert" -> complete(expect(parse_arg_list(one, recovery), "Semicolon"), mark(p), "AssertStmt")
          [] t = "KwWhile" -> parse_while_stmt(p, recovery)
          [] t = "KwFor" -> parse_for_stmt(p, recovery)
          [] t \in VAR_FIRST -> parse_var_stmt(p, recovery)
          [] t \in EXPR_FIRST -> parse_expr_stmt(p, recovery)
          [] OTHER -> error_recover(p, recovery)

RECURSIVE try_parse_modifiers(_)
try_parse_modifiers(p) == IF at_any(p, MODIFIERS) THEN try_parse_modifiers(advance(p)) ELSE p

RECURSIVE import_segments(_)
import_segments(p) ==
    LET q == IF current(p) = "Identifier" THEN advance(p)
             ELSE error_recover(p, ITEM_FIRST \cup {"KwAs", "Semicolon", "Dot"})
    IN  CASE current(p) = "Eof" -> p
          [] current(q) = "Dot" -> import_segments(advance(q))
          [] OTHER -> q

parse_import(p) ==
    LET q == advance(start(p))
        r == complete(import_segments(start(q)), mark(q), "ImportPath")
        s == IF current(r) = "KwAs" THEN expect(advance(r), "Identifier") ELSE r
    IN  complete(expect(s, "Semicolon"), mark(p), "ImportItem")

modifiers_of(p) ==
    IF at_any(p, MODIFIERS) THEN complete(try_parse_modifiers(start(p)), mark(p), "Modifiers") ELSE none(p)

func_item_end(func, m) ==
    complete(IF func.short THEN expect(func.p, "Semicolon") ELSE func.p, m, "FuncItem")

\* p stands behind the modifiers, if there are any; m is the marker of the item.
declaration(p, m, recovery) ==
    CASE at_any(p, VAR_FIRST) ->
            complete(expect(parse_var(p, FALSE, recovery \cup {"Semicolon"}, p.res), "Semicolon"), m, "VarItem")
      [] current(p) = "KwFunc" -> func_item_end(parse_func(p, recovery, p.res), m)
      [] OTHER -> complete(error_recover(p, recovery), m, "Error")

parse_item(p, recovery) ==
    IF current(p) = "KwImport" THEN parse_import(p)
    ELSE declaration(modifiers_of(start(p)), mark(p), recovery)

\* A closing brace takes the token behind it with it.
RECURSIVE file_items(_)
file_items(p) ==
    LET brace == advance(p)
    IN  CASE current(p) = "Eof" -> p
          [] current(p) = "Semicolon" -> file_items(advance(p))
          [] at_any(p, CLOSING_BRACES) ->
                file_items(complete(error(advance(start(brace))), mark(brace), "Error"))
          [] at_any(p, NESTING_START) -> file_items(discard_nested(p))
          [] OTHER -> file_items(on_inspection(p, parse_item(p, ITEM_FIRST)))

\* The parser after the whole file.
parse_file(toks) == complete(file_items(start(Parser(toks))), 1, "File")
=============================================================================
