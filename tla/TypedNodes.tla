----------------------------- MODULE TypedNodes -----------------------------
(***************************************************************************)
(* Reading the children of a syntax node                                   *)
(* (src/src/compiler/ast_gen/scanner.hpp and typed_nodes.cpp).             *)
(*                                                                         *)
(* A typed node is read by searching its children from left to right, one  *)
(* slot after the other; a slot asks for a node or for a token, of some    *)
(* types or of any, and may be optional.  X_read is what X::read finds for *)
(* every slot, and Unread when a slot that is not optional stays empty.    *)
(* Typed nodes that are plain sequences of nodes or of tokens have items.  *)
(***************************************************************************)
EXTENDS SyntaxTree

\* SyntaxNodeScanner: the children of a node, error nodes left out.
Scan(t, id) == SelectSeq(t[id].kids, LAMBDA kid : kid.node = 0 \/ t[kid.node].type # "Error")

is_node(kid) == kid.node # 0
is_node_type_of(t, kid, types) == is_node(kid) /\ t[kid.node].type \in types
is_token_type_of(kid, types) == ~is_node(kid) /\ kid.tok.type \in types

\* search: the first position behind i that Test accepts, 0 if there is none.
FirstOf(hits) == IF hits = {} THEN 0 ELSE CHOOSE j \in hits : \A k \in hits : j <= k

search(s, i, Test(_)) == FirstOf({j \in (i + 1)..Len(s) : Test(s[j])})

\* The slots; no types: any node, any token.
Node(types) == [node |-> TRUE, types |-> types, optional |-> FALSE]
Token(types) == [node |-> FALSE, types |-> types, optional |-> FALSE]
Optional(slot) == [slot EXCEPT !.optional = TRUE]
AnyNode == Node({})
AnyToken == Token({})

fills(t, kid, slot) ==
    IF slot.types = {} THEN is_node(kid) = slot.node
    ELSE IF slot.node THEN is_node_type_of(t, kid, slot.types)
    ELSE is_token_type_of(kid, slot.types)

NoChild == NodeChild(0)
Unread == <<>>

\* Child j fills the slot, 0 is none; a slot that finds nothing reads all children.
read_slot(s, r, slot, j) ==
    IF ~r.ok THEN r
    ELSE [at |-> IF j = 0 THEN Len(s) ELSE j, ok |-> j # 0 \/ slot.optional,
          found |-> Append(r.found, IF j = 0 THEN NoChild ELSE s[j])]

read_slots(t, s, slots) ==
    FoldLeft(LAMBDA r, slot : read_slot(s, r, slot, search(s, r.at, LAMBDA kid : fills(t, kid, slot))),
             [at |-> 0, ok |-> TRUE, found |-> <<>>], slots)

FoundOf(r) == IF r.ok THEN r.found ELSE Unread

\* The children that fill the slots, from left to right.
read(t, id, slots) == FoundOf(read_slots(t, Scan(t, id), slots))

\* NodeSeq: all nodes of a node.
node_items(t, id) ==
    LET hits == SelectSeq(Scan(t, id), is_node) IN [j \in DOMAIN hits |-> hits[j].node]

\* Seq: the tokens of some types.
tokens(t, id, types) ==
    LET hits == SelectSeq(Scan(t, id), LAMBDA kid : is_token_type_of(kid, types))
    IN  [j \in DOMAIN hits |-> hits[j].tok]

Root_read(t, id) == read(t, id, <<AnyNode>>)
Condition_read(t, id) == read(t, id, <<AnyNode>>)
Name_read(t, id) == read(t, id, <<Token({"Identifier"})>>)
ImportPath_path(t, id) == tokens(t, id, {"Identifier"})
Modifiers_items(t, id) == tokens(t, id, MODIFIERS)
ParamList_names(t, id) == tokens(t, id, {"Identifier"})
BindingTuple_names(t, id) == tokens(t, id, {"Identifier"})
BindingName_read(t, id) == read(t, id, <<Token({"Identifier"})>>)
Binding_read(t, id) == read(t, id, <<Node({"BindingName", "BindingTuple"}), Optional(AnyNode)>>)

\* The modifiers and the keyword.
Var_read(t, id) ==
    LET s == Scan(t, id)
        m == search(s, 0, LAMBDA kid : \/ is_node_type_of(t, kid, {"Modifiers"})
                                       \/ is_token_type_of(kid, VAR_FIRST))
        decl == search(s, m - 1, LAMBDA kid : is_token_type_of(kid, VAR_FIRST))
    IN  IF m = 0 \/ decl = 0 THEN Unread
        ELSE <<IF is_node(s[m]) THEN s[m] ELSE NoChild, s[decl]>>

\* Its bindings: the nodes behind the keyword.
Var_bindings(t, id) ==
    LET s == Scan(t, id)
        decl == search(s, 0, LAMBDA kid : is_token_type_of(kid, VAR_FIRST))
    IN  SelectSeq(SubSeq(s, decl + 1, Len(s)), LAMBDA kid : is_node_type_of(t, kid, {"Binding"}))

\* The modifiers and the name come first or not at all; "=" follows the parameters at once.
Func_read(t, id) ==
    LET s == Scan(t, id)
        m == IF s # <<>> /\ is_node_type_of(t, s[1], {"Modifiers"}) THEN 1 ELSE 0
        n == search(s, m, is_node)
        p == search(s, m, LAMBDA kid : is_node_type_of(t, kid, {"ParamList"}))
        b == IF p = 0 THEN 0 ELSE search(s, p, is_node)
    IN  IF b = 0 THEN Unread
        ELSE <<IF m = 0 THEN NoChild ELSE s[m],
               IF is_node_type_of(t, s[n], {"Name"}) THEN s[n] ELSE NoChild,
               s[p],
               IF is_token_type_of(s[p + 1], {"Equals"}) THEN s[p + 1] ELSE NoChild,
               s[b]>>

\* The arguments themselves are items.
ArgList_read(t, id) == read(t, id, <<Token({"LeftParen", "QuestionLeftParen"})>>)

VarExpr_read(t, id) == read(t, id, <<Token({"Identifier"})>>)
Literal_read(t, id) == read(t, id, <<AnyToken>>)
GroupedExpr_read(t, id) == read(t, id, <<AnyNode>>)
ReturnExpr_read(t, id) == read(t, id, <<Optional(AnyNode)>>)
FieldExpr_read(t, id) ==
    read(t, id, <<AnyNode, Token({"Dot", "QuestionDot"}), Token({"Identifier"})>>)
TupleFieldExpr_read(t, id) ==
    read(t, id, <<AnyNode, Token({"Dot", "QuestionDot"}), Token({"TupleField"})>>)
IndexExpr_read(t, id) ==
    read(t, id, <<AnyNode, Token({"LeftBracket", "QuestionLeftBracket"}), AnyNode>>)
BinaryExpr_read(t, id) == read(t, id, <<AnyNode, AnyToken, AnyNode>>)
UnaryExpr_read(t, id) == read(t, id, <<AnyToken, AnyNode>>)
RecordItem_read(t, id) == read(t, id, <<Node({"Name"}), AnyNode>>)
MapItem_read(t, id) == read(t, id, <<AnyNode, AnyNode>>)

\* Nodes and pieces of text.
StringExpr_items(t, id) ==
    SelectSeq(Scan(t, id), LAMBDA kid : is_node(kid) \/ is_token_type_of(kid, {"StringContent"}))

StringFormatItem_read(t, id) == read(t, id, <<AnyNode>>)
StringFormatBlock_read(t, id) == read(t, id, <<AnyNode>>)

IfExpr_read(t, id) == read(t, id, <<Node({"Condition"}), AnyNode, Optional(AnyNode)>>)
FuncExpr_read(t, id) == read(t, id, <<Node({"Func"})>>)
CallExpr_read(t, id) == read(t, id, <<AnyNode, Node({"ArgList"})>>)

ExprStmt_read(t, id) == read(t, id, <<AnyNode>>)
DeferStmt_read(t, id) == read(t, id, <<AnyNode>>)
AssertStmt_read(t, id) == read(t, id, <<Node({"ArgList"})>>)
VarStmt_read(t, id) == read(t, id, <<Node({"Var"})>>)
WhileStmt_read(t, id) == read(t, id, <<Node({"Condition"}), AnyNode>>)
ForStmt_read(t, id) == read(t, id, <<Node({"ForStmtHeader"}), AnyNode>>)

is_semicolon(kid) == is_token_type_of(kid, {"Semicolon"})

\* Child j is a node, with a semicolon behind it, or a semicolon.
SoughtAt(s, j) ==
    IF j # 0 /\ is_node(s[j]) THEN [kid |-> s[j], at |-> search(s, j, is_semicolon)]
    ELSE [kid |-> NoChild, at |-> j]

seek(t, s, i, type) ==
    SoughtAt(s, search(s, i, LAMBDA kid : is_node_type_of(t, kid, {type}) \/ is_semicolon(kid)))

Behind(s, item) == IF item.at = 0 THEN Len(s) ELSE item.at

header_step(s, decl, cond, j) == <<decl.kid, cond.kid, IF j = 0 THEN NoChild ELSE s[j]>>
header_cond(s, decl, cond) == header_step(s, decl, cond, search(s, Behind(s, cond), is_node))
header_decl(t, s, decl) == header_cond(s, decl, seek(t, s, Behind(s, decl), "Condition"))

\* Up to a semicolon there may be a declaration, up to the next one a condition.
ForStmtHeader_read(t, id) ==
    LET s == Scan(t, id) IN header_decl(t, s, seek(t, s, 0, "Var"))

ForEachStmt_read(t, id) == read(t, id, <<Node({"ForEachStmtHeader"}), AnyNode>>)
ForEachStmtHeader_read(t, id) == read(t, id, <<Node({"BindingName", "BindingTuple"}), AnyNode>>)

FuncItem_read(t, id) == read(t, id, <<AnyNode>>)
VarItem_read(t, id) == read(t, id, <<AnyNode>>)
ImportItem_read(t, id) == read(t, id, <<Node({"ImportPath"}), Optional(Token({"Identifier"}))>>)
=============================================================================
