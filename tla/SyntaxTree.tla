----------------------------- MODULE SyntaxTree -----------------------------
(***************************************************************************)
(* From the events of the parser to the syntax tree                        *)
(* (src/src/compiler/syntax/parser_event.cpp consume_events and            *)
(* build_syntax_tree.cpp).  The tree is the sequence of its nodes, in the  *)
(* order they are finished; a child is a token or the number of a node.    *)
(***************************************************************************)
EXTENDS Parser

NoToken == [type |-> "", text |-> "", first |-> 0, last |-> 0]
TokenChild(tok) == [node |-> 0, tok |-> tok]
NodeChild(id) == [node |-> id, tok |-> NoToken]

\* SyntaxNodeBuilder and SyntaxTreeBuilder; at is the end of the last token, gone the start
\* events that were taken as the forward parent of an earlier one.
NodeBuilder(type, at) == [type |-> type, at |-> at, err |-> type = "Error", kids |-> <<>>]
TreeBuilder == [nodes |-> <<NodeBuilder("Root", 0)>>, tree |-> <<>>, at |-> 0, errors |-> 0, gone |-> {}]

\* Ranges are half open: a token from symbol i to symbol j covers i - 1 .. j.
child_begin(b, kid) == IF kid.node = 0 THEN kid.tok.first - 1 ELSE b.tree[kid.node].begin
child_end(b, kid) == IF kid.node = 0 THEN kid.tok.last ELSE b.tree[kid.node].end

build(b, n) ==
    [type |-> n.type, err |-> n.err, kids |-> n.kids,
     begin |-> IF n.kids = <<>> THEN n.at ELSE child_begin(b, n.kids[1]),
     end |-> IF n.kids = <<>> THEN n.at ELSE child_end(b, Last(n.kids))]

add_child(b, kid) == [b EXCEPT !.nodes[Len(b.nodes)].kids = Append(@, kid)]

start_node(b, type) == [b EXCEPT !.nodes = Append(@, NodeBuilder(type, b.at))]

finish_node(b) ==
    add_child([b EXCEPT !.tree = Append(@, build(b, Last(b.nodes))), !.nodes = Front(@)],
              NodeChild(Len(b.tree) + 1))

token(b, tok) == [add_child(b, TokenChild(tok)) EXCEPT !.at = tok.last]

report(b) == [b EXCEPT !.nodes[Len(b.nodes)].err = TRUE, !.errors = @ + 1]

\* The start event at i and its forward parents, the innermost first.
RECURSIVE Parents(_, _)
Parents(ev, i) ==
    <<i>> \o (IF ev[i].forward_parent = 0 THEN <<>> ELSE Parents(ev, ev[i].forward_parent))

visit_start(b, ev, i) ==
    LET chain == Parents(ev, i)
        opened == FoldRight(LAMBDA j, c : start_node(c, ev[j].type), chain, b)
    IN  [opened EXCEPT !.gone = @ \cup ToSet(Tail(chain))]

visit_event(b, ev, i) ==
    CASE ev[i].e = "start" -> IF i \in b.gone THEN b ELSE visit_start(b, ev, i)
      [] ev[i].e = "token" -> token(b, ev[i].tok)
      [] ev[i].e = "error" -> report(b)
      [] ev[i].e = "finish" -> finish_node(b)
      [] ev[i].e = "tombstone" -> b

\* The events i to j, one after the other.  The first half is done before the second one begins
\* (the test of at makes TLC evaluate it), so that the evaluation does not nest deeply.
RECURSIVE visit_events(_, _, _, _)
visit_events(b, ev, i, j) ==
    LET m == (i + j) \div 2
        half == visit_events(b, ev, i, m)
    IN  IF i = j THEN visit_event(b, ev, i)
        ELSE IF half.at \in Nat THEN visit_events(half, ev, m + 1, j) ELSE half

consume_events(ev) == visit_events(TreeBuilder, ev, 1, Len(ev))

RECURSIVE finish_root(_)
finish_root(b) ==
    IF Len(b.nodes) > 1 THEN finish_root(finish_node(b))
    ELSE [b EXCEPT !.tree = Append(@, build(b, b.nodes[1]))]

\* Every child is told its parent: pairs of child and parent.
link_parents(tree) ==
    UNION {{<<kid.node, j>> : kid \in {k \in ToSet(tree[j].kids) : k.node # 0}} : j \in DOMAIN tree}

\* The root is the last node.
build_syntax_tree(ev) ==
    LET b == finish_root(consume_events(ev))
    IN  [nodes |-> b.tree, parents |-> link_parents(b.tree), errors |-> b.errors]

-----------------------------------------------------------------------------
\* The leaves below a node, from left to right.
RECURSIVE Leaves(_, _)
Leaves(nodes, id) ==
    FlattenSeq([k \in DOMAIN nodes[id].kids |->
        IF nodes[id].kids[k].node = 0 THEN <<nodes[id].kids[k].tok>>
        ELSE Leaves(nodes, nodes[id].kids[k].node)])
=============================================================================
