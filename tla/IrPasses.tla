------------------------------ MODULE IrPasses ------------------------------
(***************************************************************************)
(* The passes over a finished function (compiler/ir_passes): exception     *)
(* handlers are connected to the assignments they may observe, values that *)
(* nothing uses are removed, critical edges are split, and dominators and  *)
(* live ranges are computed for the register allocation.                   *)
(***************************************************************************)
EXTENDS IrFunction, TLC

RECURSIVE Closure(_, _)

\* The smallest set that holds S and with every member what it leads to.
Closure(more(_), S) ==
    LET next == S \union more(S) IN IF next = S THEN S ELSE Closure(more, next)

(***************************************************************************)
(* Assignment observers                                                    *)
(***************************************************************************)

\* The blocks that a handler protects, in the order of the traversal.
reverse_handlers(f, h) == SelectSeq(dfs_preorder(f), LAMBDA b : f.blocks[b].handler = h)

Publishes(f, b, s) ==
    SelectSeq(f.blocks[b].insts, LAMBDA i : f.insts[i].t = "publish" /\ f.insts[i].sym = s)

Memo == [in |-> <<>>, out |-> <<>>]

RECURSIVE in_values(_, _, _, _), out_values(_, _, _, _), UnionOut(_, _, _, _, _),
          UnionRest(_, _, _, _, _), UnionFrom(_, _, _, _)

UnionOut(f, m, bs, s, acc) ==
    IF bs = <<>> THEN [m |-> m, v |-> acc] ELSE UnionRest(f, out_values(f, m, Head(bs), s), Tail(bs), s, acc)

UnionRest(f, r, bs, s, acc) == UnionOut(f, r.m, bs, s, acc \union r.v)

\* The blocks whose values reach the start of a block.
ReachedFrom(f, b) == IF f.blocks[b].is_handler THEN reverse_handlers(f, b) ELSE f.blocks[b].preds

KeepIn(r, key) == [m |-> [r.m EXCEPT !.in = (key :> r.v) @@ @], v |-> r.v]

KeepOut(r, key) == [m |-> [r.m EXCEPT !.out = (key :> r.v) @@ @], v |-> r.v]

\* An empty set is remembered while the predecessors are visited, to stop in
\* loops; what is found meanwhile stays remembered, too.
UnionFrom(f, m, from, key) ==
    UnionOut(f, IF Len(from) > 1 THEN [m EXCEPT !.in = (key :> {}) @@ @] ELSE m, from, key[2], {})

\* The assignments that may be the last ones at the start of the block.
in_values(f, m, b, s) ==
    IF <<b, s>> \in DOMAIN m.in THEN [m |-> m, v |-> m.in[<<b, s>>]]
    ELSE KeepIn(UnionFrom(f, m, ReachedFrom(f, b), <<b, s>>), <<b, s>>)

\* The assignments that may be the last ones at the end of the block.
out_values(f, m, b, s) ==
    CASE <<b, s>> \in DOMAIN m.out -> [m |-> m, v |-> m.out[<<b, s>>]]
      [] <<b, s>> \notin DOMAIN m.out /\ Publishes(f, b, s) /= <<>> ->
            KeepOut([m |-> m, v |-> {Last(Publishes(f, b, s))}], <<b, s>>)
      [] OTHER -> KeepOut(in_values(f, m, b, s), <<b, s>>)

\* Mutant: only the last assignment of a block is observed.
fill_operand_set_last(f, m, b, s) == out_values(f, m, b, s)

\* A handler may see the symbol as it was at the start of a block it
\* protects, or as any assignment in the block left it.
fill_operand_set(f, m, b, s) ==
    [in_values(f, m, b, s) EXCEPT !.v = @ \union ToSet(Publishes(f, b, s))]

\* The operands of one observer: from all blocks the handler protects.
Observed(f, m, h, s) ==
    FoldLeft(LAMBDA p, b : [fill_operand_set(f, p.m, b, s) EXCEPT !.v = @ \union p.v],
             [m |-> m, v |-> {}], reverse_handlers(f, h))

\* The handlers that protect some reachable block.
Handlers(f) == {f.blocks[b].handler : b \in Reachable(f)} \ {0}

\* The observers of some handlers with their handlers.
Observers(f, order) ==
    FlattenSeq([k \in DOMAIN order |->
        LET os == SelectSeq(f.blocks[order[k]].insts, LAMBDA i : f.insts[i].t = "observe")
        IN  [j \in DOMAIN os |-> <<order[k], os[j]>>]])

SetOperands(f, i, r) == [f |-> [f EXCEPT !.insts[i].ops = SetToSeq(r.v)], m |-> r.m]

\* Gives every observer its operands; the handlers come in the order of a
\* hash table, that is, in any order.
connect_assignment_observers(f, order) ==
    FoldLeft(LAMBDA p, o : SetOperands(p.f, o[2], Observed(f, p.m, o[1], f.insts[o[2]].sym)),
             [f |-> f, m |-> Memo], Observers(f, order)).f

(***************************************************************************)
(* Dead code and critical edges                                            *)
(***************************************************************************)

has_side_effects(f, i) ==
    LET v == f.insts[i] IN
    /\ v.t \notin Removable
    /\ v.t \in {"binary", "unary"} => \E k \in DOMAIN v.ops : f.insts[v.ops[k]].t /= "const"

\* Removes every value that no value with a side effect, and no terminator,
\* needs directly or indirectly.
eliminate_dead_code(f) ==
    LET live == Reachable(f)
        roots == {i \in UNION {ToSet(f.blocks[b].insts) : b \in live} : has_side_effects(f, i)}
                   \union UNION {visit_insts(f.blocks[b].term) : b \in live}
        more(S) == UNION {visit_insts(f.insts[i]) : i \in S}
        used == Closure(more, roots)
        clean(g, b) == [g EXCEPT !.blocks[b].insts = SelectSeq(@, LAMBDA i : i \in used)]
    IN  FoldLeft(clean, f, dfs_preorder(f))

\* An edge is split when its target has another predecessor.
maybe_split(f, source, k) ==
    LET target == targets(f, source)[k]
        new == Len(f.blocks) + 1
        split == [Block(0) EXCEPT !.preds = <<source>>,
                                  !.term = Terminator("jump", <<>>, <<target>>, <<>>)]
    IN  IF Len(f.blocks[target].preds) <= 1 THEN f
        ELSE [replace_predecessor([f EXCEPT !.blocks = Append(@, split)], target, source, new)
                EXCEPT !.blocks[source].term.targets[k] = new]

\* Only branches have several targets that values can reach over.
split_block(f, b) ==
    IF f.blocks[b].term.t /= "branch" \/ targets(f, b)[1] = targets(f, b)[2] THEN f
    ELSE maybe_split(maybe_split(f, b, 1), b, 2)

split_critical_edges(f) ==
    FoldLeft(split_block, f, dfs_preorder(f))

(***************************************************************************)
(* Dominators                                                              *)
(***************************************************************************)

RECURSIVE intersect(_, _, _, _), ComputeDoms(_, _, _)

\* The closest block that dominates both, by climbing from the lower rank.
intersect(rank, idom, b1, b2) ==
    IF b1 = b2 THEN b1
    ELSE IF rank[b1] < rank[b2] THEN intersect(rank, idom, idom[b1], b2)
    ELSE intersect(rank, idom, b1, idom[b2])

\* Mutant: predecessors that come later in the order are never looked at again.
ComputeDoms_once(f, rpo, idom) == idom

\* Repeats until no immediate dominator changes; 0 is "not known yet".
ComputeDoms(f, rpo, idom) ==
    LET rank == [b \in ToSet(rpo) |-> CHOOSE k \in DOMAIN rpo : rpo[Len(rpo) + 1 - k] = b]
        join(d, ps) ==
            LET known == SelectSeq(ps, LAMBDA p : p \in DOMAIN d /\ d[p] /= 0)
            IN  IF known = <<>> THEN 0
                ELSE FoldLeft(LAMBDA a, b : intersect(rank, d, b, a), known[1], Tail(known))
        pass(d, b) == [d EXCEPT ![b] = join(d, f.blocks[b].preds)]
        next == FoldLeft(pass, idom, Tail(rpo))
    IN  IF next = idom THEN idom ELSE ComputeDoms(f, rpo, next)

\* The immediate dominators of the reachable blocks.
compute_tree(f) ==
    LET rpo == Reverse(dfs_postorder(f))
    IN  ComputeDoms(f, rpo, [b \in ToSet(rpo) |-> IF b = entry THEN entry ELSE 0])

\* The blocks that have the block as immediate dominator, in reverse postorder.
immediately_dominated(rpo, idom, b) == SelectSeq(rpo, LAMBDA c : c /= entry /\ idom[c] = b)

\* Reference: the pairs <<a, b>> such that no way from the entry to b avoids a.
Dominance(f) ==
    LET all == Reachable(f)
        avoiding(a) == LET more(S) == UNION {ToSet(targets(f, c)) \ {a} : c \in S}
                       IN  Closure(more, {entry} \ {a})
    IN  UNION {{a} \X (all \ avoiding(a)) : a \in all}

(***************************************************************************)
(* Liveness                                                                *)
(***************************************************************************)

\* A member of an aggregate has no storage of its own.
normalize(f, i) == IF f.insts[i].t = "member" THEN f.insts[i].ops[1] ELSE i

\* Where a value is used: the block and the position, the terminator last.
\* A phi uses its operands behind the terminators of the predecessors; what
\* an observer names is not used at all.
Uses(f) ==
    UNION {LET blk == f.blocks[b]
               n == Len(blk.insts)
           IN  UNION {LET v == f.insts[blk.insts[k]] IN
                      CASE v.t = "phi" ->
                             {<<normalize(f, v.ops[p]), blk.preds[p],
                                Len(f.blocks[blk.preds[p]].insts) + 2>> : p \in DOMAIN v.ops}
                        [] v.t = "observe" -> {}
                        [] OTHER -> {<<normalize(f, v.ops[p]), b, k>> : p \in DOMAIN v.ops}
                      : k \in 1..n}
               \union {<<normalize(f, blk.term.ops[p]), b, n + 1>> : p \in DOMAIN blk.term.ops}
           : b \in Reachable(f)}

DefinedIn(f) ==
    [i \in UNION {ToSet(f.blocks[b].insts) : b \in Reachable(f)} |->
        CHOOSE b \in Reachable(f) : i \in ToSet(f.blocks[b].insts)]

\* For one value, the blocks it lives in with the position of its last use:
\* from every block that is not the one it is defined in, it is alive to the
\* end of all predecessors.
live_range(f, uses, i, def) ==
    LET mine == {u \in uses : u[1] = i}
        behind(b) == Len(f.blocks[b].insts) + 2
        back(S) == UNION {ToSet(f.blocks[b].preds) : b \in S \ {def}}
        reach == Closure(back, {u[2] : u \in mine})
        through == back(reach)
        last(b) ==
            LET here == {u[3] : u \in {w \in mine : w[2] = b}}
                             \union (IF b \in through THEN {behind(b)} ELSE {})
            IN  CHOOSE x \in here : \A y \in here : y <= x
    IN  [b \in reach |-> last(b)]

Liveness(f) ==
    LET uses == Uses(f)
        def == DefinedIn(f)
    IN  [i \in {normalize(f, j) : j \in DOMAIN def} |-> live_range(f, uses, i, def[i])]
=============================================================================
