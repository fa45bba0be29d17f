----------------------------- MODULE Registers ------------------------------
(***************************************************************************)
(* The assignment of registers to the values of a function (alloc_registers*)
(* and parallel_copy in compiler/bytecode_gen).  Blocks are colored in the *)
(* order of the dominator tree; a register is free again after the last    *)
(* use of its value.  Symbols that handlers observe have one register each *)
(* for the whole function.  Values move into phi functions by copies at    *)
(* the end of the predecessors, which are to happen at once and are put    *)
(* into an order here.  An aggregate occupies one register in the model.   *)
(***************************************************************************)
EXTENDS IrPasses

(***************************************************************************)
(* Parallel copies                                                         *)
(***************************************************************************)

\* No register.
None == -1

\* Copies are pairs of a source and a destination.  A destination is ready
\* when nothing needs its old value any more; when none is ready, the copies
\* left form cycles, and the value of one destination is saved in the spare
\* register to break the cycle.
sequentialize(copies, spare) ==
    LET cs == SelectSeq(copies, LAMBDA c : c[1] /= c[2])
        regs == UNION {{cs[k][1], cs[k][2]} : k \in DOMAIN cs} \union {spare}
        dests == [k \in DOMAIN cs |-> cs[k][2]]
        sources == {cs[k][1] : k \in DOMAIN cs}
        pred == [r \in regs |-> LET at == {k \in DOMAIN cs : cs[k][2] = r}
                                IN  IF at = {} THEN None
                                    ELSE cs[CHOOSE k \in at : \A j \in at : j <= k][1]]
        loc0 == [r \in regs |-> IF r \in sources THEN r ELSE None]
        ready0 == SelectSeq(dests, LAMBDA b : loc0[b] = None)
        move(st) ==
            LET b == Last(st.ready)
                a == pred[b]
                c == st.loc[a]
            IN  [st EXCEPT !.out = Append(@, <<c, b>>), !.loc[a] = b,
                           !.ready = Front(@) \o (IF a = c /\ pred[a] /= None THEN <<a>> ELSE <<>>)]
        break(st) ==
            LET b == Last(st.todo)
                next == [st EXCEPT !.todo = Front(@)]
            IN  IF b = st.loc[pred[b]] THEN next
                ELSE [next EXCEPT !.out = Append(@, <<b, spare>>), !.loc[b] = spare,
                                  !.ready = <<b>>]
        run[st \in [todo : Seq(Int), ready : Seq(Int), loc : [regs -> Int], out : Seq(Int \X Int)]] ==
            IF st.ready /= <<>> THEN run[move(st)]
            ELSE IF st.todo = <<>> THEN st.out ELSE run[break(st)]
    IN  run[[todo |-> dests, ready |-> ready0, loc |-> loc0, out |-> <<>>]]

\* What a sequence of copies does to the registers.
Copied(regs, copies) ==
    FoldLeft(LAMBDA r, c : [r EXCEPT ![c[2]] = r[c[1]]], regs, copies)

(***************************************************************************)
(* Allocation                                                              *)
(***************************************************************************)

\* The symbols the handlers observe; the register of a symbol is its place.
Preallocated(f) ==
    LET hs == Tail(targets(f, entry))
        seen == FlattenSeq([k \in DOMAIN hs |->
                  SelectSeq(f.blocks[hs[k]].insts, LAMBDA i : f.insts[i].t = "observe")])
        syms == [k \in DOMAIN seen |-> f.insts[seen[k]].sym]
        first(k) == \A j \in 1..(k - 1) : syms[j] /= syms[k]
        at == SetToSortSeq({k \in DOMAIN syms : first(k)}, LAMBDA a, b : a < b)
    IN  [k \in DOMAIN at |-> syms[at[k]]]

PreallocatedReg(pre, s) == CHOOSE k \in 0..Len(pre) : (k < Len(pre) /\ pre[k + 1] = s) \/ k = Len(pre)

\* The lowest register that is neither preallocated nor occupied.
get_fresh(pre, occupied) ==
    CHOOSE r \in Len(pre)..(Len(pre) + Cardinality(occupied)) :
        r \notin occupied /\ \A q \in Len(pre)..(r - 1) : q \in occupied

needs_distinct_register(f, i) == f.insts[i].t \in {"format", "record"}

NoRegister(f, i) == f.insts[i].t \in {"write", "member"}

\* The registers of operands whose last use is here.
Dying(f, live, loc, b, k) ==
    LET v == f.insts[f.blocks[b].insts[k]]
        last(i) == LET n == normalize(f, i) IN
                   n \in DOMAIN live /\ b \in DOMAIN live[n] /\ live[n][b] = k
    IN  IF v.t = "observe" THEN {}
        ELSE {loc[v.ops[p]] : p \in {q \in DOMAIN v.ops : v.ops[q] \in DOMAIN loc /\ last(v.ops[q])}}

\* Gives the value at position k of the block its register.  st holds the
\* registers assigned so far and those that are occupied.
assign_locations(f, pre, live, b, k, st) ==
    LET i == f.blocks[b].insts[k]
        dying == Dying(f, live, st.loc, b, k)
        before == IF needs_distinct_register(f, i) THEN st.occ ELSE st.occ \ dying
        reg == IF f.insts[i].t = "publish" THEN PreallocatedReg(pre, f.insts[i].sym)
               ELSE get_fresh(pre, before)
        dead == normalize(f, i) \notin DOMAIN live \/ live[normalize(f, i)] = <<>>
    IN  IF NoRegister(f, i) THEN [st EXCEPT !.occ = @ \ dying]
        ELSE [st EXCEPT !.loc = (i :> reg) @@ @,
                        !.occ = (before \union (IF dead \/ f.insts[i].t = "publish" THEN {} ELSE {reg}))
                                   \ (IF needs_distinct_register(f, i) THEN dying ELSE {})]

\* Colors a block: what is alive at its start is occupied, the phis come
\* first, then every value in turn.
color_block(f, pre, live, def, b, st) ==
    LET livein == {i \in DOMAIN live : b \in DOMAIN live[i] /\ def[i] /= b}
        start == [loc |-> st.loc,
                  occ |-> {st.loc[i] : i \in livein \intersect DOMAIN st.loc} \ (0..(Len(pre) - 1)),
                  lost |-> st.lost \union (livein \ DOMAIN st.loc), ends |-> st.ends]
        insts == f.blocks[b].insts
        phis == phi_count(f, b)
        color(c, k) ==
            IF k <= phis
            THEN LET r == get_fresh(pre, c.occ)
                 IN  [c EXCEPT !.loc = (insts[k] :> r) @@ @, !.occ = @ \union {r}]
            ELSE assign_locations(f, pre, live, b, k, c)
        colored[k \in 0..Len(insts)] == IF k = 0 THEN start ELSE color(colored[k - 1], k)
        fin == colored[Len(insts)]
    IN  [fin EXCEPT !.ends = (b :> fin.occ) @@ @]

RECURSIVE ColorAll(_, _, _, _, _, _, _)

\* Depth first through the dominator tree.
ColorAll(f, pre, live, def, children, stack, st) ==
    IF stack = <<>> THEN st
    ELSE LET b == Last(stack)
         IN  ColorAll(f, pre, live, def, children, Front(stack) \o Reverse(children[b]),
                      color_block(f, pre, live, def, b, st))

storage_location(f, loc, i) == loc[normalize(f, i)]

\* The copies at the end of a block that jumps to a block with phis.
implement_phi_copies(f, pre, st, p, b) ==
    LET n == phi_count(f, b)
        index == CHOOSE k \in DOMAIN f.blocks[b].preds : f.blocks[b].preds[k] = p
        copy(k) == LET phi == f.blocks[b].insts[k]
                   IN  <<storage_location(f, st.loc, f.insts[phi].ops[index]), st.loc[phi]>>
        copies == [k \in 1..n |-> copy(k)]
        occ == st.ends[p] \union UNION {{copies[k][1], copies[k][2]} : k \in 1..n}
    IN  sequentialize(copies, get_fresh(pre, occ \ (0..(Len(pre) - 1))))

\* What the allocation needs to know of a function.
Analyze(f) == [live |-> Liveness(f), def |-> DefinedIn(f), idom |-> compute_tree(f)]

\* The result of the allocation: registers, phi copies of every block, and
\* the values that were needed before they had a register.
allocate_locations(f, known) ==
    LET pre == Preallocated(f)
        rpo == Reverse(dfs_postorder(f))
        children == [b \in ToSet(rpo) |-> immediately_dominated(rpo, known.idom, b)]
        st == ColorAll(f, pre, known.live, known.def, children, <<entry>>,
                       [loc |-> <<>>, occ |-> {}, lost |-> {}, ends |-> <<>>])
        into(b) == {c \in ToSet(targets(f, b)) : phi_count(f, c) > 0}
    IN  [pre |-> pre, loc |-> st.loc, lost |-> st.lost,
         copies |-> [b \in ToSet(rpo) |->
            IF into(b) = {} THEN <<>>
            ELSE implement_phi_copies(f, pre, st, b, CHOOSE c \in into(b) : TRUE)]]
=============================================================================
