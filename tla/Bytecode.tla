------------------------------ MODULE Bytecode ------------------------------
(***************************************************************************)
(* From the intermediate representation of a module to running bytecode:   *)
(* the function compiler lays out the blocks of a function and writes      *)
(* instructions (compiler/bytecode_gen, bytecode/writer), the linker       *)
(* orders the module's members and patches references, the verifier        *)
(* decodes and checks the result (vm/modules/verify), the loader creates   *)
(* the members and the interpreter runs the code. One function of the      *)
(* module is compiled in detail; others are stubs.                         *)
(*                                                                         *)
(* Registers are numbered operands: which values they hold is not          *)
(* modelled here. A fault may overwrite one operand between linking and    *)
(* verification: that is the kind of mistake the verifier exists for.      *)
(***************************************************************************)
EXTENDS Instructions, FiniteSets

CONSTANTS
    Functions,      \* the functions to compile, see Block below
    IrModules,      \* sequences of module members, see IrMember below
    Params,         \* number of parameters of the compiled function
    MaxDepth,       \* bound on the temporaries while running
    MaxFaults       \* bound on the operands overwritten

VARIABLES
    func, irModule, \* the input
    phase,
    member,         \* the next member to compile
    w,              \* the writer
    block_stack, seen,  \* blocks to be written, blocks that were reached
    items, exports, \* the LinkObject
    mod,            \* the linked module
    loaded,         \* kinds of the loaded members
    run,            \* pc and number of temporaries of the running function
    faults,
    wanted,         \* history: position -> the member an operand stands for
    ends            \* history: block -> position after its last instruction

bvars == <<func, irModule, phase, member, w, block_stack, seen, items, exports, mod, loaded, run,
          faults, wanted, ends>>

None == -1
Locals == 4
A == 0      \* the registers of operands and results
B == 1
T == 2
T2 == 3

Block(values, term, handler) == [values |-> values, term |-> term, handler |-> handler]
IrMember(k, name, exported) == [kind |-> k, name |-> name, exported |-> exported]
Jump(t) == [k |-> "Jump", t |-> t, f |-> 0, hs |-> <<>>]
Branch(t, f) == [k |-> "Branch", t |-> t, f |-> f, hs |-> <<>>]
Halt(k) == [k |-> k, t |-> 0, f |-> 0, hs |-> <<>>]
Entry(body, hs) == [k |-> "Entry", t |-> body, f |-> 0, hs |-> hs]

---------------------------------------------------------------------------
\* The object: items used or defined while compiling.

Item(ir, kind, val, refs) == [use |-> FALSE, ir |-> ir, kind |-> kind, val |-> val, refs |-> refs]
LinkUse(ir) == [use |-> TRUE, ir |-> ir, kind |-> "Use", val |-> 0, refs |-> <<>>]
IdOf(its, it) == CHOOSE i \in DOMAIN its : its[i] = it
Add(its, it) == IF it \in Range(its) THEN its ELSE Append(its, it)
String(s) == Item(0, "String", s, <<>>)
Symbol(its, s) == Item(0, "Symbol", 0, <<IdOf(its, String(s))>>)
\* Mutant: two schemas with a common key are taken for the same.
SameKeys_overlap(ids, refs) == Range(ids) \cap Range(refs) # {}
SameKeys(ids, refs) == Len(ids) = Len(refs) /\ Range(ids) \subseteq Range(refs)

use_string(its, s) == Add(its, String(s))
use_symbol(its, s) == LET i1 == use_string(its, s) IN Add(i1, Symbol(i1, s))
use_import(its, s) == LET i1 == use_string(its, s) IN Add(i1, Item(0, "Import", 0, <<IdOf(i1, String(s))>>))
KeyIds(its, keys) == [k \in DOMAIN keys |-> IdOf(its, Symbol(its, keys[k]))]
use_record(its, keys) ==
    LET i1 == FoldLeft(LAMBDA acc, s : use_symbol(acc, s), its, keys)
        ids == KeyIds(i1, keys)
    IN IF \E i \in DOMAIN i1 : i1[i].kind = "RecordSchema" /\ SameKeys(ids, i1[i].refs)
       THEN i1 ELSE Append(i1, Item(0, "RecordSchema", 0, ids))

\* What an instruction asks of the object, and the id it receives.
Use(its, req) ==
    CASE req.k = "string" -> use_string(its, req.s)
      [] req.k = "symbol" -> use_symbol(its, req.s)
      [] req.k = "import" -> use_import(its, req.s)
      [] req.k = "record" -> use_record(its, req.keys)
      [] req.k = "definition" -> Add(its, LinkUse(req.s))
Found(its, req) ==
    CASE req.k = "string" -> IdOf(its, String(req.s))
      [] req.k = "symbol" -> IdOf(its, Symbol(its, req.s))
      [] req.k = "import" -> IdOf(its, Item(0, "Import", 0, <<IdOf(its, String(req.s))>>))
      [] req.k = "record" -> CHOOSE i \in DOMAIN its :
            its[i].kind = "RecordSchema" /\ SameKeys(KeyIds(its, req.keys), its[i].refs)
      [] req.k = "definition" -> IdOf(its, LinkUse(req.s))
Req(k, s) == [k |-> k, s |-> s, keys |-> <<>>]
RecordOf(keys) == [k |-> "record", s |-> 0, keys |-> keys]

---------------------------------------------------------------------------
\* The writer: cells of operands by byte position, opcodes apart.

Writer == [ops |-> << >>, tape |-> << >>, size |-> 0, labels |-> << >>, refs |-> {}, mrefs |-> {},
           handlers |-> <<>>, handler |-> None, start |-> 0]
At(p, v) == [x \in {p} |-> v]

\* The operands in args; a member is a request, a label a block.
Write(s, op, args) ==
    LET shape == Written[op]
        pos(i) == s.w.size + FieldOffset(shape, i)
        mems == {i \in DOMAIN shape : shape[i] = M}
        its == IF mems = {} THEN s.items ELSE Use(s.items, args[CHOOSE i \in mems : TRUE])
        cell(i) == IF i \in mems THEN Found(its, args[i]) ELSE IF shape[i] = G THEN None ELSE args[i]
        labels == {i \in DOMAIN shape : shape[i] = G}
        w1 == [s.w EXCEPT
                 !.ops = @ @@ At(s.w.size, op),
                 !.tape = @ @@ [p \in {pos(i) : i \in DOMAIN shape} |->
                                  cell(CHOOSE i \in DOMAIN shape : pos(i) = p)],
                 !.size = @ + Size(shape),
                 !.refs = @ \cup {<<pos(i), args[i]>> : i \in labels},
                 !.mrefs = @ \cup {<<pos(i), cell(i)>> : i \in mems}]
    IN [w |-> w1, items |-> its,
        wanted |-> s.wanted @@ [p \in {pos(i) : i \in mems} |-> args[CHOOSE i \in mems : TRUE]]]

I(op, args) == [op |-> op, args |-> args]
WriteAll(s, ins) == FoldLeft(LAMBDA acc, x : Write(acc, x.op, x.args), s, ins)

define_label(x, b) == [x EXCEPT !.labels = @ @@ At(b, x.size)]
finish_handler(x) ==
    [x EXCEPT
       !.handlers = IF x.handler # None /\ x.start # x.size
                    THEN Append(@, [from |-> x.start, to |-> x.size, target |-> x.handler])
                    ELSE @,
       !.handler = None, !.start = 0]
start_handler(x, h) ==
    IF h = x.handler THEN x ELSE [finish_handler(x) EXCEPT !.handler = h, !.start = x.size]

\* Mutant: sections are merged although there is a gap between them.
Adjacent_gap(a, b) == a.target = b.target
Adjacent(a, b) == a.to = b.from /\ a.target = b.target
simplify_handlers(hs) ==
    FoldLeft(LAMBDA out, h : IF out # <<>> /\ Adjacent(out[Len(out)], h)
                             THEN [out EXCEPT ![Len(out)].to = h.to] ELSE Append(out, h), <<>>, hs)
finish(x) ==
    LET y == finish_handler(x) IN
    [y EXCEPT
       !.tape = [p \in DOMAIN @ |->
                   IF \E r \in y.refs : r[1] = p
                   THEN y.labels[(CHOOSE r \in y.refs : r[1] = p)[2]] ELSE @[p]],
       !.handlers = simplify_handlers([i \in DOMAIN @ |-> [@[i] EXCEPT !.target = y.labels[@]]])]

---------------------------------------------------------------------------
\* The function compiler: instructions for values and terminators.

BinaryOps == [Plus |-> "Add", Minus |-> "Sub", Multiply |-> "Mul", Divide |-> "Div", Modulus |-> "Mod",
    Power |-> "Pow", LeftShift |-> "LSh", RightShift |-> "RSh", BitwiseAnd |-> "BAnd", BitwiseOr |-> "BOr",
    BitwiseXor |-> "BXor", Less |-> "Lt", LessEquals |-> "Lte", Greater |-> "Gt", GreaterEquals |-> "Gte",
    Equals |-> "Eq", NotEquals |-> "NEq"]
UnaryOps == [Plus |-> "UAdd", Minus |-> "UNeg", BitwiseNot |-> "BNot", LogicalNot |-> "LNot"]

\* An import is used by name, everything else by its definition.
use_module_member(ir) ==
    IF irModule[ir].kind = "Import" THEN Req("import", irModule[ir].name) ELSE Req("definition", ir)

\* x is a name, an ir member or the number of arguments, as the value needs; a
\* record has the keys x and x + 1.
compile_lvalue_read(lv, x) ==
    CASE lv = "Param" -> <<I("LoadParam", <<0, T>>)>>
      [] lv = "Closure" -> <<I("LoadEnv", <<A, 0, 0, T>>)>>
      [] lv = "Module" -> <<I("LoadModule", <<use_module_member(x), T>>)>>
      [] lv = "Field" -> <<I("LoadMember", <<A, Req("symbol", x), T>>)>>
      [] lv = "TupleField" -> <<I("LoadTupleMember", <<A, 0, T>>)>>
      [] lv = "Index" -> <<I("LoadIndex", <<A, B, T>>)>>
compile_lvalue_write(lv, x) ==
    CASE lv = "Param" -> <<I("StoreParam", <<A, 0>>)>>
      [] lv = "Closure" -> <<I("StoreEnv", <<A, B, 0, 0>>)>>
      [] lv = "Module" -> <<I("StoreModule", <<A, use_module_member(x)>>)>>
      [] lv = "Field" -> <<I("StoreMember", <<A, B, Req("symbol", x)>>)>>
      [] lv = "TupleField" -> <<I("StoreTupleMember", <<A, B, 0>>)>>
      [] lv = "Index" -> <<I("StoreIndex", <<A, B, T>>)>>
compile_constant(c, x) ==
    CASE c = "Integer" -> <<I("LoadInt", <<0, T>>)>>
      [] c = "Float" -> <<I("LoadFloat", <<0, T>>)>>
      [] c = "String" -> <<I("LoadModule", <<Req("string", x), T>>)>>
      [] c = "Symbol" -> <<I("LoadModule", <<Req("symbol", x), T>>)>>
      [] c = "Null" -> <<I("LoadNull", <<T>>)>>
      [] c = "True" -> <<I("LoadTrue", <<T>>)>>
      [] c = "False" -> <<I("LoadFalse", <<T>>)>>
push_args(n) == [i \in 1..n |-> I("Push", <<A>>)]
\* Mutant: the instance is pushed after the arguments are counted.
compile_method_call_short(n) ==
    push_args(n) \o <<I("CallMethod", <<A, n>>), I("PopTo", <<T>>)>>
compile_method_call(n) ==
    <<I("Push", <<A>>)>> \o push_args(n) \o <<I("CallMethod", <<B, n>>), I("PopTo", <<T>>)>>
compile_record(keys) ==
    <<I("Record", <<RecordOf(keys), T>>)>>
    \o [i \in DOMAIN keys |-> I("StoreMember", <<A, T, Req("symbol", keys[i])>>)]
compile_format(n) ==
    <<I("Formatter", <<T>>)>> \o [i \in 1..n |-> I("AppendFormat", <<A, T>>)]
    \o <<I("FormatResult", <<T, T>>)>>
compile_value(v) ==
    LET k == v.k  o == v.o  x == v.x IN
    CASE k = "Read" -> compile_lvalue_read(o, x)
      [] k = "Write" -> compile_lvalue_write(o, x)
      [] k = "Constant" -> compile_constant(o, x)
      [] k \in {"Alias", "ObserveAssign", "PublishAssign"} -> <<I("Copy", <<A, T>>)>>
      [] k \in {"Phi", "GetAggregateMember", "Nop"} -> <<>>
      [] k = "OuterEnvironment" -> <<I("LoadClosure", <<T>>)>>
      [] k = "BinaryOp" -> <<I(BinaryOps[o], <<A, B, T>>)>>
      [] k = "UnaryOp" -> <<I(UnaryOps[o], <<A, T>>)>>
      [] k = "Call" -> push_args(x) \o <<I("Call", <<A, x>>), I("PopTo", <<T>>)>>
      [] k = "Method" -> <<I("LoadMethod", <<A, Req("symbol", x), T, T2>>)>>
      [] k = "IteratorNext" -> <<I("IteratorNext", <<A, T, T2>>)>>
      [] k = "MethodCall" -> compile_method_call(x)
      [] k = "MakeEnvironment" -> <<I("Env", <<A, 1, T>>)>>
      [] k = "MakeClosure" -> <<I("Closure", <<use_module_member(x), A, T>>)>>
      [] k = "MakeIterator" -> <<I("Iterator", <<A, T>>)>>
      [] k = "Record" -> compile_record(<<x, x + 1>>)
      [] k = "Container" -> push_args(x) \o <<I(o, <<x, T>>)>>
      [] k = "Format" -> compile_format(x)

visit(v, b) ==
    IF b \in v.seen THEN v ELSE [stack |-> Append(v.stack, b), seen |-> v.seen \cup {b}]
\* A jump is written unless its target was just reached: it is written next.
Goto(v, b) == IF b \in v.seen THEN <<I("Jmp", <<b>>)>> ELSE <<>>
compile_terminator(v, t) ==
    CASE t.k = "Jump" -> [v |-> visit(v, t.t), ins |-> Goto(v, t.t)]
      [] t.k = "Branch" ->
            LET v1 == visit(v, t.t)
            IN [v |-> visit(v1, t.f), ins |-> <<I("JmpTrue", <<A, t.t>>)>> \o Goto(v1, t.f)]
      [] t.k = "Return" -> [v |-> v, ins |-> <<I("Return", <<A>>)>>]
      [] t.k = "Rethrow" -> [v |-> v, ins |-> <<I("Rethrow", <<>>)>>]
      [] t.k = "AssertFail" -> [v |-> v, ins |-> <<I("AssertFail", <<A, B>>)>>]
      [] t.k = "Entry" ->
            LET v1 == FoldLeft(LAMBDA acc, h : visit(acc, h), v, Reverse(t.hs))
            IN [v |-> visit(v1, t.t), ins |-> <<>>]

---------------------------------------------------------------------------
\* Compiling a module.

BInit ==
    /\ func \in Functions /\ irModule \in IrModules
    /\ phase = "members" /\ member = 1
    /\ w = Writer /\ block_stack = <<>> /\ seen = {}
    /\ items = <<>> /\ exports = <<>> /\ mod = << >> /\ loaded = <<>>
    /\ run = [pc |-> 0, depth |-> 0, closed |-> TRUE] /\ faults = 0
    /\ wanted = << >> /\ ends = << >>

IsMain(m) == m.kind \in {"Main", "MainClosure"}
MainType == IF \E i \in DOMAIN irModule : irModule[i].kind = "MainClosure" THEN "Closure" ELSE "Normal"

\* An exported member is entered with its name as a symbol.
Define(its, def, m) ==
    LET i1 == Add(its, def)
        i2 == IF m.exported THEN use_symbol(i1, m.name) ELSE i1
    IN /\ items' = i2
       /\ exports' = IF m.exported
                     THEN Append(exports, <<IdOf(i2, Symbol(i2, m.name)), IdOf(i2, def)>>) ELSE exports

FunctionItem(its, ir, m) == Item(ir, "Function", ir, <<IdOf(its, String(m.name))>>)

compile_member ==
    /\ phase = "members" /\ member <= Len(irModule)
    /\ LET m == irModule[member]
           i1 == IF m.kind = "Import" THEN use_import(items, m.name) ELSE use_string(items, m.name)
       IN IF IsMain(m)
          THEN /\ phase' = "blocks"
               /\ block_stack' = <<1>> /\ seen' = {1}
               /\ UNCHANGED <<items, exports, member>>
          ELSE /\ member' = member + 1
               /\ Define(i1,
                     CASE m.kind = "Import" -> Item(0, "Import", 0, <<IdOf(i1, String(m.name))>>)
                       [] m.kind = "Variable" -> Item(member, "Variable", 0, <<IdOf(i1, String(m.name))>>)
                       [] OTHER -> FunctionItem(i1, member, m), m)
               /\ UNCHANGED <<phase, block_stack, seen>>
    /\ UNCHANGED <<func, irModule, w, mod, loaded, run, faults, wanted, ends>>

\* One block: label, handler, values, terminator.
compile_block ==
    /\ phase = "blocks" /\ block_stack # <<>>
    /\ LET b == block_stack[Len(block_stack)]
           blk == func[b]
           w1 == start_handler(define_label(w, b), blk.handler)
           s1 == FoldLeft(LAMBDA acc, v : WriteAll(acc, compile_value(v)),
                          [w |-> w1, items |-> items, wanted |-> wanted], blk.values)
           c == compile_terminator([stack |-> SubSeq(block_stack, 1, Len(block_stack) - 1), seen |-> seen], blk.term)
           s2 == WriteAll(s1, c.ins)
       IN /\ w' = s2.w /\ items' = s2.items /\ wanted' = s2.wanted
          /\ block_stack' = c.v.stack /\ seen' = c.v.seen
          /\ ends' = ends @@ At(b, s2.w.size)
    /\ UNCHANGED <<func, irModule, phase, member, exports, mod, loaded, run, faults>>

\* The function is complete: labels are resolved and it becomes a member.
finish_function ==
    /\ phase = "blocks" /\ block_stack = <<>>
    /\ w' = finish(w)
    /\ LET m == irModule[member]
           i1 == use_string(items, m.name)
       IN Define(i1, FunctionItem(i1, member, m), m)
    /\ member' = member + 1 /\ phase' = "members"
    /\ UNCHANGED <<func, irModule, block_stack, seen, mod, loaded, run, faults, wanted, ends>>

---------------------------------------------------------------------------
\* The linker.

TypeOrder == [Integer |-> 0, Float |-> 1, String |-> 2, Symbol |-> 3, Import |-> 4, Variable |-> 5,
              RecordSchema |-> 6, Function |-> 7]
FuncOrder(ir) == IF irModule[ir].kind \in {"Closure", "MainClosure"} THEN 1 ELSE 0
\* module_order_less as a key: the type, then what the comparator looks at.
SortKey(i) ==
    LET it == items[i]
        name(j) == items[items[j].refs[1]].val
    IN CASE it.kind = "String" -> <<2, it.val>>
         [] it.kind = "Function" -> <<7, FuncOrder(it.ir), name(i)>>
         [] it.kind = "RecordSchema" -> <<6>> \o [k \in DOMAIN it.refs |-> name(it.refs[k])]
         [] OTHER -> <<TypeOrder[it.kind], name(i)>>
Before(a, b) ==     \* lexicographic
    \/ \E n \in 0..Len(a) - 1 :
          /\ n < Len(b) /\ SubSeq(a, 1, n) = SubSeq(b, 1, n) /\ a[n + 1] < b[n + 1]
    \/ Len(a) < Len(b) /\ SubSeq(b, 1, Len(a)) = a
\* The definitions in an order that std::sort may leave them in.
reorder_members ==
    LET defs == SelectSeq([i \in DOMAIN items |-> i], LAMBDA i : ~items[i].use)
    IN SortSeq(defs, LAMBDA i, j : Before(SortKey(i), SortKey(j)))

\* The new position of an item: a use is replaced by the definition.
Resolve(order, i) ==
    IF items[i].use
    THEN CHOOSE n \in DOMAIN order : items[order[n]].ir = items[i].ir
    ELSE CHOOSE n \in DOMAIN order : order[n] = i

link_members ==
    /\ phase = "members" /\ member > Len(irModule)
    /\ LET order == reorder_members
           renamed(i) == Resolve(order, i)
           init == {i \in DOMAIN irModule : irModule[i].kind = "Main"}
       IN /\ mod' = [members |-> [n \in DOMAIN order |->
                         [items[order[n]] EXCEPT !.refs = [k \in DOMAIN @ |-> renamed(@[k])]]],
                     exports |-> SortSeq([k \in DOMAIN exports |->
                                    <<renamed(exports[k][1]), renamed(exports[k][2])>>],
                                    LAMBDA x, y : x[1] < y[1]),
                     init |-> IF init = {} THEN None
                              ELSE CHOOSE n \in DOMAIN order : items[order[n]].ir \in init]
          /\ w' = [w EXCEPT !.tape = [p \in DOMAIN @ |->
                         IF \E r \in w.mrefs : r[1] = p
                         THEN renamed((CHOOSE r \in w.mrefs : r[1] = p)[2]) ELSE @[p]]]
    /\ phase' = "linked"
    /\ UNCHANGED <<func, irModule, member, block_stack, seen, items, exports, loaded, run, faults, wanted, ends>>

\* An operand of the linked code is wrong.
Corrupt(p, v) ==
    /\ phase = "linked" /\ faults < MaxFaults
    /\ w' = [w EXCEPT !.tape[p] = v]
    /\ faults' = faults + 1
    /\ UNCHANGED <<func, irModule, phase, member, block_stack, seen, items, exports, mod, loaded, run, wanted, ends>>

---------------------------------------------------------------------------
\* The verifier.

Bad == [offset |-> None, op |-> "Pop", args |-> <<>>]
\* Decodes instruction after instruction; Bad where that fails.
read_instructions ==
    LET at[p \in 0..w.size] ==
          IF p = w.size THEN <<>>
          ELSE IF p \notin DOMAIN w.ops \/ w.ops[p] \notin Ops THEN <<Bad>>
          ELSE LET shape == ReadTable[w.ops[p]]
                   pos(i) == p + FieldOffset(shape, i)
               IN IF p + Size(shape) > w.size \/ \E i \in DOMAIN shape : pos(i) \notin DOMAIN w.tape
                  THEN <<Bad>>
                  ELSE <<[offset |-> p, op |-> w.ops[p], args |-> [i \in DOMAIN shape |-> w.tape[pos(i)]]]>>
                       \o at[p + Size(shape)]
    IN at[0]

InBounds(id) == id \in DOMAIN mod.members
IsKind(id, k) == InBounds(id) /\ mod.members[id].kind = k
FuncType(id) == IF FuncOrder(mod.members[id].ir) = 1 THEN "Closure" ELSE "Normal"
check_local(v) == v \in 0..Locals - 1
check_offset(starts, v) == v \in starts
check(starts, kind, v) ==
    CASE kind = L -> check_local(v)
      [] kind = P -> v \in 0..Params - 1
      [] kind = O -> check_offset(starts, v)
      [] kind = M -> InBounds(v)
      [] kind = "symbol" -> IsKind(v, "Symbol")
      [] kind = "schema" -> IsKind(v, "RecordSchema")
      [] kind = "template" -> IsKind(v, "Function") /\ FuncType(v) = "Closure"
      [] kind = "pairs" -> v % 2 = 0
      [] OTHER -> TRUE
verify_function ==
    LET ins == read_instructions
        starts == {ins[i].offset : i \in DOMAIN ins}
        hs == w.handlers
    IN /\ \A i \in DOMAIN ins :
             /\ ins[i] # Bad
             /\ \A f \in CheckTable[ins[i].op] : check(starts, f[1], ins[i].args[f[2]])
             /\ ins[i].op = "LoadClosure" => MainType = "Closure"
       /\ ins # <<>>
       /\ ins[Len(ins)].op \in {"Return", "Rethrow", "Jmp", "AssertFail"}
       /\ \A i \in DOMAIN hs :
             /\ hs[i].from \in starts /\ hs[i].target \in starts
             /\ hs[i].to \in starts \cup {w.size} /\ hs[i].to > hs[i].from
             /\ i > 1 => hs[i].from >= hs[i - 1].to
\* Members may only refer to members before them, of the right type.
RefKind == [Symbol |-> "String", Import |-> "String", Function |-> "String", RecordSchema |-> "Symbol"]
verify_members ==
    \A n \in DOMAIN mod.members : mod.members[n].kind \in DOMAIN RefKind =>
        \A k \in DOMAIN mod.members[n].refs :
            mod.members[n].refs[k] < n /\ IsKind(mod.members[n].refs[k], RefKind[mod.members[n].kind])
verify_exports ==
    /\ mod.init # None => IsKind(mod.init, "Function") /\ FuncType(mod.init) = "Normal"
    /\ \A k \in DOMAIN mod.exports : LET e == mod.exports[k] IN
          /\ IsKind(e[1], "Symbol") /\ InBounds(e[2])
          /\ mod.members[e[2]].kind \notin {"Import", "RecordSchema"}
          /\ IsKind(e[2], "Function") => FuncType(e[2]) = "Normal"

verify_module ==
    /\ phase = "linked"
    /\ phase' = IF verify_members /\ verify_function /\ verify_exports THEN "verified" ELSE "rejected"
    /\ UNCHANGED <<func, irModule, member, w, block_stack, seen, items, exports, mod, loaded, run, faults, wanted, ends>>

\* Creates the values of the members.
load_module ==
    /\ phase = "verified" /\ phase' = "running"
    /\ loaded' = [n \in DOMAIN mod.members |->
          CASE mod.members[n].kind = "Variable" -> "Undefined"
            [] mod.members[n].kind = "Function" ->
                  IF FuncType(n) = "Closure" THEN "CodeFunctionTemplate" ELSE "CodeFunction"
            [] OTHER -> mod.members[n].kind]
    /\ UNCHANGED <<func, irModule, member, w, block_stack, seen, items, exports, mod, run, faults, wanted, ends>>

---------------------------------------------------------------------------
\* The interpreter.

Throwing == {"LoadMember", "StoreMember", "LoadTupleMember", "StoreTupleMember", "LoadIndex", "StoreIndex",
    "LoadEnv", "StoreEnv", "UAdd", "UNeg", "BNot", "Set", "Map", "Env", "Closure", "Iterator", "IteratorNext",
    "AppendFormat", "FormatResult", "Call", "LoadMethod", "CallMethod", "Rethrow", "AssertFail"}
    \cup (Arithmetic \ {"Eq", "NEq"})
Op == w.ops[run.pc]
Shape == RunTable[Op]
Arg(i) == w.tape[run.pc + FieldOffset(Shape, i)]
\* The first entry that ends after pc, if it has begun.
find_entry(pc) ==
    LET later == {i \in DOMAIN w.handlers : w.handlers[i].to > pc}
        first == CHOOSE i \in later : \A j \in later : i <= j
    IN IF later = {} \/ w.handlers[first].from > pc THEN None ELSE w.handlers[first].target

\* Values taken from the stack and left on it.
Popped == CASE Op \in {"Pop", "PopTo"} -> 1 [] Op \in Containers -> Arg(1)
            [] Op = "Call" -> Arg(2) [] Op = "CallMethod" -> Arg(2) + 1 [] OTHER -> 0
Pushed == IF Op \in {"Push", "Call", "CallMethod"} THEN 1 ELSE 0

Decodable ==
    run.pc \in DOMAIN w.ops /\ \A i \in DOMAIN Shape : run.pc + FieldOffset(Shape, i) \in DOMAIN w.tape
Continue ==
    /\ run' \in {[run EXCEPT !.pc = p, !.depth = @ - Popped + Pushed] :
          p \in CASE Op = "Jmp" -> {Arg(1)}
                  [] Op \in Branches -> {Arg(2), run.pc + Size(Shape)}
                  [] OTHER -> {run.pc + Size(Shape)}}
    /\ loaded' = IF Op = "StoreModule" THEN [loaded EXCEPT ![Arg(2)] = "Value"] ELSE loaded
    /\ UNCHANGED phase
Unwind ==
    /\ LET h == find_entry(run.pc + Size(Shape) - 1) IN
       IF h = None THEN phase' = "left" /\ UNCHANGED run
       ELSE run' = [run EXCEPT !.pc = h, !.closed = FALSE] /\ UNCHANGED phase
    /\ UNCHANGED loaded
Leave == phase' = "left" /\ UNCHANGED <<run, loaded>>

Step ==
    /\ phase = "running" /\ Decodable
    /\ \/ /\ Op \notin {"Return", "Rethrow", "AssertFail"} \cup Unimplemented
          /\ ~(Op = "LoadModule" /\ loaded[Arg(1)] = "Undefined")
          /\ run.depth - Popped + Pushed \in 0..MaxDepth
          /\ Continue
       \/ Op \in Throwing /\ Unwind
       \/ /\ \/ Op = "Return"
             \/ Op \in Unimplemented   \* TIRO_ERROR
             \/ Op = "LoadModule" /\ loaded[Arg(1)] = "Undefined"
          /\ Leave
    /\ UNCHANGED <<func, irModule, member, w, block_stack, seen, items, exports, mod, faults, wanted, ends>>

\* A wrong operand: the next register, parameter or offset out of range, a
\* position inside an instruction, another member.
Wrong == {Locals, 1, w.size, Len(mod.members)}
BNext ==
    \/ compile_member \/ compile_block \/ finish_function \/ link_members
    \/ (phase = "linked" /\ \E p \in DOMAIN w.tape : \E v \in Wrong : Corrupt(p, v))
    \/ verify_module \/ load_module \/ Step
BSpec == BInit /\ [][BNext]_bvars

---------------------------------------------------------------------------
\* Properties.

Compiled == phase \in {"linked", "verified", "running", "left", "rejected"}

\* The writer has its fields, the code a size, and the handlers are a list.
WriterOK == DOMAIN w = DOMAIN Writer /\ w.size \in Nat /\ DOMAIN w.handlers = 1..Len(w.handlers)

\* The writer's cells, labels and sections lie inside the code, blocks are
\* written once and the running function has as many temporaries as allowed.
BytecodeTyped ==
    /\ WriterOK
    /\ DOMAIN w.tape \subseteq 0..w.size - 1 /\ DOMAIN w.ops \subseteq 0..w.size - 1
    /\ DOMAIN w.tape \cap DOMAIN w.ops = {}
    /\ \A b \in DOMAIN w.labels : w.labels[b] \in 0..w.size
    /\ \A i \in DOMAIN w.handlers : w.handlers[i].from < w.handlers[i].to
    /\ Range(block_stack) \subseteq seen \ DOMAIN w.labels
    /\ run.depth \in 0..MaxDepth /\ faults \in 0..MaxFaults

\* Blocks fall through or jump to the successors they have in the graph,
\* whatever order the compiler writes them in.
LayoutFollowsGraph ==
    Compiled /\ faults = 0 => \A b \in DOMAIN ends :
        LET t == func[b].term
            falls(s) == ends[b] = w.labels[s]
            jumps(s) == \E p \in DOMAIN w.ops :
                           w.ops[p] = "Jmp" /\ p + 5 = ends[b] /\ w.tape[p + 1] = w.labels[s]
        IN CASE t.k \in {"Jump", "Entry"} -> falls(t.t) \/ jumps(t.t)
             [] t.k = "Branch" ->
                   /\ falls(t.f) \/ jumps(t.f)
                   /\ \E p \in DOMAIN w.ops : /\ w.ops[p] \in Branches /\ p + 9 \in {ends[b], ends[b] - 5}
                                              /\ w.tape[p + 5] = w.labels[t.t]
             [] OTHER -> TRUE

\* The handler found for any byte of an instruction, in the merged table, is
\* that of the instruction's block.
HandlersFollowBlocks ==
    Compiled => \A b \in DOMAIN ends : \A p \in w.labels[b]..ends[b] - 1 :
        find_entry(p) = IF func[b].handler = None THEN None ELSE w.labels[func[b].handler]

\* Linking reorders the members and patches the code: every operand still
\* refers to what the instruction was compiled to use.
ReferencesKept ==
    Compiled /\ faults = 0 => \A p \in DOMAIN wanted :
        LET req == wanted[p]
            it == mod.members[w.tape[p]]
            name(n) == mod.members[n].val
        IN CASE req.k = "string" -> it.kind = "String" /\ it.val = req.s
             [] req.k = "symbol" -> it.kind = "Symbol" /\ name(it.refs[1]) = req.s
             [] req.k = "import" -> it.kind = "Import" /\ name(it.refs[1]) = req.s
             [] req.k = "definition" -> it.ir = req.s
             [] req.k = "record" -> /\ it.kind = "RecordSchema"
                                    /\ {name(mod.members[it.refs[k]].refs[1]) : k \in DOMAIN it.refs}
                                       = Range(req.keys)

\* What the compiler produces passes verification.
CompiledCodeVerifies == phase = "rejected" => faults > 0

\* What the interpreter takes for granted about the instruction at pc: it can
\* be decoded and its registers, parameters and members exist and have the
\* types it casts them to.
Safe(exempt) ==
    /\ Decodable
    /\ \A i \in DOMAIN Shape : <<Op, i>> \in exempt \/
          CASE Shape[i] = L -> Arg(i) \in 0..Locals - 1
            [] Shape[i] = P -> Arg(i) \in 0..Params - 1
            [] Shape[i] = M -> Arg(i) \in DOMAIN loaded
            [] Shape[i] = "symbol" -> Arg(i) \in DOMAIN loaded /\ loaded[Arg(i)] \in {"Symbol", "Value"}
            [] Shape[i] = "schema" -> Arg(i) \in DOMAIN loaded /\ loaded[Arg(i)] \in {"RecordSchema", "Value"}
            [] Shape[i] = "template" ->
                  Arg(i) \in DOMAIN loaded /\ loaded[Arg(i)] \in {"CodeFunctionTemplate", "Value"}
            [] OTHER -> TRUE
    /\ Op = "LoadClosure" => MainType = "Closure"
\* Whatever operand was wrong, code that passes verification is safe to run,
\* the index register of LoadIndex and StoreIndex apart.
VerifiedCodeIsSafe == phase = "running" => Safe(Unchecked)

\* Compiled code takes from the stack what it has pushed before, and leaves
\* nothing on it when it returns without an exception.
TemporariesBalanced ==
    phase = "running" /\ faults = 0 =>
        /\ run.depth >= Popped
        /\ Op = "Return" /\ run.closed => run.depth = 0

\* The written code is the graph of blocks: every block once, jumps and falls to the right places,
\* and handler sections exactly where the blocks have that handler (bytecode_gen/func.cpp, writer.cpp).
CodeLaidOut == BytecodeTyped /\ LayoutFollowsGraph /\ HandlersFollowBlocks

\* The verifier accepts what the compiler writes, and what it accepts uses only registers,
\* constants and offsets that exist and leaves as many temporaries as it found (verify.cpp).
VerifiedCodeRuns == CompiledCodeVerifies /\ VerifiedCodeIsSafe /\ TemporariesBalanced
=============================================================================
