---------------------------- MODULE Instructions ----------------------------
(***************************************************************************)
(* The operands of every bytecode instruction, as the four parts of the    *)
(* system that encode or decode instructions see them: the compiler's      *)
(* writer, the decoded form the verifier inspects, the reader that         *)
(* produces it, and the interpreter, which has a decoder of its own. An    *)
(* operand is named by what it is to that part and takes 4 bytes, a        *)
(* constant of 64 bits takes 8.                                            *)
(***************************************************************************)
EXTENDS Integers, Sequences, SequencesExt, TLC

L == "local"    \* a register of the frame
P == "param"
M == "member"   \* a module member
O == "offset"   \* a jump target
U == "u32"
W == "wide"     \* i64 or f64
G == "label"    \* a jump target before labels are resolved

Of(shape, ops) == [op \in ops |-> shape]
Comparisons == {"Gt", "Gte", "Lt", "Lte", "Eq", "NEq"}
Arithmetic == {"Add", "Sub", "Mul", "Div", "Mod", "Pow", "LSh", "RSh", "BAnd", "BOr", "BXor"} \cup Comparisons
Unary == {"UAdd", "UNeg", "BNot", "LNot"}
Containers == {"Array", "Tuple", "Set", "Map"}
Branches == {"JmpTrue", "JmpFalse", "JmpNull", "JmpNotNull"}

\* The fields of the decoded form, in the order they are declared.
DecodedLoads ==
    Of(<<L>>, {"LoadNull", "LoadFalse", "LoadTrue", "LoadClosure"}) @@ Of(<<W, L>>, {"LoadInt", "LoadFloat"})
    @@ [LoadParam |-> <<P, L>>, StoreParam |-> <<L, P>>, LoadModule |-> <<M, L>>, StoreModule |-> <<L, M>>,
        LoadMember |-> <<L, M, L>>, StoreMember |-> <<L, L, M>>, LoadTupleMember |-> <<L, U, L>>,
        StoreTupleMember |-> <<L, L, U>>, LoadIndex |-> <<L, L, L>>, StoreIndex |-> <<L, L, L>>,
        LoadEnv |-> <<L, U, U, L>>, StoreEnv |-> <<L, L, U, U>>]
DecodedNumbers == Of(<<L, L, L>>, Arithmetic \ Comparisons) @@ Of(<<L, L>>, Unary \ {"LNot"})
DecodedComparisons == Of(<<L, L, L>>, Comparisons) @@ Of(<<L, L>>, {"LNot"})
DecodedObjects ==
    Of(<<U, L>>, Containers)
    @@ [Env |-> <<L, U, L>>, Closure |-> <<M, L, L>>, Record |-> <<M, L>>, Iterator |-> <<L, L>>,
        IteratorNext |-> <<L, L, L>>, Formatter |-> <<L>>, AppendFormat |-> <<L, L>>, FormatResult |-> <<L, L>>,
        Copy |-> <<L, L>>, Swap |-> <<L, L>>, Push |-> <<L>>, Pop |-> <<>>, PopTo |-> <<L>>]
DecodedControl ==
    Of(<<L, O>>, Branches)
    @@ [Jmp |-> <<O>>, Call |-> <<L, U>>, LoadMethod |-> <<L, M, L, L>>, CallMethod |-> <<L, U>>,
        Return |-> <<L>>, Rethrow |-> <<>>, AssertFail |-> <<L, L>>]
Decoded == DecodedLoads @@ DecodedNumbers @@ DecodedComparisons @@ DecodedObjects @@ DecodedControl

\* What the writer's functions write (write(...)).
WriteLoads ==
    Of(<<L>>, {"LoadNull", "LoadFalse", "LoadTrue", "LoadClosure"}) @@ Of(<<W, L>>, {"LoadInt", "LoadFloat"})
    @@ [LoadParam |-> <<P, L>>, StoreParam |-> <<L, P>>, LoadModule |-> <<M, L>>, StoreModule |-> <<L, M>>,
        LoadMember |-> <<L, M, L>>, StoreMember |-> <<L, L, M>>, LoadTupleMember |-> <<L, U, L>>,
        StoreTupleMember |-> <<L, L, U>>, LoadIndex |-> <<L, L, L>>, StoreIndex |-> <<L, L, L>>,
        LoadEnv |-> <<L, U, U, L>>, StoreEnv |-> <<L, L, U, U>>]
    @@ Of(<<L, L, L>>, Arithmetic) @@ Of(<<L, L>>, Unary)
WriteRest ==
    Of(<<U, L>>, Containers)
    @@ [Env |-> <<L, U, L>>, Closure |-> <<M, L, L>>, Record |-> <<M, L>>, Iterator |-> <<L, L>>,
        IteratorNext |-> <<L, L, L>>, Formatter |-> <<L>>, AppendFormat |-> <<L, L>>, FormatResult |-> <<L, L>>,
        Copy |-> <<L, L>>, Swap |-> <<L, L>>, Push |-> <<L>>, Pop |-> <<>>, PopTo |-> <<L>>]
    @@ Of(<<L, G>>, Branches)
    @@ [Jmp |-> <<G>>, Call |-> <<L, U>>, LoadMethod |-> <<L, M, L, L>>, CallMethod |-> <<L, U>>,
        Return |-> <<L>>, Rethrow |-> <<>>, AssertFail |-> <<L, L>>]
Written == WriteLoads @@ WriteRest

\* What the reader reads for an opcode; operand_size is what it asks for first.
ReadLoads ==
    Of(<<L>>, {"LoadNull", "LoadFalse", "LoadTrue", "LoadClosure"}) @@ Of(<<W, L>>, {"LoadInt", "LoadFloat"})
    @@ [LoadParam |-> <<P, L>>, StoreParam |-> <<L, P>>, LoadModule |-> <<M, L>>, StoreModule |-> <<L, M>>,
        LoadMember |-> <<L, M, L>>, StoreMember |-> <<L, L, M>>, LoadTupleMember |-> <<L, U, L>>,
        StoreTupleMember |-> <<L, L, U>>, LoadIndex |-> <<L, L, L>>, StoreIndex |-> <<L, L, L>>,
        LoadEnv |-> <<L, U, U, L>>, StoreEnv |-> <<L, L, U, U>>]
ReadOperators == Of(<<L, L, L>>, Arithmetic) @@ Of(<<L, L>>, Unary)
ReadObjects ==
    Of(<<U, L>>, Containers)
    @@ [Env |-> <<L, U, L>>, Closure |-> <<M, L, L>>, Record |-> <<M, L>>, Iterator |-> <<L, L>>,
        IteratorNext |-> <<L, L, L>>, Formatter |-> <<L>>, AppendFormat |-> <<L, L>>, FormatResult |-> <<L, L>>,
        Copy |-> <<L, L>>, Swap |-> <<L, L>>, Push |-> <<L>>, Pop |-> <<>>, PopTo |-> <<L>>]
ReadControl ==
    Of(<<L, O>>, Branches)
    @@ [Jmp |-> <<O>>, Call |-> <<L, U>>, LoadMethod |-> <<L, M, L, L>>, CallMethod |-> <<L, U>>,
        Return |-> <<L>>, Rethrow |-> <<>>, AssertFail |-> <<L, L>>]
ReadTable == ReadLoads @@ ReadOperators @@ ReadObjects @@ ReadControl

\* The fields of a decoded instruction that the verifier checks, as <<kind of
\* check, position>>: the visitors call an overload of check for them.
Fields(shape, ops) == [op \in ops |-> {<<shape[i], i>> : i \in DOMAIN shape}]
CheckLoads ==
    Fields(<<L>>, {"LoadNull", "LoadFalse", "LoadTrue", "LoadClosure"})
    @@ Fields(<<W, L>>, {"LoadInt", "LoadFloat"})
    @@ Fields(<<P, L>>, {"LoadParam"}) @@ Fields(<<L, P>>, {"StoreParam"})
    @@ Fields(<<M, L>>, {"LoadModule"}) @@ Fields(<<L, M>>, {"StoreModule"})
    @@ Fields(<<L, "symbol", L>>, {"LoadMember"}) @@ Fields(<<L, L, "symbol">>, {"StoreMember"})
    @@ Fields(<<L, U, L>>, {"LoadTupleMember"}) @@ Fields(<<L, L, U>>, {"StoreTupleMember"})
    @@ [LoadIndex |-> {<<L, 1>>, <<L, 3>>}, StoreIndex |-> {<<L, 1>>, <<L, 2>>}]
    @@ Fields(<<L, U, U, L>>, {"LoadEnv"}) @@ Fields(<<L, L, U, U>>, {"StoreEnv"})
CheckOperators == Fields(<<L, L, L>>, Arithmetic) @@ Fields(<<L, L>>, Unary)
CheckObjects ==
    Fields(<<"count", L>>, Containers \ {"Map"}) @@ Fields(<<"pairs", L>>, {"Map"})
    @@ Fields(<<L, U, L>>, {"Env"}) @@ Fields(<<"template", L, L>>, {"Closure"})
    @@ Fields(<<"schema", L>>, {"Record"})
    @@ Fields(<<L, L>>, {"Iterator", "AppendFormat", "FormatResult", "Copy", "Swap"})
    @@ Fields(<<L, L, L>>, {"IteratorNext"}) @@ Fields(<<L>>, {"Formatter", "Push", "PopTo"})
    @@ Fields(<<>>, {"Pop"})
CheckControl ==
    Fields(<<O>>, {"Jmp"}) @@ Fields(<<L, O>>, Branches) @@ Fields(<<L, U>>, {"Call", "CallMethod"})
    @@ Fields(<<L, "symbol", L, L>>, {"LoadMethod"}) @@ Fields(<<L>>, {"Return"})
    @@ Fields(<<>>, {"Rethrow"}) @@ Fields(<<L, L>>, {"AssertFail"})
CheckTable == CheckLoads @@ CheckOperators @@ CheckObjects @@ CheckControl

\* What the interpreter decodes and how it uses it: read_local, a parameter
\* index, a member it casts to some type, an offset for set_pc.
RunLoads ==
    Of(<<L>>, {"LoadNull", "LoadFalse", "LoadTrue"}) @@ Of(<<W, L>>, {"LoadInt", "LoadFloat"})
    @@ [LoadParam |-> <<P, L>>, StoreParam |-> <<L, P>>, LoadModule |-> <<M, L>>, StoreModule |-> <<L, M>>,
        LoadMember |-> <<L, "symbol", L>>, StoreMember |-> <<L, L, "symbol">>, LoadTupleMember |-> <<L, U, L>>,
        StoreTupleMember |-> <<L, L, U>>]
Unimplemented == {"LSh", "RSh", "BAnd", "BOr", "BXor"}   \* an error
RunElements ==
    [LoadIndex |-> <<L, L, L>>, StoreIndex |-> <<L, L, L>>, LoadClosure |-> <<L>>,
     LoadEnv |-> <<L, U, U, L>>, StoreEnv |-> <<L, L, U, U>>]
    @@ Of(<<L, L, L>>, Arithmetic \ Unimplemented) @@ Of(<<L, L>>, Unary)
    @@ Of(<<>>, Unimplemented)
RunObjects ==
    Of(<<U, L>>, Containers)
    @@ [Env |-> <<L, U, L>>, Closure |-> <<"template", L, L>>, Record |-> <<"schema", L>>, Iterator |-> <<L, L>>,
        IteratorNext |-> <<L, L, L>>, Formatter |-> <<L>>, AppendFormat |-> <<L, L>>, FormatResult |-> <<L, L>>]
RunControl ==
    [Copy |-> <<L, L>>, Swap |-> <<L, L>>, Push |-> <<L>>, Pop |-> <<>>, PopTo |-> <<L>>, Jmp |-> <<O>>]
    @@ Of(<<L, O>>, Branches)
    @@ [Call |-> <<L, U>>, LoadMethod |-> <<L, "symbol", L, L>>, CallMethod |-> <<L, U>>,
        Return |-> <<L>>, Rethrow |-> <<>>, AssertFail |-> <<L, L>>]
RunTable == RunLoads @@ RunElements @@ RunObjects @@ RunControl

Ops == DOMAIN ReadTable
Width(kind) == IF kind = W THEN 8 ELSE 4
Widths(shape) == [k \in DOMAIN shape |-> Width(shape[k])]
\* Offset of operand i from the start of an instruction with these operands.
FieldOffset(shape, i) ==
    LET widths == Widths(shape)
        offset[k \in 1..i] == IF k = 1 THEN 1 ELSE offset[k - 1] + widths[k - 1]
    IN  offset[i]
Size(shape) == FieldOffset(shape, Len(shape) + 1)

\* The four parts lay the operands of every instruction out alike: labels
\* become offsets, and the interpreter knows more about members.
Plain(shape) == [i \in DOMAIN shape |->
    CASE shape[i] = G -> O [] shape[i] \in {"symbol", "schema", "template"} -> M [] OTHER -> shape[i]]
ASSUME EncodingsAgree ==
    /\ DOMAIN Written = Ops /\ DOMAIN Decoded = Ops /\ DOMAIN CheckTable = Ops /\ DOMAIN RunTable = Ops
    /\ \A op \in Ops :
        /\ ReadTable[op] \in Seq({L, P, M, O, U, W})
        /\ RunTable[op] \in Seq({L, P, M, O, U, W, "symbol", "schema", "template"})
        /\ ReadTable[op] = Decoded[op] /\ Plain(Written[op]) = Decoded[op]
        /\ IF op \in Unimplemented THEN RunTable[op] = <<>> ELSE Plain(RunTable[op]) = Decoded[op]
    /\ RunTable["Jmp"] = <<O>> /\ \A op \in Branches : RunTable[op] = <<L, O>>

\* What the interpreter takes for granted about an operand is checked by the verifier, but for
\* the index registers of LoadIndex and StoreIndex.
Unchecked == {<<"LoadIndex", 2>>, <<"StoreIndex", 3>>}
ASSUME ChecksCover ==
    \A op \in Ops : \A i \in DOMAIN RunTable[op] :
        <<op, i>> \in Unchecked \/ RunTable[op][i] \in {U, W} \/ <<RunTable[op][i], i>> \in CheckTable[op]
=============================================================================
