---- MODULE MCBytecode ----
EXTENDS Bytecode
V(k, o, x) == [k |-> k, o |-> o, x |-> x]
Lv == {"Param", "Closure", "Field", "TupleField", "Index"}
\* Every kind of value the function compiler can meet.
AllValues ==
    {V("Read", o, 1) : o \in Lv} \cup {V("Write", o, 2) : o \in Lv}
    \cup {V("Read", "Module", i) : i \in 1..3} \cup {V("Write", "Module", 2)}
    \cup {V("Constant", o, 3) : o \in {"Integer", "Float", "String", "Symbol", "Null", "True", "False"}}
    \cup {V(k, "", 1) : k \in {"Alias", "ObserveAssign", "PublishAssign", "Phi", "GetAggregateMember", "Nop",
                               "Method", "IteratorNext", "MakeEnvironment", "MakeIterator", "Record"}}
    \cup {V("BinaryOp", o, 0) : o \in DOMAIN BinaryOps} \cup {V("UnaryOp", o, 0) : o \in DOMAIN UnaryOps}
    \cup {V(k, "", n) : k \in {"Call", "MethodCall", "Format"}, n \in {0, 2}}
    \cup {V("Container", o, 2) : o \in Containers} \cup {V("MakeClosure", "", 4)}
One(v) == [b \in 1..2 |-> IF b = 1 THEN Block(<<>>, Entry(2, <<>>), None)
                          ELSE Block(<<v>>, Halt("Return"), None)]
\* Records with the same keys share a schema, others do not.
Records == [One(V("Nop", "", 0)) EXCEPT ![2].values = <<V("Record", "", 1), V("Record", "", 2), V("Record", "", 1)>>]
Call0 == V("Call", "", 0)
Terms(n) == {Jump(t) : t \in 2..n} \cup {Branch(t, f) : t \in 2..n, f \in 2..n} \cup {Halt("Return")}
\* Graphs of three blocks, and of two blocks with a handler.
Graphs == {[b \in 1..4 |-> IF b = 1 THEN Block(<<>>, Entry(2, <<>>), None)
                           ELSE Block(IF b \in S THEN <<Call0>> ELSE <<>>, t[b], None)] :
             t \in [2..4 -> Terms(4)], S \in {{2, 3, 4}, {3}}}
Guarded == {[b \in 1..5 |->
              IF b = 1 THEN Block(<<>>, Entry(2, <<5>>), None)
              ELSE IF b = 5 THEN Block(<<V("Alias", "", 0)>>, t5, None)
              ELSE Block(IF b = 3 THEN v ELSE <<Call0>>, t[b], IF b \in H THEN 5 ELSE None)] :
             t \in {<<0, Jump(3), Jump(4), Halt("Return")>>, <<0, Branch(4, 3), Jump(4), Halt("Return")>>,
                    <<0, Branch(3, 4), Halt("Return"), Jump(2)>>},
             v \in {<<>>, <<Call0>>}, H \in {{2, 3, 4}, {2, 4}, {3}, {2}, {3, 4}},
             t5 \in {Halt("Rethrow"), Jump(4), Halt("AssertFail")}}
MCFunctions == {One(v) : v \in AllValues} \cup {Records} \cup {One(V("OuterEnvironment", "", 0))} \cup Graphs \cup Guarded
Simple == <<IrMember("Import", 2, FALSE), IrMember("Variable", 1, TRUE), IrMember("Main", 3, TRUE),
            IrMember("Closure", 1, FALSE)>>
Other == <<IrMember("Main", 2, FALSE), IrMember("Variable", 3, FALSE), IrMember("Function", 1, TRUE),
           IrMember("Closure", 2, FALSE)>>
Inner == <<IrMember("Function", 2, TRUE), IrMember("Variable", 1, TRUE), IrMember("Import", 3, FALSE),
           IrMember("MainClosure", 1, FALSE)>>
MCModules == {Simple, Other, Inner}
\* The functions with one value run in every module, the graphs in one; the
\* outer environment is only used by closures.
MCInit == /\ BInit
          /\ Len(func) > 2 => irModule = Simple
          /\ (\E b \in DOMAIN func : \E i \in DOMAIN func[b].values :
                func[b].values[i].k = "OuterEnvironment") => irModule = Inner
          /\ (\E b \in DOMAIN func : \E i \in DOMAIN func[b].values :
                func[b].values[i].k = "MakeClosure") => irModule[4].kind = "Closure"
MCSpec == MCInit /\ [][BNext]_bvars
====
