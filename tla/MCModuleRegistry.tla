---- MODULE MCModuleRegistry ----
EXTENDS ModuleRegistry
CONSTANTS module_a, module_b, module_c
MCPrograms ==
    {program \in [Modules -> {<<>>, <<module_a>>, <<module_b>>, <<module_c>>, <<Missing>>,
                              <<module_b, module_c>>}] :
        /\ program[module_a] # <<Missing>>
        /\ program[module_b] \in {<<>>, <<module_a>>, <<module_c>>}
        /\ program[module_c] \in {<<>>, <<module_a>>, <<module_b>>, <<Missing>>}}
====
