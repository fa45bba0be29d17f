CONSTANTS
    module_a = module_a
    module_b = module_b
    module_c = module_c
    Modules = {module_a, module_b, module_c}
    Missing = Missing
    Programs <- MCPrograms
    MaxStack = 3
    MaxFailures = 1
SPECIFICATION FairSpec
INVARIANTS ResolutionStack 
PROPERTIES ResolutionEnds
