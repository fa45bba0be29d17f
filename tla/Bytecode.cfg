CONSTANTS
    Functions <- MCFunctions
    IrModules <- MCModules
    Params = 1
    MaxDepth = 3
    MaxFaults = 1
SPECIFICATION MCSpec
INVARIANTS CodeLaidOut ReferencesKept VerifiedCodeRuns
CHECK_DEADLOCK FALSE
