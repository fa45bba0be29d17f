CONSTANTS
    Symbols = {"x", "y", "z"}
    Captured = {"z"}
    Pairs <- MCPairs
    Tested = {"x"}
    Loops = {"while", "for", "for_each", "endless"}
    Deferrable = {"x", "z"}
    MaxStmts = 2
    MaxOpen = 1
    MaxDefers = 1
    MaxSteps = 6
SPECIFICATION Spec
INVARIANTS IrWellFormed AssignmentsSeen
