\* Tokens and states: two coroutines, every kind of entry function, two tokens
\* and two async calls each, and one exception that escapes the interpreter.
CONSTANTS
    Coroutines = {c1, c2}
    NoCoro = NoCoro
    EntryKinds = {"Code", "Async", "Yield", "Dispatch", "NotCallable"}
    Observed = {c1, c2}
    MaxDepth = 2
    MaxTokens = 2
    MaxCalls = 2
    MaxFaults = 1
SPECIFICATION Spec
SYMMETRY Symmetry
INVARIANTS TypeOK TokenReachesItsFrame RunnableIffQueued
PROPERTIES CompletionFinal NoCoroutineLost
