\* The ready list and progress: three coroutines, so that the list has a first, a middle and a
\* last element, that call std.dispatch and yield for ever, are launched, resumed by a token and
\* lost to an exception; no async calls, and a callback on one of the coroutines.
CONSTANTS
    Coroutines = {c1, c2, c3}
    NoCoro = NoCoro
    EntryKinds = {"Code", "Dispatch"}
    Observed = {c1}
    MaxDepth = 2
    MaxTokens = 1
    MaxCalls = 0
    MaxFaults = 1
SPECIFICATION FairSpec
INVARIANTS ReadyListShape
PROPERTIES ImplementsFifo ServedFairly
