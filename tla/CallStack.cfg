\* Frames, calls and panics: eleven to twenty-two values of stack, three frames, functions with
\* up to two deferred statements, two exceptions.
CONSTANTS
    InitialSize = 11
    MaxSize = 22
    MaxFrames = 3
    MaxTemps = 1
    MaxArgs = 1
    MaxDefers = 2
    MaxThrown = 2
    Functions <- SomeFunctions
SPECIFICATION Spec
INVARIANTS TypeOK StackLayout ResultSlot
PROPERTIES CallsBalanced PanicsHandled
CHECK_DEADLOCK FALSE
