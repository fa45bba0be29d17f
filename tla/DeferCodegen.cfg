\* Deferred statements that leave scopes themselves.
CONSTANTS
    MaxOpen = 3
    MaxDefers = 3
    Bodies = {"plain", "return", "break", "maybe_return", "maybe_break"}
    EarlyExits = {"return", "break"}
SPECIFICATION Spec
INVARIANTS ScopeExits HandlerCovers
CHECK_DEADLOCK FALSE
