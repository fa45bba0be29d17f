SPECIFICATION Spec
CONSTANT Sources <- MCSources
CONSTANT Valid <- MCValid
CHECK_DEADLOCK FALSE
INVARIANTS TokensKept TreesFaithful NamesResolved ErrorsExact ClosuresCorrect
