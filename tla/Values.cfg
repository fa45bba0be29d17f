CONSTANTS
    Width = 4
    Embedded = 3
    nearest <- MCNearest
    MaxHalves = 16
    OutOfRange <- MCOutOfRange
    Others = {7}
    MaxField = 5
    Numerals <- MCNumerals
    Quoted <- MCQuoted
    MaxCode = 250
    Surrogates = {79}
    CodeLimit = 1023
    Contents <- MCContents
    byte_hash <- MCHash
    InternedFlag = 4
    MinCapacity = 2
    Bytes = {2}
    SliceArgs <- MCSliceArgs
    MaxObjects = 3
    MaxText = 3
SPECIFICATION MCSpec
INVARIANTS IntegersExact OperatorsAgree StringsAreContents
CHECK_DEADLOCK FALSE
