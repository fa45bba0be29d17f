CONSTANTS
    key_a = key_a
    key_b = key_b
    key_c = key_c
    Keys = {key_a, key_b, key_c}
    Null = Null
    Values = {Null, v1}
    NoValue = NoValue
    RawHash <- MCHash
    DeletedHash = 99
    InitialIndex = 4
    MaxIndex = 8
    ClassMax <- MCClasses
    MaxInitial = 4
    Iterators = {i1}
SPECIFICATION Spec
INVARIANTS TableIntact OrderedMap IterationExact
