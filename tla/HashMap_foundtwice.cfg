\* Find iteration against tests/maptest2.cpp:40.
SPECIFICATION Spec
CONSTANTS
    Keys = {"k1", "k2", "k3", "k4"}
    Values = {"v1"}
    NoValue = NoValue
    DefaultKey = "k1"
    DefaultValue = "v1"
    Hash <- MCHash4
    HighMod = 8
    Bytes = 8
    W = 2
    InitialRows = 2
    Ops = {"insert", "find"}
    MaxRows = 8
    MaxHits = 2
INVARIANTS FoundOnce
