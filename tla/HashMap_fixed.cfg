\* Two keys in the default table: half of its slots are enough, it never grows.
SPECIFICATION Spec
CONSTANTS
    Keys = {"k1", "k2", "k3"}
    Values = {"v1", "v2"}
    NoValue = NoValue
    DefaultKey = "k1"
    DefaultValue = "v1"
    Hash <- MCHash3
    HighMod = 8
    Bytes = 8
    W = 2
    InitialRows = 2
    Ops = {"lookup", "insert", "upsert", "remove", "find", "iterate", "clear"}
    MaxRows = 2
    MaxHits = 2
INVARIANTS FixedSizeCorrect SpinsOnlyWhenSaturated IterateComplete
PROPERTIES ImplementsDictionary
