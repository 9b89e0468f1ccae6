\* Three keys in the default table with rows of two slots: it grows and fills up.
SPECIFICATION FairSpec
CONSTANTS
    Keys = {"k1", "k2", "k3"}
    Values = {"v1"}
    NoValue = NoValue
    DefaultKey = "k3"
    DefaultValue = "v1"
    Hash <- MCHash4
    HighMod = 8
    Bytes = 8
    W = 2
    InitialRows <- Rows0
    Ops = {"lookup", "insert", "upsert", "remove"}
    MaxRows = 8
    MaxHits = 2
INVARIANTS TableSound TagsMatch LoadBounded
PROPERTIES ResizeKeepsEntries Returns
