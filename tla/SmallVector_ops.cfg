\* Two vectors with one element in the object, as Digital has them; the sets
\* of up to four of six numbers; texts of up to five bytes, whose bits differ
\* at every place.
SPECIFICATION MCSpec
CONSTANTS
    Names = {a, b}
    Values = {x, y}
    Junk = Junk
    Blocks = {b1, b2, b3}
    Null = Null
    MinCapacity = 1
    MaxLen = 4
    MaxElements = 4
    MaxLength = 6
    Bytes = {0, 77, 170, 255}
    MaxBytes = 5
SYMMETRY MCSymmetry
INVARIANTS BlocksOwned IteratorsCount ContentsExpected TranslatedBack
