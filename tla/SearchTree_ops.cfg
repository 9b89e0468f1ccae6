\* Seven nodes, two keys that are stored more than once, one swap_positions;
\* rings of three to five points of a 3x3 grid and ten larger ones, with a
\* hole or two more rings; the paths of a shape, five corners long together.
SPECIFICATION MCSpec
CONSTANTS
    Nodes = {1, 2, 3, 4, 5, 6, 7}
    Nil = 0
    Key <- MCKey
    Ops = {"insert", "remove", "consume"}
    MaxSwaps = 1
    Rings <- MCRings
    Others <- MCOthers
    Fits <- MCFits
    Styles <- MCStyles
    MaxCorners = 5
    MaxPaths = 2
    SideLength = 4
INVARIANTS PointersAgree Balanced IteratorsFollowOrder
INVARIANTS SweepOrdered TrianglesCover StrokesDrawn
PROPERTIES ImplementsSorted
