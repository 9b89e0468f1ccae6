SPECIFICATION MCSpec
CONSTANTS
    Layers <- MCLayers
    Multisampled <- MCMultisampled
    MaxChannels <- MCMaxChannels
    Names = {1, 2, 3, 4}
    Free <- MCFree
    Objects <- MCObjects
    Members <- MCMembers
    Kind <- MCKind
    None = None
    Gone = Gone
    MaxObjects = 3
    MaxVertices = 1
INVARIANTS ClearedEverySwap
