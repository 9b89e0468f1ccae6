\* Every handler, every stream and every way to cut it.
SPECIFICATION FairSpec
CONSTANTS
    Handlers = {"static", "file", "form", "router"}
    Routed = {"static", "file", "form", "router"}
    Streams <- MCStreams
    EndLine <- MCEndLine
    AsRequest <- MCAsRequest
    AsHeader <- MCAsHeader
    AsForm <- MCAsForm
CHECK_DEADLOCK FALSE
INVARIANTS CallsInOrder WellFormedAccepted
PROPERTIES HandlerHears Closes
