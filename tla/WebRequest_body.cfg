\* One statement of server.hpp about handlers of form data.
SPECIFICATION Spec
CONSTANTS
    Handlers = {"form"}
    Routed = {"form"}
    Streams <- MCRequests
    EndLine <- MCEndLine
    AsRequest <- MCAsRequest
    AsHeader <- MCAsHeader
    AsForm <- MCAsForm
CHECK_DEADLOCK FALSE
INVARIANTS BodyDelivered
