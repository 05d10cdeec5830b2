SPECIFICATION ObservedSpec
CONSTANTS
    a = a
    b = b
    x = x
    y = y
    NoContent = NoContent
    Runtimes = {rt1}
    Paths = {a, b}
    Contents = {x, y}
    Pushers = {p1}
    Origins = {"cli", "snapshot"}
    PushTrees <- MCPushTrees
    FileRequestIds = {f1, f2}
    FileKinds = {"put", "delete", "get", "publish", "unpublish"}
CHECK_DEADLOCK FALSE
INVARIANT GetSeesCommitted
