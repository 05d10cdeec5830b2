SPECIFICATION Spec
CONSTANTS
    a = a
    b = b
    x = x
    y = y
    NoContent = NoContent
    Runtimes = {rt1}
    Paths = {a, b}
    Contents = {x, y}
    Pushers = {p1, p2}
    Origins = {"cli", "snapshot"}
    PushTrees <- MCPushTrees
    FileRequestIds = {f1}
    FileKinds = {"put"}
CHECK_DEADLOCK FALSE
INVARIANT ConcurrentHeadChangeConflicts
