SPECIFICATION Spec
CONSTANTS
    a = a
    b = b
    x = x
    y = y
    NoContent = NoContent
    Runtimes = {rt1, rt2}
    Paths = {a, b}
    Contents = {x, y}
    Pushers = {p1, p2}
    Origins = {"cli"}
    PushTrees <- MCPushTrees
    FileRequestIds = {f1}
    FileKinds = {}
CHECK_DEADLOCK FALSE
INVARIANT CurrentPushAccepted
