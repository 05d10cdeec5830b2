SPECIFICATION Spec
CONSTANTS
    a = a
    b = b
    x = x
    y = y
    NoContent = NoContent
    Runtimes = {rt1, rt2}
    Paths = {a, b}
    Contents = {x, y}
    Pushers = {p1, p2, p3}
    Origins = {"cli", "snapshot", "restore", "api"}
    PushTrees <- MCPushTrees
    FileRequestIds = {f1}
    FileKinds = {}
SYMMETRY Symmetry
CHECK_DEADLOCK FALSE
INVARIANT CommittedObjectsExist
INVARIANT LinearHistory
INVARIANT OneWinnerPerHead
PROPERTY VersionsImmutable
PROPERTY CompareAndSwap
