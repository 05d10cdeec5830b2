SPECIFICATION ObservedSpec
CONSTANTS
    a = a
    b = b
    x = x
    y = y
    NoContent = NoContent
    Runtimes = {rt1}
    Paths = {a, b}
    Contents = {x, y}
    Pushers = {p1, p2}
    Origins = {"cli", "snapshot", "restore"}
    PushTrees <- MCPushTrees
    FileRequestIds = {f1}
    FileKinds = {"put", "delete"}
SYMMETRY PusherSymmetry
CHECK_DEADLOCK FALSE
INVARIANT RecordedObjectsExist
INVARIANT NoObjectMissing
INVARIANT MirrorCopiesHead
