SPECIFICATION Spec
CONSTANTS
    a = a
    x = x
    y = y
    z = z
    NoContent = NoContent
    Runtimes = {rt1, rt2}
    Paths = {a}
    Contents = {x, y, z}
    Pushers = {p1, p2, p3}
    PushTrees <- MCPushTrees
SYMMETRY Symmetry
CHECK_DEADLOCK FALSE
INVARIANT TypeOK
INVARIANT NoForkAfterVersion
INVARIANT ConflictsAreReal
PROPERTY SwapsFromBase
PROPERTY RowsImmutable
