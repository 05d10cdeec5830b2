SPECIFICATION Spec
CONSTANTS
    a = a
    x = x
    y = y
    z = z
    NoContent = NoContent
    Runtimes = {rt1}
    Paths = {a}
    Contents = {x, y, z}
    Pushers = {p1, p2}
    PushTrees <- MCPushTrees
CHECK_DEADLOCK FALSE
INVARIANT OneWinner
