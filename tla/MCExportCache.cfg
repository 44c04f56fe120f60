SPECIFICATION Spec
CONSTANTS
    Commands = {p1, p2}
    Clears = {c1}
    Contents = {old, new}
    Options = {plain}
    None = None
INVARIANTS OnlyWholeExports RightExport OnlyClearsDisturb
PROPERTIES ActsAsMap EveryoneEnds
CHECK_DEADLOCK FALSE
