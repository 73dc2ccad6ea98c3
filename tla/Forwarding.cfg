SPECIFICATION ForwardingSpec
CONSTANTS
    App = {a1, a2}
    Cmd = {c1, c2}
    File = {f1}
    None = None
    MaxImports = 1
SYMMETRY Alike
INVARIANTS ForwardingInv RunsOnce
CHECK_DEADLOCK FALSE
