CONSTANTS
    i1 = i1
    i2 = i2
    i3 = i3
    Inputs = {i1, i2, i3}
    None = None
SPECIFICATION Spec
INVARIANTS
    FastestWins
CHECK_DEADLOCK FALSE
