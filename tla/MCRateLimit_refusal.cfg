SPECIFICATION Spec
CONSTANTS
    guest = guest
    user = user
    Keys <- MCKeys
    Limit <- MCLimit
    Window = 3
    CallIds = {a, b, c}
    MaxCount = 3
SYMMETRY CallSymmetry
PROPERTY RefusedOnlyOverLimit
