SPECIFICATION Spec
CONSTANTS
    Users = {u1, u2}
    Words = {w1}
    Definitions = {d1}
    Comments = {c1}
    Bodies = {b1, b2}
    WordOf <- MCWordOf
    Procs = {p1, p2}
SYMMETRY Symmetry
INVARIANT
    TypeOK
PROPERTIES
    DeletedTargetsQuiet
    TextIsTheAuthors
    DeletedCommentStays
CHECK_DEADLOCK FALSE
