SPECIFICATION Spec
CONSTANTS
    Words = {w1, w2}
    Headwords = {h1, h2}
    Children = {d1, d2}
    Procs = {p1, p2}
    NoHeadword = NoHeadword
    Nobody = Nobody
    Aborted = Aborted
SYMMETRY StoreSymmetry
INVARIANTS
    TypeOK
    LastWriterComplete
PROPERTY NoReplacementAfterDelete
CHECK_DEADLOCK FALSE
