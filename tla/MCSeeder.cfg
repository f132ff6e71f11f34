SPECIFICATION SeedSpec
CONSTANTS
    Words = {w1, w2}
    Headwords <- SeedHeadwords
    Children = {d1, d2, d3}
    Procs = {p1}
    File <- SeedFile
    NoRoot = NoRoot
    MaxRequests = 1
    NoHeadword = NoHeadword
    Nobody = Nobody
    Aborted = Aborted
SYMMETRY SeedSymmetry
INVARIANTS
    SeedTypeOK
    SeededExactly
PROPERTY NoReplacementAfterDelete
