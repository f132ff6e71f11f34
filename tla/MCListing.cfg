SPECIFICATION Spec
CONSTANTS
    Rows = {r1, r2, r3}
    MaxRank = 3
    MaxHits = 2
    OffsetBits = 3
    DefaultPerPage = 1
    MaxPerPage = 2
    MaxPage = 9
SYMMETRY Symmetry
INVARIANTS
    TypeOK
    RowsFillThePage
    NoSkipWithoutDelete
    NoRepeatWithoutInsert
