SPECIFICATION Spec
CONSTANTS
    Words = {w1}
    Headwords = {h1}
    Children = {d1, d2, d3}
    Procs = {p1, p2}
    NoHeadword = NoHeadword
    Nobody = Nobody
    Aborted = Aborted
INVARIANT UpdateReplaces
CHECK_DEADLOCK FALSE
