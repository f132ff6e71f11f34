SPECIFICATION AISpec
CONSTANTS
    Words = {w1}
    Headwords = {h1}
    Children = {d1}
    Procs = {p1, p2}
    Requests = {r1}
    NoHeadword = NoHeadword
    Nobody = Nobody
    Aborted = Aborted
PROPERTY ApprovesOnlyUnreviewed
CHECK_DEADLOCK FALSE
