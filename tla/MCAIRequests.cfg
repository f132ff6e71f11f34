SPECIFICATION FairAISpec
CONSTANTS
    Words = {w1}
    Headwords = {h1}
    Children = {d1}
    Procs = {p1, p2}
    Requests = {r1}
    NoHeadword = NoHeadword
    Nobody = Nobody
    Aborted = Aborted
INVARIANTS
    AITypeOK
    ApprovedIsMerged
PROPERTIES
    ReviewSticks
    RequestsSettle
CHECK_DEADLOCK FALSE
