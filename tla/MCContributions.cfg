SPECIFICATION FairSpec
CONSTANTS
    Users = {ana, adm}
    Admins = {adm}
    Ids = {c1}
    EditTypes = {"edit_word"}
    Words = {w1}
    Requests = {r1, r2, r3}
    NoUser = NoUser
    NoWord = NoWord
INVARIANTS
    TypeOK
    ReviewMatchesStatus
    TargetRowExists
PROPERTIES
    ImplementsLifecycle
    DecisionsSettle
