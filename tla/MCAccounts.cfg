SPECIFICATION FairSpec
CONSTANTS
    Users = {u1}
    ResetTokens = {s1}
    RefreshTokens = {t1, t2}
    Procs = {p1, p2}
    Root = Root
    NoUser = NoUser
INVARIANTS
    TypeOK
    Verifiable
PROPERTIES
    NoCollateralChange
    BanHolds
    DemotionSettles
