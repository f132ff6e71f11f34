SPECIFICATION Spec
CONSTANTS
    Users = {ana, adm}
    Admins = {adm}
    Ids = {c1}
    EditTypes = {"edit_word"}
    Words = {w1}
    Requests = {r1, r2}
    NoUser = NoUser
    NoWord = NoWord
SYMMETRY RequestSymmetry
PROPERTY NoWithdrawAfterApproval
