SPECIFICATION Spec
CONSTANTS
    acc = acc
    r1 = r1
    r2 = r2
    v1 = v1
    v2 = v2
    b1 = b1
    Blank = Blank
    NoCustomer = NoCustomer
    NotVerified = NotVerified
    Account = {acc}
    Id = {1, 2}
    Request = {r1, r2}
    Field = {"name", "number", "bank"}
    IdentityField = {"name", "number"}
    Value = {v1, v2, b1}
    Genuine <- MCGenuine
    Valid <- MCValid
SYMMETRY MCSymmetry
INVARIANTS
    DeletedStaysDeleted
