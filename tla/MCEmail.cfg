SPECIFICATION PageSpec
CONSTANTS
    acc = acc
    r1 = r1
    r2 = r2
    v1 = v1
    v2 = v2
    b1 = b1
    e1 = e1
    usdc = usdc
    Blank = Blank
    NoCustomer = NoCustomer
    NotVerified = NotVerified
    Account = {acc}
    Id = {1}
    Request = {r1, r2}
    Field = {"who", "bank", "email"}
    IdentityField = {"who"}
    Value = {v1, v2, b1, e1}
    Genuine <- MCGenuine
    Valid <- MCValid
    NoBank = NoBank
    NoDoc = NoDoc
    Browser = {r1}
    Proc = Proc
    Tx = {1}
    Sep6 = {}
    Asset = {usdc}
    AssetOf <- MCAssetOf
    Amounts = {10}
    Hash = {}
    Ref = {"r"}
    Owner <- MCOwner
    Bank = {b1}
    BankField = "bank"
    Rates <- MCRates
    Scale = 10
    MinPayout = 1
SYMMETRY MCSymmetry
PROPERTIES
    BankFormSuffices
