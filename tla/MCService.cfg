SPECIFICATION ServiceSpec
CONSTANTS
    usdc = usdc
    acc = acc
    b1 = b1
    b2 = b2
    f1 = f1
    f2 = f2
    h1 = h1
    NoBank = NoBank
    NoDoc = NoDoc
    Proc = Proc
    Tx = {1}
    Sep6 = {}
    Asset = {usdc}
    AssetOf <- MCAssetOf
    Amounts = {0, 10, 11}
    Hash = {h1}
    Ref = {"r"}
    Forms = {f1, f2}
    Account = {acc}
    Owner <- MCOwner
    Bank = {b1, b2}
    Rates <- MCRates
    Scale = 10
    MinPayout = 16
SYMMETRY FormSymmetry
INVARIANTS
    ServiceTypeOK
    QuoteAgreement
    AboveMinimum
PROPERTIES
    QuoteIsFinal
    StartedIsRecorded
