SPECIFICATION IncomingLiveSpec
CONSTANTS
    usdc = usdc
    acc = acc
    b1 = b1
    f1 = f1
    right = right
    blank = blank
    foreign = foreign
    other = other
    NoBank = NoBank
    NoDoc = NoDoc
    Proc = Proc
    Tx = {1}
    Sep6 = {}
    Asset = {usdc}
    AssetOf <- MCAssetOf
    Amounts = {20}
    Hash = {}
    Ref = {"r"}
    Forms = {f1}
    Account = {acc}
    Owner <- MCOwner
    Bank = {b1}
    Rates <- MCRates
    Scale = 10
    MinPayout = 1
    Operation = {right, blank, foreign, other}
    Memo <- MCMemo
    Incoming = {right, blank, foreign}
    Limit = 2
    MaxScanPages = 2
INVARIANTS
    IncomingTypeOK
    NoStrayPassed
PROPERTIES
    StrayReported
