SPECIFICATION MCLiveSpec
CONSTANTS
    usdc = usdc
    acc = acc
    b1 = b1
    good = good
    f1 = f1
    NoBank = NoBank
    NoDoc = NoDoc
    NoPayout = NoPayout
    Proc = Proc
    Tx = {1, 2, 3}
    Sep6 = {}
    Asset = {usdc}
    AssetOf <- MCAssetOf
    Amounts = {20}
    Hash = {good}
    Ref = {"r"}
    Forms = {f1}
    Account = {acc}
    Owner <- MCOwner
    Bank = {b1}
    Rates <- MCRates
    Scale = 10
    MinPayout = 1
    Expected <- MCExpected
    PageSize = 1
    Ledger <- MCLedger
    OddAmounts = {7}
    MaxPages = 2
INVARIANTS
    ReconcilerTypeOK
    OkMeansConsistent
    RecordedIsReported
PROPERTIES
    Reconciled
