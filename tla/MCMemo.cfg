SPECIFICATION Spec
CONSTANTS
    usdc = usdc
    xlm = xlm
    acc = acc
    b1 = b1
    b2 = b2
    f1 = f1
    good = good
    failed = failed
    stray = stray
    NoBank = NoBank
    NoDoc = NoDoc
    NoPayout = NoPayout
    Proc = Proc
    Tx = {1}
    Sep6 = {}
    Asset = {usdc, xlm}
    AssetOf <- MCAssetOf
    Amounts = {20}
    Hash = {good, stray}
    Ref = {"r"}
    Forms = {f1}
    Account = {acc}
    Owner <- MCOwner
    Bank = {b1, b2}
    Rates <- MCRates
    Scale = 10
    MinPayout = 1
    Expected <- MCExpected
    PageSize = 1
    Ledger <- MCLedger
    OddAmounts = {7}
INVARIANTS
    MemoCheckedBeforePaying
