SPECIFICATION RSpec
CONSTANTS
    usdc = usdc
    acc = acc
    b1 = b1
    good = good
    f1 = f1
    NoBank = NoBank
    NoDoc = NoDoc
    NoPayout = NoPayout
    Proc = Proc
    Tx = {1}
    Sep6 = {1}
    Asset = {usdc}
    AssetOf <- MCAssetOf
    Amounts = {20}
    Hash = {good}
    Ref = {"r"}
    Forms = {}
    Account = {acc}
    Owner <- MCOwner
    Bank = {b1}
    Rates <- MCRates
    Scale = 10
    MinPayout = 1
    Expected <- MCExpected
    PageSize = 1
    Ledger <- MCLedger
    OddAmounts = {}
    MaxPages = 1
INVARIANTS
    MismatchAlerted
