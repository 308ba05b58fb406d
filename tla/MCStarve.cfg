SPECIFICATION LiveSpec
CONSTANTS
    usdc = usdc
    acc1 = acc1
    acc2 = acc2
    b1 = b1
    h = h
    NoBank = NoBank
    NoDoc = NoDoc
    NoPayout = NoPayout
    Proc = Proc
    Tx = {1, 2}
    Sep6 = {1, 2}
    Asset = {usdc}
    AssetOf <- MCAssetOf
    Amounts = {20}
    Hash = {}
    Ref = {"r"}
    Forms = {}
    Account = {acc1, acc2}
    Owner <- MCOwner
    Bank = {b1}
    Rates <- MCRates
    Scale = 10
    MinPayout = 1
    Expected <- MCExpected
    PageSize = 1
    Ledger <- MCLedger
    OddAmounts = {}
PROPERTIES
    Sep6Starts
