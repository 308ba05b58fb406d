----------------------------- MODULE MCProcessor -----------------------------
(* One withdrawal, over SEP-24 or SEP-6, against a ledger with the right   *)
(* payment and a wrong one.                                                *)
EXTENDS ProcessorContract, TLC

CONSTANTS usdc, xlm, acc, b1, b2, f1, good, failed, stray

MCAssetOf == 1 :> usdc
MCOwner == 1 :> acc
MCRates == {usdc :> 10}
MCExpected == [t \in Sep6 |-> 20]
MCLedger ==
    [h \in Hash |->
        [successful |-> h # failed,
         memo |-> IF h = stray THEN NoMemo ELSE 1,
         paid |-> [a \in Asset |-> IF a = usdc THEN 20 ELSE 0]]]
=============================================================================
