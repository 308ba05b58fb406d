------------------------------- MODULE MCQueue -------------------------------
(* Two SEP-6 withdrawals of two customers, and a page that holds one or    *)
(* both of them.                                                           *)
EXTENDS Processor, TLC

CONSTANTS usdc, acc1, acc2, b1, h

MCAssetOf == [t \in Tx |-> usdc]
MCOwner == 1 :> acc1 @@ 2 :> acc2
MCRates == {usdc :> 10}
MCExpected == [t \in Sep6 |-> 20]
MCLedger ==
    [x \in Hash |->
        [successful |-> TRUE, memo |-> 1, paid |-> [a \in Asset |-> 20]]]
=============================================================================
