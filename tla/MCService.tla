------------------------------ MODULE MCService ------------------------------
(* Two forms race on one SEP-24 withdrawal while the customer edits the    *)
(* bank account and the server restarts with another rate.                 *)
EXTENDS WithdrawalService, TLC

CONSTANTS usdc, acc, b1, b2, f1, f2, h1

MCAssetOf == 1 :> usdc
MCOwner == 1 :> acc
MCRates == {usdc :> 15, usdc :> 16}
FormSymmetry == Permutations(Forms)
=============================================================================
