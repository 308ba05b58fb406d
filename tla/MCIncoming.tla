------------------------------ MODULE MCIncoming ------------------------------
(* A form starts a withdrawal while four operations reach the ledger: its  *)
(* payment, a payment without a memo, one with a foreign memo, and another *)
(* operation.                                                              *)
EXTENDS Incoming, TLC

CONSTANTS usdc, acc, b1, f1, right, blank, foreign, other

MCAssetOf == 1 :> usdc
MCOwner == 1 :> acc
MCRates == {usdc :> 10}
MCMemo == [o \in Operation |-> IF o = right THEN 1 ELSE IF o = foreign THEN 9 ELSE NoMemo]
=============================================================================
