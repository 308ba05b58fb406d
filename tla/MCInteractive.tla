---------------------------- MODULE MCInteractive ----------------------------
(* One account, two requests, two people, the bank form and one SEP-24     *)
(* withdrawal.                                                             *)
EXTENDS Interactive, TLC

CONSTANTS acc, r1, r2, v1, v2, b1, e1, usdc

Person == {v1, v2}
MCValid ==
    [f \in Field |->
        CASE f = "bank" -> {b1} [] f = "email" -> {e1} [] OTHER -> Person]
MCGenuine == {[f \in IdentityField |-> v] : v \in Person}
MCAssetOf == 1 :> usdc
MCOwner == 1 :> acc
MCRates == {usdc :> 15}
MCSymmetry == Permutations(Person)
=============================================================================
