------------------------------ MODULE MCCustomer ------------------------------
(* One account, two requests, two people's identities of two fields each,  *)
(* and a bank account.                                                     *)
EXTENDS Customer, TLC

CONSTANTS acc, r1, r2, v1, v2, b1

Person == {v1, v2}
MCValid == [f \in Field |-> IF f = "bank" THEN {b1} ELSE Person]
MCGenuine == {[f \in IdentityField |-> v] : v \in Person}
MCSymmetry == Permutations(Request) \cup Permutations(Person)
=============================================================================
