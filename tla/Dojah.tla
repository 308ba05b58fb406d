-------------------------------- MODULE Dojah --------------------------------
(***************************************************************************)
(* KYC: what internal/kyc/dojah.go makes of Dojah's answers.  An identity  *)
(* check (of a BVN, where Dojah compares, or a NIN, where verifyNIN does)  *)
(* is followed by a screening of the name, and each call may be refused,   *)
(* fail, or answer less than was asked.                                    *)
(*                                                                         *)
(* main.go takes Dojah on mainnet only.  Elsewhere it takes kyc.Testnet,   *)
(* which accepts everyone unasked and is not modelled: what is said of     *)
(* cleared identities is said of mainnet.                                  *)
(***************************************************************************)

\* How an HTTP call ends.  A body that does not parse counts as "other".
Http == {"200", "404", "400 not found", "other", "no answer"}

\* A field of the BVN or NIN record against the customer's: a flag of
\* Dojah's answer, or a comparison of normalised names or of dates.  A date
\* that is missing, or of no known layout, is "absent".
Flag == {"yes", "no", "absent"}

Answer ==
    [check     : Http, first : Flag, last : Flag, dob : Flag,
     screening : Http, match : {"no match", "confirmed match", "other"}]

\* do: both forms of "not found" are answers, anything else but 200 is not.
Do(http) ==
    CASE http = "200" -> "ok"
      [] http \in {"404", "400 not found"} -> "not found"
      [] OTHER -> "error"

\* verifyBVN, verifyNIN.
NamesMatchEither(a) == a.first = "yes" \/ a.last = "yes"           \* mutant
NamesMatch(a) == a.first = "yes" /\ a.last = "yes"

Check(a) ==
    CASE Do(a.check) = "error" -> "none"
      [] Do(a.check) = "not found" -> "REJECTED"
      [] Do(a.check) = "ok" /\ (~NamesMatch(a) \/ a.dob = "no") -> "REJECTED"
      [] OTHER -> "ACCEPTED"

\* screen: "not found" makes no sense here, and decides nothing.
Screen(a) ==
    CASE Do(a.screening) # "ok" -> "none"
      [] Do(a.screening) = "ok" /\ a.match = "no match" -> "ACCEPTED"
      [] Do(a.screening) = "ok" /\ a.match = "confirmed match" -> "REJECTED"
      [] OTHER -> "PROCESSING"

\* Verify: "none" is an error, for which the caller tries again later.
Decision(a) == IF Check(a) = "ACCEPTED" THEN Screen(a) ELSE Check(a)
-----------------------------------------------------------------------------
\* What Dojah said, whatever the code makes of it: the record exists and has
\* these names and no other date of birth, and the name is on no list.
Found(a) ==
    /\ a.check = "200" /\ a.first = "yes" /\ a.last = "yes" /\ a.dob # "no"

Clean(a) == a.screening = "200" /\ a.match = "no match"

\* What an answer can lead to.
Outcomes ==
    {[decision |-> Decision(a), found |-> Found(a), clean |-> Clean(a)] :
        a \in Answer}
=============================================================================
