------------------------------ MODULE Lifecycle ------------------------------
(***************************************************************************)
(* What the anchor promises about every withdrawal, whoever does the work: *)
(* one quote, taken from a rate table of the anchor, which the wallet is   *)
(* told and which never changes; naira only for a withdrawal that is       *)
(* funded and not yet ended, once, to the quoted bank account; "completed" *)
(* only when exactly the quoted naira arrived, "failed" only when none     *)
(* did and none will.  It says nothing of requests, ticks, saved copies,   *)
(* retries, crashes or lost answers: ProcessorContract shows that the form *)
(* and the processor together keep these promises through all of them.     *)
(***************************************************************************)
EXTENDS Naturals

CONSTANTS
    Tx,          \* withdrawals
    Bank,        \* bank accounts
    Offers,      \* the quotes <<in, out, bank>> the anchor may make for each
    NoQuote,     \* not priced yet
    NoNaira      \* no payout was ever asked for

\* The naira of a withdrawal: on its way, arrived or bounced; the quoted
\* amount, or another; where it goes.
Naira == [state : {"open", "sent", "bounced"}, amount : {"quoted", "other"}, bank : Bank]

VARIABLES
    stage,       \* how far each withdrawal is
    quote,       \* its quote
    told,        \* what the wallet was told of the quote
    naira        \* what became of the naira

vars == <<stage, quote, told, naira>>

Init ==
    /\ stage = [t \in Tx |-> "opened"]
    /\ quote = [t \in Tx |-> NoQuote]
    /\ told = [t \in Tx |-> NoQuote]
    /\ naira = [t \in Tx |-> NoNaira]

\* t goes from one stage to another, and nothing else happens.
Reach(t, s) == stage' = [stage EXCEPT ![t] = s]
Go(t, from, to) ==
    stage[t] \in from /\ Reach(t, to) /\ UNCHANGED <<quote, told, naira>>

\* The first quote is the only one.
Price(t) ==
    /\ quote[t] = NoQuote
    /\ \E q \in Offers[t] : quote' = [quote EXCEPT ![t] = q]
    /\ UNCHANGED <<stage, told, naira>>

\* The wallet is told what to pay, and what arrives for it.
Ask(t) ==
    /\ stage[t] = "opened"
    /\ quote[t] # NoQuote
    /\ Reach(t, "asked")
    /\ told' = [told EXCEPT ![t] = quote[t]]
    /\ UNCHANGED <<quote, naira>>

Fund(t) == Go(t, {"asked"}, "funded")

\* Core may answer with an amount that was not asked for.
Send(t) ==
    /\ stage[t] = "funded"
    /\ naira[t] = NoNaira
    /\ \E n \in Naira :
          n.bank = quote[t][3] /\ naira' = [naira EXCEPT ![t] = n]
    /\ UNCHANGED <<stage, quote, told>>

Settle(t) ==
    /\ naira[t] # NoNaira
    /\ naira[t].state = "open"
    /\ \E s \in {"sent", "bounced"} : naira' = [naira EXCEPT ![t].state = s]
    /\ UNCHANGED <<stage, quote, told>>

\* The naira is on its way, or there, exactly as quoted.
Exact(t) == naira[t] # NoNaira /\ naira[t].amount = "quoted"

Announce(t) == Go(t, {"funded"}, "sending") /\ Exact(t)

Complete(t) ==
    /\ Go(t, {"sending"}, "completed")
    /\ Exact(t)
    /\ naira[t].state = "sent"

\* At any time but while the user pays, and only if the naira is not out.
Fail(t) ==
    /\ Go(t, {"opened", "funded", "sending"}, "failed")
    /\ naira[t] # NoNaira => naira[t].state = "bounced"

Hold(t) == Go(t, {"funded", "sending"}, "held")

\* A person looked at it.
Resolve(t) == \E s \in {"settled", "refunded"} : Go(t, {"held"}, s)

Next ==
    \E t \in Tx :
        \/ Price(t) \/ Ask(t) \/ Fund(t)
        \/ Send(t) \/ Settle(t) \/ Announce(t)
        \/ Complete(t) \/ Fail(t) \/ Hold(t) \/ Resolve(t)

Spec == Init /\ [][Next]_vars
=============================================================================
