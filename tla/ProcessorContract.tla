-------------------------- MODULE ProcessorContract --------------------------
(***************************************************************************)
(* The form and the processor keep the promises of Lifecycle.  The mapping *)
(* reads each withdrawal off what others see of it: SAP's status (what the *)
(* wallet is shown), the stored record, and core's payout.  Everything in  *)
(* a goroutine's memory is invisible.                                      *)
(***************************************************************************)
EXTENDS Processor

\* SAP's transaction r, the record w and core's payout p of a withdrawal, as
\* the wallet, the user and the bank see them.
StageOf(r) ==
    CASE r.status = "incomplete" -> "opened"
      [] r.status = "pending_user_transfer_start" -> "asked"
      [] r.status = "pending_anchor" -> "funded"
      [] r.status = "pending_external" -> "sending"
      [] r.status = "on_hold" -> "held"
      [] r.status = "error" -> "failed"
      [] r.status = "completed" -> IF r.byHand THEN "settled" ELSE "completed"
      [] r.status = "refunded" -> "refunded"

QuoteOf(w) == IF w = NoDoc THEN <<>> ELSE Quoted(w)

\* What the wallet was told to pay and to expect; the bank account is the
\* user's own.
ToldOf(r, w) ==
    IF r.memo = NoMemo THEN <<>> ELSE <<r.askedIn, r.askedOut, w.bank>>

NairaState(status) ==
    CASE status = "completed" -> "sent" [] status = "failed" -> "bounced" [] OTHER -> "open"

NoNaira == [state |-> "none"]
NairaOf(p, w) ==
    IF p = NoPayout THEN NoNaira
    ELSE [state |-> NairaState(p.status),
          amount |-> IF p.amount = w.amountOut THEN "quoted" ELSE "other",
          bank |-> p.bank]

\* What a rate table r makes of an amount of t's asset, when it accepts it.
OffersOf(t) ==
    UNION {{<<a, Format(Worth(r, AssetOf[t], a), 1), b>> :
               a \in {x \in Amounts :
                        x > 0 /\ AtLeast(Worth(r, AssetOf[t], x), MinPayout, 1)},
               b \in Bank} :
           r \in {x \in Rates : AssetOf[t] \in DOMAIN x}}

Stage == [t \in Tx |-> StageOf(sap[t])]
Quotes == [t \in Tx |-> QuoteOf(store[t])]
Told == [t \in Tx |-> ToldOf(sap[t], store[t])]
Naira == [t \in Tx |-> NairaOf(core[t], store[t])]

Contract == INSTANCE Lifecycle WITH
    stage <- Stage, quote <- Quotes, told <- Told, naira <- Naira,
    Offers <- [t \in Tx |-> OffersOf(t)], NoQuote <- <<>>

\* The form and the processor, with every retry, crash, lost answer and stale
\* copy, do to a withdrawal nothing but what Lifecycle allows.
KeepsPromises == Contract!Spec
=============================================================================
