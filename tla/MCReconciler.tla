----------------------------- MODULE MCReconciler -----------------------------
(* Three SEP-24 withdrawals, a page that holds one and a walk of two pages. *)
(* Two of them come with a history, in one of two states the server can be  *)
(* in: everything the goroutines do from there on is explored.              *)
EXTENDS Reconciler, TLC

CONSTANTS usdc, acc, b1, good, f1

MCAssetOf == [t \in Tx |-> usdc]
MCOwner == [t \in Tx |-> acc]
MCRates == {usdc :> 10}
MCExpected == [t \in Sep6 |-> 20]
MCLedger == [h \in Hash |-> [successful |-> TRUE, memo |-> 1, paid |-> usdc :> 20]]

\* SAP and the record of a started withdrawal, as Start leaves them.
Asked(t) ==
    [status |-> "pending_user_transfer_start", memo |-> t, askedIn |-> 20,
     askedOut |-> 20, amountIn |-> 0, asset |-> usdc, stellar |-> {},
     ext |-> NoRef, byHand |-> FALSE]
Recorded(t) ==
    [amountIn |-> 20, amountOut |-> 20, bank |-> b1, memo |-> t,
     payoutRef |-> NoRef, payoutStatus |-> "", reconcile |-> ""]

\* SAP reported 2 and 3 paid without naming the payment, the processor held
\* them, and an operator settled them as s.
Held(t, s) == [Asked(t) EXCEPT !.status = s, !.amountIn = 20, !.byHand = TRUE]

\* 1 has just been opened; 2 and 3 were refunded, their mismatch on record.
Early ==
    /\ sap = [t \in Tx |->
                 IF t = 1 THEN [Asked(t) EXCEPT !.status = "incomplete", !.memo = NoMemo,
                                                !.askedIn = 0, !.askedOut = 0]
                 ELSE Held(t, "refunded")]
    /\ store = [t \in Tx |-> IF t = 1 THEN NoDoc
                             ELSE [Recorded(t) EXCEPT !.reconcile = "mismatch"]]
    /\ core = [t \in Tx |-> NoPayout]
    /\ onLedger = {}

\* Core has paid 1 out, and the processor is about to learn it; 2 and 3 were
\* completed by hand, and the late saves of their forms took the mismatch back.
Late ==
    /\ sap = [t \in Tx |->
                 IF t = 1 THEN [Asked(t) EXCEPT !.status = "pending_external", !.amountIn = 20,
                                                !.stellar = {good}, !.ext = "r"]
                 ELSE Held(t, "completed")]
    /\ store = [t \in Tx |->
                   IF t = 1 THEN [Recorded(t) EXCEPT !.payoutRef = "r",
                                                     !.payoutStatus = "processing"]
                   ELSE Recorded(t)]
    /\ core = [t \in Tx |->
                  IF t = 1 THEN [status |-> "completed", amount |-> 20, bank |-> b1,
                                 ref |-> "r", error |-> FALSE]
                  ELSE NoPayout]
    /\ onLedger = {good}

MCInit ==
    /\ Early \/ Late
    /\ alerts = {<<2, "hold">>, <<3, "hold">>}
    /\ customer = [a \in Account |-> [verified |-> TRUE, accepted |-> TRUE, bank |-> b1]]
    /\ rate \in Rates
    /\ call = [c \in Caller |-> Idle("none")]
    /\ phase = "start6" /\ queue = {} /\ step = "list"
    /\ cur = AnyTx /\ doc = NoDoc /\ unclear = FALSE
    /\ sep = "24" /\ page = 0 /\ full = FALSE /\ todo = {}
    /\ rstep = "list" /\ rcur = AnyTx /\ rdoc = NoDoc
    /\ compared = {}
    /\ reported = {}

\* The reconciler reads no customer: what SEP-12 changes is left out.
MCNext == RNext /\ UNCHANGED customer

MCLiveSpec == MCInit /\ [][MCNext]_rvars /\ RFairness
=============================================================================
