------------------------------ MODULE Processor ------------------------------
(***************************************************************************)
(* The processor (internal/withdrawal/processor.go): one goroutine that    *)
(* polls SAP and moves withdrawals along: starts SEP-6 withdrawals, checks *)
(* the on-chain payment and pays the naira out, and follows the payout.    *)
(* It runs next to the form requests of WithdrawalService, shares SAP and  *)
(* the store with them, and calls core and Horizon, which are external.    *)
(*                                                                         *)
(* Every remote call is a step.  CallFails is a call that was not carried  *)
(* out; a call whose action has the parameter answered may also be carried *)
(* out with its answer lost.  Either way the handler returns the error,    *)
(* the processor logs it and goes on to the next withdrawal.               *)
(***************************************************************************)
EXTENDS WithdrawalService, FiniteSetsExt

CONSTANTS
    Expected,    \* the amount the wallet gave with each SEP-6 withdrawal, or 0
    PageSize,    \* withdrawals per list call (50)
    Ledger,      \* what each Stellar transaction holds
    OddAmounts,  \* amounts core may pay instead of the one asked for
    NoPayout     \* core has no payout for the withdrawal

\* Horizon's transaction: did it succeed, its memo, and what its payments to
\* the distribution account add up to in each asset.
LedgerTx ==
    [successful : BOOLEAN, memo : Tx \cup {NoMemo}, paid : [Asset -> Nat]]

PayoutStatus == {"processing", "completed", "failed", "unrecognised"}

\* Core's payout; error says that its error text is not empty, which is only
\* looked at while the payout is processed.
Payout ==
    [status : PayoutStatus, amount : Nat, bank : Bank,
     ref : Ref, error : BOOLEAN]

ASSUME ProcessorAssumption ==
    /\ Expected \in [Sep6 -> Amounts]
    /\ PageSize \in Nat \ {0}
    /\ Ledger \in [Hash -> LedgerTx]
    /\ OddAmounts \subseteq Nat
    /\ NoPayout \notin Payout

Phase == {"start6", "pay24", "check24", "pay6", "check6"}

Step ==
    {"list", "next", "start", "load", "funds", "pay", "savePaid",
     "notifyPending", "query", "saveChecked", "notifySent", "saveHold",
     "alertHold", "notifyHold", "saveFail", "alertFail", "notifyError"}

VARIABLES
    core,       \* core's payouts
    onLedger,   \* the Stellar transactions the ledger has so far
    alerts,     \* alerts raised, by withdrawal and kind
    phase,      \* which of the five lists of Tick is being worked on
    queue,      \* the listed withdrawals not yet handled
    step,       \* what the handler does next
    cur,        \* the withdrawal being handled
    doc,        \* its record, in the handler's memory
    unclear     \* core's last answer carried an error text

outside == <<core, onLedger, alerts>>
volatile == <<phase, queue, step, cur, doc, unclear>>
vars == <<serviceVars, outside, volatile>>

\* The processor's record and queue, core's payouts and the shared state have
\* the shapes of Withdrawal (store.go), Payout (payout/client.go) and
\* Transaction (sap/client.go).
TypeOK ==
    /\ ServiceTypeOK
    /\ core \in [Tx -> Payout \cup {NoPayout}]
    /\ onLedger \subseteq Hash
    /\ alerts \subseteq Tx \X {"hold", "fail"}
    /\ phase \in Phase
    /\ queue \subseteq Tx
    /\ step \in Step
    /\ cur \in Tx
    /\ doc \in Doc \cup {NoDoc}
    /\ unclear \in BOOLEAN

AnyTx == CHOOSE t \in Tx : TRUE

Init ==
    /\ ServiceInit
    /\ core = [t \in Tx |-> NoPayout]
    /\ onLedger = {}
    /\ alerts = {}
    /\ phase = "start6"
    /\ queue = {}
    /\ step = "list"
    /\ cur = AnyTx
    /\ doc = NoDoc
    /\ unclear = FALSE
-----------------------------------------------------------------------------
(* Tick and each.                                                          *)

Sep24 == Tx \ Sep6

Listed ==
    CASE phase = "start6"  -> Transactions(Sep6, "incomplete")
      [] phase = "pay24"   -> Transactions(Sep24, "pending_anchor")
      [] phase = "check24" -> Transactions(Sep24, "pending_external")
      [] phase = "pay6"    -> Transactions(Sep6, "pending_anchor")
      [] phase = "check6"  -> Transactions(Sep6, "pending_external")

NextPhase ==
    CASE phase = "start6"  -> "pay24"
      [] phase = "pay24"   -> "check24"
      [] phase = "check24" -> "pay6"
      [] phase = "pay6"    -> "check6"
      [] phase = "check6"  -> "start6"

\* The handler goes on to s with record d in hand.
Proceed(s, d) ==
    /\ step' = s
    /\ doc' = d
    /\ UNCHANGED <<phase, queue, cur, unclear>>

\* The handler returns.
Done ==
    /\ step' = "next"
    /\ cur' = AnyTx
    /\ doc' = NoDoc
    /\ unclear' = FALSE
    /\ UNCHANGED <<phase, queue>>

\* each: list the first page of the phase.
List ==
    /\ step = "list"
    /\ queue' = Oldest(Listed, PageSize)
    /\ step' = "next"
    /\ UNCHANGED <<phase, cur, doc, unclear, call, serviceVars, outside>>

\* each: take the next withdrawal of the page.  The fields the handlers read
\* from the listed transaction do not change in SAP while it is in the phase's
\* status or later, so the queue keeps only which transaction it is.
Take ==
    \E t \in queue :
        /\ step = "next"
        /\ \A u \in queue : t <= u
        /\ queue' = queue \ {t}
        /\ cur' = t
        /\ IF phase = "start6" /\ Expected[t] # 0
           THEN step' = "start" /\ Enter(Proc, "get", t, Expected[t])
           ELSE /\ step' = IF phase = "start6" THEN "notifyError" ELSE "load"
                /\ UNCHANGED call
        /\ UNCHANGED <<phase, doc, unclear, sap, store, customer, rate, outside>>

\* The page is done.
NextList ==
    /\ step = "next"
    /\ queue = {}
    /\ phase' = NextPhase
    /\ step' = "list"
    /\ UNCHANGED <<queue, cur, doc, unclear, serviceVars, outside>>

\* startSep6: what follows Start.  A withdrawal that waits for KYC stays as
\* it is, a user's mistake ends it, any other error is tried again.
Started ==
    /\ step = "start"
    /\ At(Proc, "idle")
    /\ IF call[Proc].res = "user" THEN Proceed("notifyError", NoDoc) ELSE Done
    /\ Return(Proc, "none")
    /\ UNCHANGED <<sap, store, customer, rate, outside>>
-----------------------------------------------------------------------------
(* hold and fail.                                                          *)

HoldAlertsOnce(d) ==                                               \* mutant
    IF d = NoDoc
    THEN Proceed("alertHold", d)
    ELSE IF d.reconcile = "mismatch"
         THEN Proceed("notifyHold", d)
         ELSE Proceed("saveHold", [d EXCEPT !.reconcile = "mismatch"])
Hold(d) ==
    IF d = NoDoc
    THEN Proceed("alertHold", d)
    ELSE Proceed("saveHold", [d EXCEPT !.reconcile = "mismatch"])

FailRejected(d) ==                                                 \* mutant
    Proceed("saveFail", [d EXCEPT !.payoutStatus = "rejected"])
Fail(d) == Proceed("saveFail", [d EXCEPT !.payoutStatus = "failed"])

Alert(kind) ==
    /\ step = IF kind = "hold" THEN "alertHold" ELSE "alertFail"
    /\ alerts' = alerts \cup {<<cur, kind>>}
    /\ Proceed(IF kind = "hold" THEN "notifyHold" ELSE "notifyError", doc)
    /\ UNCHANGED <<serviceVars, core, onLedger>>

NotifyHoldGoesOn ==                                                \* mutant
    /\ step = "notifyHold"
    /\ NotifyTransactionOnHold(cur)
    /\ IF doc = NoDoc THEN Done ELSE Proceed("pay", doc)
    /\ UNCHANGED <<store, customer, rate, call, outside>>

\* Both end the handler, whether the answer arrives or not.
NotifyHold ==
    /\ step = "notifyHold"
    /\ NotifyTransactionOnHold(cur)
    /\ Done
    /\ UNCHANGED <<store, customer, rate, call, outside>>

NotifyError ==
    /\ step = "notifyError"
    /\ NotifyTransactionError(cur)
    /\ Done
    /\ UNCHANGED <<store, customer, rate, call, outside>>
-----------------------------------------------------------------------------
(* payOut and checkPayout.                                                 *)

Checking == phase \in {"check24", "check6"}

Load ==
    LET w == store[cur]
    IN  /\ step = "load"
        /\ IF Checking
           THEN IF w = NoDoc THEN Done ELSE Proceed("query", w)
           ELSE IF w = NoDoc THEN Hold(w) ELSE Proceed("funds", w)
        /\ UNCHANGED <<serviceVars, outside>>

\* checkFunds: what SAP matched is what was asked for, and the ledger agrees.
\* The memo is only compared when the record has one.
PaidIn(asset, S) == MapThenSumSet(LAMBDA h : Ledger[h].paid[asset], S)
Received(t) == PaidIn(AssetOf[t], sap[t].stellar)

SettledOrFailed(h, w) ==                                           \* mutant
    h \in onLedger /\ (w.memo # NoMemo => Ledger[h].memo = w.memo)

Settled(h, w) ==
    /\ h \in onLedger
    /\ Ledger[h].successful
    /\ w.memo # NoMemo => Ledger[h].memo = w.memo

FundsMatch(t, w) ==
    /\ sap[t].amountIn = w.amountIn
    /\ sap[t].asset = AssetOf[t]
    /\ sap[t].stellar # {}
    /\ \A h \in sap[t].stellar : Settled(h, w)
    /\ Received(t) = w.amountIn

CheckFunds ==
    /\ step = "funds"
    /\ IF FundsMatch(cur, doc) THEN Proceed("pay", doc) ELSE Hold(doc)
    /\ UNCHANGED <<serviceVars, outside>>

PayRequestCurrentBank(t, w) ==                                     \* mutant
    LET bank == customer[Owner[t]].bank
    IN  [amount |-> w.amountOut, bank |-> IF bank = NoBank THEN w.bank ELSE bank]

\* What payOut asks of core.
PayRequest(t, w) == [amount |-> w.amountOut, bank |-> w.bank]

\* core.Pay keeps one payout per transaction: a new request q creates it, a
\* repeated one gets the same payout back.
NewPayout(t, q) ==
    /\ core[t] = NoPayout
    /\ \E p \in [status : PayoutStatus, amount : {q.amount} \cup OddAmounts,
                 bank : {q.bank}, ref : Ref, error : BOOLEAN] :
          /\ p.error => p.status = "processing"
          /\ core' = [core EXCEPT ![t] = p]

PayAnswerAdopted(p) ==                                             \* mutant
    /\ step' = "savePaid"
    /\ doc' = [doc EXCEPT !.payoutRef = p.ref, !.payoutStatus = p.status,
                          !.amountOut = p.amount]
    /\ unclear' = p.error
    /\ UNCHANGED <<phase, queue, cur>>

PayAnswerUnsaved(p) ==                                             \* mutant
    IF p.amount # doc.amountOut
    THEN Hold(doc)
    ELSE /\ step' = "notifyPending"
         /\ doc' = [doc EXCEPT !.payoutRef = p.ref, !.payoutStatus = p.status]
         /\ unclear' = p.error
         /\ UNCHANGED <<phase, queue, cur>>

PayAnswerUnchecked(p) ==                                           \* mutant
    /\ step' = "savePaid"
    /\ doc' = [doc EXCEPT !.payoutRef = p.ref, !.payoutStatus = p.status]
    /\ unclear' = p.error
    /\ UNCHANGED <<phase, queue, cur>>

\* What payOut makes of the answer p.
PayAnswer(p) ==
    IF p.amount # doc.amountOut
    THEN Hold(doc)
    ELSE /\ step' = "savePaid"
         /\ doc' = [doc EXCEPT !.payoutRef = p.ref, !.payoutStatus = p.status]
         /\ unclear' = p.error
         /\ UNCHANGED <<phase, queue, cur>>

Pay(answered) ==
    /\ step = "pay"
    /\ \/ NewPayout(cur, PayRequest(cur, doc))
       \/ core[cur] # NoPayout /\ UNCHANGED core
    /\ IF answered THEN PayAnswer(core'[cur]) ELSE Done
    /\ UNCHANGED <<serviceVars, onLedger, alerts>>

\* Core refuses the request outright; it never refuses one it has accepted.
PayRejected ==
    /\ step = "pay"
    /\ core[cur] = NoPayout
    /\ Fail(doc)
    /\ UNCHANGED <<serviceVars, outside>>

GetAnswerKeepsRef(p) ==                                            \* mutant
    /\ step' = "saveChecked"
    /\ doc' = [doc EXCEPT !.payoutStatus = p.status]
    /\ unclear' = p.error
    /\ UNCHANGED <<phase, queue, cur>>

GetAnswerUnsaved(p) ==                                             \* mutant
    /\ step' = IF p.status = "completed" THEN "notifySent" ELSE "saveChecked"
    /\ doc' = [doc EXCEPT !.payoutRef = p.ref, !.payoutStatus = p.status]
    /\ unclear' = p.error
    /\ UNCHANGED <<phase, queue, cur>>

\* What checkPayout makes of the answer p.
GetAnswer(p) ==
    /\ step' = "saveChecked"
    /\ doc' = [doc EXCEPT !.payoutRef = p.ref, !.payoutStatus = p.status]
    /\ unclear' = p.error
    /\ UNCHANGED <<phase, queue, cur>>

\* core.Get in checkPayout.  Core may answer that it has no payout, though it
\* accepted one.
Query ==
    /\ step = "query"
    /\ \/ core[cur] # NoPayout /\ GetAnswer(core[cur])
       \/ Hold(doc)
    /\ UNCHANGED <<serviceVars, outside>>

\* unknownOutcome: only a person can tell whether the naira went out.
UnknownOutcome == doc.payoutStatus = "processing" /\ unclear

\* What follows the save of core's answer, in payOut and in checkPayout.
AfterPaid ==
    CASE UnknownOutcome -> Hold(doc)
      [] ~UnknownOutcome /\ doc.payoutStatus \in {"completed", "processing"} ->
            Proceed("notifyPending", doc)
      [] doc.payoutStatus = "failed" -> Fail(doc)
      [] OTHER -> Done

AfterCheckedNoFailure ==                                           \* mutant
    CASE UnknownOutcome -> Hold(doc)
      [] doc.payoutStatus = "completed" -> Proceed("notifySent", doc)
      [] OTHER -> Done

AfterCheckedTooEarly ==                                            \* mutant
    CASE UnknownOutcome -> Hold(doc)
      [] ~UnknownOutcome /\ doc.payoutStatus \in {"completed", "processing"} ->
            Proceed("notifySent", doc)
      [] doc.payoutStatus = "failed" -> Fail(doc)
      [] OTHER -> Done

AfterChecked ==
    CASE UnknownOutcome -> Hold(doc)
      [] doc.payoutStatus = "completed" -> Proceed("notifySent", doc)
      [] doc.payoutStatus = "failed" -> Fail(doc)
      [] OTHER -> Done

\* Store.Update by the handler, which then goes on.
Save(answered) ==
    /\ \/ step = "savePaid" /\ (IF answered THEN AfterPaid ELSE Done)
       \/ step = "saveChecked" /\ (IF answered THEN AfterChecked ELSE Done)
       \/ step = "saveHold" /\ (IF answered THEN Proceed("alertHold", doc) ELSE Done)
       \/ step = "saveFail" /\ (IF answered THEN Proceed("alertFail", doc) ELSE Done)
    /\ Write(cur, doc)
    /\ UNCHANGED <<sap, customer, rate, call, outside>>

NotifyPending(answered) ==
    /\ step = "notifyPending"
    /\ NotifyOffchainFundsPending(cur, doc.payoutRef)
    /\ IF answered /\ doc.payoutStatus = "completed"
       THEN Proceed("notifySent", doc)
       ELSE Done
    /\ UNCHANGED <<store, customer, rate, call, outside>>

\* complete
NotifySent ==
    /\ step = "notifySent"
    /\ NotifyOffchainFundsSent(cur, doc.payoutRef)
    /\ Done
    /\ UNCHANGED <<store, customer, rate, call, outside>>

CallFailsAsRejected ==                                             \* mutant
    /\ step \notin {"next", "start", "alertHold", "alertFail"}
    /\ IF step = "pay" THEN Fail(doc) ELSE Done
    /\ UNCHANGED <<serviceVars, outside>>

\* A call is not carried out, or SAP refuses it.
CallFails ==
    /\ step \notin {"next", "start", "alertHold", "alertFail"}
    /\ Done
    /\ UNCHANGED <<serviceVars, outside>>

ProcessorStep ==
    \/ List \/ Take \/ NextList \/ Started
    \/ Load \/ CheckFunds \/ PayRejected \/ Query
    \/ NotifyHold \/ NotifyError \/ NotifySent
    \/ \E kind \in {"hold", "fail"} : Alert(kind)
    \/ \E answered \in BOOLEAN :
          Pay(answered) \/ Save(answered) \/ NotifyPending(answered)
    \/ CallFails
-----------------------------------------------------------------------------
(* Core, the ledger and the process itself.                                *)

\* Core works on a payout that is neither completed nor failed: its status,
\* its reference and its error text may come, change and go.
CoreUpdates(t) ==
    /\ core[t] # NoPayout
    /\ core[t].status \notin {"completed", "failed"}
    /\ \E s \in PayoutStatus, r \in Ref, e \in BOOLEAN :
          /\ e => s = "processing"
          /\ core' = [core EXCEPT ![t] = [@ EXCEPT !.status = s, !.ref = r, !.error = e]]
    /\ UNCHANGED <<serviceVars, volatile, onLedger, alerts>>

CoreSettles(t) ==
    CoreUpdates(t) /\ core'[t].status \in {"completed", "failed"}

LedgerCloses(h) ==
    /\ h \notin onLedger
    /\ onLedger' = onLedger \cup {h}
    /\ UNCHANGED <<serviceVars, volatile, core, alerts>>

\* The whole process dies: the handler's memory is gone too.
Crash ==
    /\ Restart
    /\ phase' = "start6" /\ queue' = {} /\ step' = "list"
    /\ cur' = AnyTx /\ doc' = NoDoc /\ unclear' = FALSE
    /\ UNCHANGED outside

ServiceStep ==
    /\ \/ \E a \in Account : CustomerChanges(a)
       \/ \E c \in Forms : FormStep(c)
       \/ StartStep(Proc)
       \/ \E t \in Tx : PlatformStep(t)
    /\ UNCHANGED <<outside, volatile>>

Next ==
    \/ ServiceStep
    \/ ProcessorStep
    \/ \E t \in Tx : CoreUpdates(t)
    \/ \E h \in Hash : LedgerCloses(h)
    \/ Crash

Spec == Init /\ [][Next]_vars

\* Liveness needs the process to be scheduled, core to settle its payouts in
\* the end, and outages to end: from some point on no call fails and the
\* process does not die.  Each tick tries again whatever failed before, so
\* nothing is assumed about when, or how often, calls fail until then.
Answered ==
    \/ List \/ Take \/ NextList \/ Started
    \/ Load \/ CheckFunds \/ PayRejected \/ Query
    \/ NotifyHold \/ NotifyError \/ NotifySent
    \/ \E kind \in {"hold", "fail"} : Alert(kind)
    \/ Pay(TRUE) \/ Save(TRUE) \/ NotifyPending(TRUE)

Calm ==
    \/ ServiceStep /\ call'[Proc].res # "err"
    \/ Answered
    \/ \E t \in Tx : CoreUpdates(t)
    \/ \E h \in Hash : LedgerCloses(h)

ProcessorRuns ==
    \/ ProcessorStep
    \/ StartStep(Proc) /\ UNCHANGED <<outside, volatile>>

Fairness ==
    /\ WF_vars(ProcessorRuns)
    /\ \A t \in Tx : WF_vars(CoreSettles(t))

LiveSpec == Spec /\ Fairness /\ <>[][Calm]_vars
-----------------------------------------------------------------------------
(* Properties.                                                             *)

\* Naira goes out only for a withdrawal whose payment is on the ledger: what
\* SAP matched exists, succeeded, and adds up to the amount on record.
PaidOnlyIfFunded ==
    \A t \in Tx :
        core[t] # NoPayout =>
            /\ store[t] # NoDoc
            /\ sap[t].stellar # {}
            /\ \A h \in sap[t].stellar : h \in onLedger /\ Ledger[h].successful
            /\ Received(t) = store[t].amountIn

\* The naira goes to the bank account on record, whatever the customer
\* changed since.
PaidWhereRecorded ==
    \A t \in Tx :
        core[t] # NoPayout =>
            store[t] # NoDoc /\ core[t].bank = store[t].bank

\* SAP tells the wallet a withdrawal is completed (and nobody settled it by
\* hand) only when core has paid exactly the naira the user was promised, and
\* the reference SAP shows is core's.
CompletedAsPromised ==
    \A t \in Tx :
        sap[t].status = "completed" /\ ~sap[t].byHand =>
            /\ core[t] # NoPayout
            /\ core[t].status = "completed"
            /\ core[t].amount = sap[t].askedOut
            /\ core[t].ref = sap[t].ext

\* A withdrawal that ends in error keeps the user's money for a refund: no
\* naira went out, and none can.
ErrorOnlyIfUnpaid ==
    \A t \in Tx :
        sap[t].status = "error" =>
            (core[t] = NoPayout \/ core[t].status = "failed")

\* A withdrawal is put on hold, or failed after the user was asked to pay,
\* only once someone was alerted: a crash or a lost call between the two
\* leaves an alert without a hold, never a hold without an alert.
NoSilentEnd ==
    \A t \in Tx :
        /\ sap[t].status = "on_hold" => <<t, "hold">> \in alerts
        /\ sap[t].status = "error" /\ sap[t].memo # NoMemo => <<t, "fail">> \in alerts

\* A new payout is only ever made for a withdrawal SAP has as pending_anchor:
\* never for one on hold, ended, refunded or completed by hand.  payOut does
\* not read SAP again; it rests on the processor being the only one to move a
\* pending_anchor withdrawal, and on operators keeping to those on hold.
PaysOnlyPending ==
    [][\A t \in Tx :
          core[t] = NoPayout /\ core'[t] # NoPayout =>
              sap[t].status = "pending_anchor"]_vars

\* A withdrawal the anchor completed has core's reference and outcome on
\* record (withdrawal_test.go:130).
PayoutRecorded ==
    \A t \in Tx :
        sap[t].status = "completed" /\ ~sap[t].byHand =>
            /\ store[t].payoutStatus = "completed"
            /\ store[t].payoutRef = sap[t].ext

\* What the record of a completed withdrawal says of the payout is core's last
\* answer, the one SAP was told of, or nothing at all: a stale save may lose
\* the outcome (service.go:164), but none brings back an earlier answer of core
\* or leaves half of one.
OutcomeNeverStale ==
    \A t \in Tx :
        sap[t].status = "completed" /\ ~sap[t].byHand =>
            <<store[t].payoutStatus, store[t].payoutRef>> \in
                {<<"completed", sap[t].ext>>, <<"", NoRef>>}

\* A withdrawal whose payment SAP matched does not stay there: it is
\* completed, ends in error or is put on hold for a person.
FundedResolves ==
    \A t \in Tx :
        sap[t].status = "pending_anchor" ~>
            sap[t].status \in {"completed", "error", "on_hold", "refunded"}

\* A SEP-6 withdrawal of a customer who has passed KYC is started, or ends in
\* error (README.md:26).
Sep6Starts ==
    \A t \in Sep6 :
        <>[]customer[Owner[t]].accepted => <>(sap[t].status # "incomplete")

\* The on-chain payment carries the memo SAP assigned to the withdrawal: with
\* any other, nothing is paid (docs/ARCHITECTURE.md:65).
MemoCheckedBeforePaying ==
    \A t \in Tx :
        core[t] # NoPayout => \A h \in sap[t].stellar : Ledger[h].memo = sap[t].memo
=============================================================================
