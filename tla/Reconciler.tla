------------------------------ MODULE Reconciler ------------------------------
(***************************************************************************)
(* The reconciler (internal/withdrawal/reconcile.go), a goroutine next to  *)
(* the processor and the form requests.  Each tick it walks the completed  *)
(* withdrawals of SAP page by page, compares SAP, the ledger and core for  *)
(* those not compared yet, and saves the result on the record.  The second *)
(* half of the tick, the scan of incoming payments, is module Incoming.    *)
(***************************************************************************)
EXTENDS Processor

CONSTANT MaxPages     \* maxReconcilePages

ASSUME ReconcilerAssumption == MaxPages \in Nat \ {0}

VARIABLES
    sep,       \* the protocol being listed
    page,      \* the page of it
    full,      \* the page listed was full
    todo,      \* the withdrawals of the page not yet handled
    rstep,     \* what the goroutine does next
    rcur,      \* the withdrawal being handled
    rdoc,      \* its record, in the goroutine's memory
    compared,  \* the withdrawals compared with the ledger and core so far
    reported   \* those an alert of a mismatch was raised about

rvolatile == <<sep, page, full, todo, rstep, rcur, rdoc>>
history == <<compared, reported>>
rvars == <<vars, rvolatile, history>>

\* The walk (Tick) stays within its page budget, and the record in hand has
\* the shape of Withdrawal in store.go.
ReconcilerTypeOK ==
    /\ TypeOK
    /\ sep \in {"24", "6"}
    /\ page \in 0 .. MaxPages - 1
    /\ full \in BOOLEAN
    /\ todo \subseteq Tx
    /\ rstep \in {"list", "next", "get", "compare", "alert", "save"}
    /\ rcur \in Tx
    /\ rdoc \in Doc \cup {NoDoc}
    /\ compared \subseteq Tx
    /\ reported \subseteq Tx

RInit ==
    /\ Init
    /\ sep = "24" /\ page = 0 /\ full = FALSE /\ todo = {}
    /\ rstep = "list" /\ rcur = AnyTx /\ rdoc = NoDoc
    /\ compared = {}
    /\ reported = {}
-----------------------------------------------------------------------------
(* Tick.                                                                   *)

Completed(p) == Transactions(IF p = "6" THEN Sep6 ELSE Sep24, "completed")
PageNoOffset(n) == Oldest(Completed(sep), PageSize)                \* mutant
Page(n) ==
    LET first(k) == Oldest(Completed(sep), k * PageSize)
    IN  first(n + 1) \ first(n)
OtherSep == IF sep = "6" THEN "24" ELSE "6"

RList ==
    /\ rstep = "list"
    /\ todo' = Page(page)
    /\ full' = (Cardinality(todo') = PageSize)
    /\ rstep' = "next"
    /\ UNCHANGED <<sep, page, rcur, rdoc, history, vars>>

\* A list that fails ends the walk of this protocol.
RListFails ==
    /\ rstep = "list"
    /\ sep' = OtherSep /\ page' = 0
    /\ UNCHANGED <<full, todo, rstep, rcur, rdoc, history, vars>>

RTake ==
    \E t \in todo :
        /\ rstep = "next"
        /\ \A u \in todo : t <= u
        /\ todo' = todo \ {t}
        /\ rcur' = t
        /\ rstep' = "get"
        /\ UNCHANGED <<sep, page, full, rdoc, history, vars>>

RNextPageOneMore ==                                                \* mutant
    /\ rstep = "next"
    /\ todo = {}
    /\ rstep' = "list"
    /\ IF full /\ page < MaxPages
       THEN page' = page + 1 /\ UNCHANGED sep
       ELSE page' = 0 /\ sep' = OtherSep
    /\ UNCHANGED <<full, todo, rcur, rdoc, history, vars>>

\* After a full page comes the next one, up to maxReconcilePages.
RNextPage ==
    /\ rstep = "next"
    /\ todo = {}
    /\ rstep' = "list"
    /\ IF full /\ page + 1 < MaxPages
       THEN page' = page + 1 /\ UNCHANGED sep
       ELSE page' = 0 /\ sep' = OtherSep
    /\ UNCHANGED <<full, todo, rcur, rdoc, history, vars>>
-----------------------------------------------------------------------------
(* checkCompleted.                                                         *)

RDone == rstep' = "next" /\ rcur' = AnyTx /\ rdoc' = NoDoc
RProceed(s, w) == rstep' = s /\ rdoc' = w /\ UNCHANGED rcur

Report(t) == reported' = reported \cup {t}

\* A withdrawal compared before, or held by the processor, is skipped.
RGet ==
    LET w == store[rcur]
    IN  /\ rstep = "get"
        /\ IF w = NoDoc
           THEN Report(rcur) /\ RDone
           ELSE /\ UNCHANGED reported
                /\ IF w.reconcile # "" THEN RDone ELSE RProceed("compare", w)
        /\ UNCHANGED <<sep, page, full, todo, compared, vars>>

\* compare finds nothing wrong: SAP, the ledger and core agree with w.
ConsistentWithoutCore(t, w) ==                                     \* mutant
    FundsMatch(t, w) /\ sap[t].askedOut = w.amountOut

Consistent(t, w) ==
    /\ FundsMatch(t, w)
    /\ sap[t].askedOut = w.amountOut
    /\ core[t] # NoPayout
    /\ core[t].status = "completed"
    /\ core[t].amount = w.amountOut
    /\ core[t].ref = sap[t].ext

\* The calls of compare are one step: what they read of a completed
\* withdrawal does not change, but for payments still to appear on the
\* ledger and payouts still to settle, and nothing here waits for either.
\* Core may answer that it has no payout, which is a mismatch too.
RCompareSavesFirst ==                                              \* mutant
    /\ rstep = "compare"
    /\ compared' = compared \cup {rcur}
    /\ IF Consistent(rcur, rdoc)
       THEN RProceed("save", [rdoc EXCEPT !.reconcile = "ok"]) /\ UNCHANGED store
       ELSE /\ RProceed("alert", [rdoc EXCEPT !.reconcile = "mismatch"])
            /\ Write(rcur, [rdoc EXCEPT !.reconcile = "mismatch"])
    /\ UNCHANGED <<sep, page, full, todo, reported>>
    /\ UNCHANGED <<sap, customer, rate, call, outside, volatile>>

RCompare ==
    /\ rstep = "compare"
    /\ compared' = compared \cup {rcur}
    /\ \/ Consistent(rcur, rdoc) /\ RProceed("save", [rdoc EXCEPT !.reconcile = "ok"])
       \/ RProceed("alert", [rdoc EXCEPT !.reconcile = "mismatch"])
    /\ UNCHANGED <<sep, page, full, todo, reported, vars>>

RAlert ==
    /\ rstep = "alert"
    /\ Report(rcur)
    /\ RProceed("save", rdoc)
    /\ UNCHANGED <<sep, page, full, todo, compared, vars>>

RSave ==
    /\ rstep = "save"
    /\ Write(rcur, rdoc)
    /\ RDone
    /\ UNCHANGED <<sep, page, full, todo, history>>
    /\ UNCHANGED <<sap, customer, rate, call, outside, volatile>>

RCallFails ==
    /\ rstep \in {"get", "compare", "save"}
    /\ RDone
    /\ UNCHANGED <<sep, page, full, todo, history, vars>>

RAnswered == RList \/ RTake \/ RNextPage \/ RGet \/ RCompare \/ RAlert \/ RSave

ReconcilerStep == RAnswered \/ RListFails \/ RCallFails
-----------------------------------------------------------------------------
(* The whole server.                                                       *)

\* The process dies, and this goroutine with it.
RCrash ==
    /\ Crash
    /\ sep' = "24" /\ page' = 0 /\ full' = FALSE /\ todo' = {}
    /\ rstep' = "list" /\ rcur' = AnyTx /\ rdoc' = NoDoc
    /\ UNCHANGED history

RNext ==
    \/ ReconcilerStep
    \/ RCrash
    \/ /\ \/ ServiceStep
          \/ ProcessorStep
          \/ \E t \in Tx : CoreUpdates(t)
          \/ \E h \in Hash : LedgerCloses(h)
       /\ UNCHANGED <<rvolatile, history>>

RSpec == RInit /\ [][RNext]_rvars

\* As in Processor: this goroutine is scheduled, and outages end.
RCalm == (UNCHANGED <<rvolatile, history>> /\ Calm) \/ RAnswered

RFairness == WF_rvars(ReconcilerStep) /\ <>[][RCalm]_rvars

RLiveSpec == RSpec /\ RFairness
-----------------------------------------------------------------------------
(* Properties.                                                             *)

\* "ok" on a record is still true later: the payment is on the ledger, and
\* core paid what SAP shows, although the comparison ran while the processor,
\* core and the ledger went on.
OkMeansConsistent ==
    \A t \in Tx :
        store[t] # NoDoc /\ store[t].reconcile = "ok" =>
            /\ sap[t].status = "completed"
            /\ sap[t].stellar \subseteq onLedger
            /\ Received(t) = sap[t].askedIn
            /\ core[t] # NoPayout
            /\ core[t].status = "completed"
            /\ core[t].amount = sap[t].askedOut
            /\ core[t].ref = sap[t].ext

\* A mismatch the reconciler recorded was reported, whatever crash or failed
\* call came in between (docs/ARCHITECTURE.md:73).
RecordedIsReported ==
    \A t \in compared :
        store[t].reconcile = "mismatch" => t \in reported

\* The same of every mismatch on a completed withdrawal: someone heard of it,
\* from the processor or from the reconciler.
MismatchAlerted ==
    \A t \in Tx :
        /\ sap[t].status = "completed"
        /\ store[t] # NoDoc /\ store[t].reconcile = "mismatch"
        => t \in reported \/ <<t, "hold">> \in alerts

\* Those the walk gets to: past maxReconcilePages pages nothing is listed.
OnPages(t) ==
    \E p \in {"24", "6"} : t \in Oldest(Completed(p), MaxPages * PageSize)

\* A completed withdrawal on the pages walked ends up with a result (the whole
\* of docs/ARCHITECTURE.md:67 says so of every one), unless older ones complete
\* in the meantime and push it off the pages.  A result that a form's late save
\* takes back is made good.
Reconciled ==
    \A t \in Tx :
        OnPages(t) ~> ~OnPages(t) \/ (store[t] # NoDoc /\ store[t].reconcile # "")
=============================================================================
