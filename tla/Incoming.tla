------------------------------- MODULE Incoming -------------------------------
(***************************************************************************)
(* The scan of incoming payments (reconcile.go, checkIncoming), next to    *)
(* the forms that start withdrawals.  The scan walks the operations Horizon*)
(* lists for the distribution account, oldest first, from a cursor kept in *)
(* MongoDB, and alerts on a payment whose memo is on no withdrawal record. *)
(***************************************************************************)
EXTENDS WithdrawalService, Sequences

CONSTANTS
    Operation,     \* operations on the distribution account's payments list
    Memo,          \* the memo of each one's transaction; NoMemo: it has none
    Incoming,      \* the plain payments to the account from another one
    Limit,         \* operations per Horizon page (200)
    MaxScanPages   \* maxReconcilePages

ASSUME IncomingAssumption ==
    /\ Memo \in [Operation -> Nat]
    /\ Incoming \subseteq Operation
    /\ Limit \in Nat \ {0} /\ MaxScanPages \in Nat \ {0}

VARIABLES
    ledger,    \* the operations so far, in the ledger's order
    cursor,    \* reconcile_state: how many of them were scanned
    scan,      \* what the scan does next
    pos,       \* how many operations the running scan has passed
    upto,      \* where the fetched page ends
    scanPage,  \* pages done by the running scan
    flagged    \* the operations an alert was raised about

scanVars == <<scan, pos, upto, scanPage>>
incomingVars == <<serviceVars, ledger, cursor, scanVars, flagged>>

\* The scan (checkIncoming) stays inside the page it fetched and within its
\* page budget, and the saved cursor within the ledger.
IncomingTypeOK ==
    /\ ServiceTypeOK
    /\ ledger \in Seq(Operation)
    /\ cursor \in 0 .. Len(ledger)
    /\ scan \in {"cursor", "fetch", "look", "save"}
    /\ pos \in 0 .. upto
    /\ upto \in 0 .. Len(ledger)
    /\ scanPage \in 0 .. MaxScanPages - 1
    /\ flagged \subseteq Operation

IncomingInit ==
    /\ ServiceInit
    /\ ledger = <<>>
    /\ cursor = 0
    /\ scan = "cursor" /\ pos = 0 /\ upto = 0 /\ scanPage = 0
    /\ flagged = {}
-----------------------------------------------------------------------------

\* The scan is over, until the next tick.
ScanDone == scan' = "cursor" /\ pos' = 0 /\ upto' = 0 /\ scanPage' = 0

ScanCursor ==
    /\ scan = "cursor"
    /\ scan' = "fetch" /\ pos' = cursor /\ upto' = cursor
    /\ UNCHANGED <<scanPage, cursor, flagged, ledger, serviceVars>>

PageEnd == IF pos + Limit < Len(ledger) THEN pos + Limit ELSE Len(ledger)

ScanFetchSaves ==                                                  \* mutant
    /\ scan = "fetch"
    /\ cursor' = PageEnd
    /\ IF PageEnd = pos
       THEN ScanDone
       ELSE scan' = "look" /\ upto' = PageEnd /\ UNCHANGED <<pos, scanPage>>
    /\ UNCHANGED <<flagged, ledger, serviceVars>>

\* IncomingPayments.  A page that leaves the cursor where it was is empty,
\* and ends the scan.
ScanFetch ==
    /\ scan = "fetch"
    /\ IF PageEnd = pos
       THEN ScanDone
       ELSE scan' = "look" /\ upto' = PageEnd /\ UNCHANGED <<pos, scanPage>>
    /\ UNCHANGED <<cursor, flagged, ledger, serviceVars>>

\* IncomingPayments keeps the plain payments to the account, of all Horizon
\* lists for it, and the scan skips those the account sent to itself.
Counted(o) == o \in Incoming

\* FindByStellarMemo
Recorded(memo) == \E t \in Tx : store[t] # NoDoc /\ store[t].memo = memo

Unmatched(o) == Memo[o] = NoMemo \/ ~Recorded(Memo[o])

Flag(o) == flagged' = flagged \cup {o}

ScanLookStops ==                                                   \* mutant
    LET o == ledger[pos + 1]
    IN  /\ scan = "look"
        /\ IF Counted(o) /\ Unmatched(o)
           THEN Flag(o) /\ ScanDone
           ELSE /\ UNCHANGED flagged
                /\ pos' = pos + 1
                /\ scan' = IF pos + 1 = upto THEN "save" ELSE "look"
                /\ UNCHANGED <<upto, scanPage>>
        /\ UNCHANGED <<cursor, ledger, serviceVars>>

ScanLook ==
    LET o == ledger[pos + 1]
    IN  /\ scan = "look"
        /\ IF Counted(o) /\ Unmatched(o) THEN Flag(o) ELSE UNCHANGED flagged
        /\ pos' = pos + 1
        /\ scan' = IF pos + 1 = upto THEN "save" ELSE "look"
        /\ UNCHANGED <<upto, scanPage, cursor, ledger, serviceVars>>

ScanSaveOneMore(answered) ==                                       \* mutant
    /\ scan = "save"
    /\ cursor' = upto
    /\ IF answered /\ scanPage < MaxScanPages
       THEN scan' = "fetch" /\ scanPage' = scanPage + 1 /\ UNCHANGED <<pos, upto>>
       ELSE ScanDone
    /\ UNCHANGED <<flagged, ledger, serviceVars>>

\* SetCursor; when its answer is lost the scan ends.
ScanSave(answered) ==
    /\ scan = "save"
    /\ cursor' = upto
    /\ IF answered /\ scanPage + 1 < MaxScanPages
       THEN scan' = "fetch" /\ scanPage' = scanPage + 1 /\ UNCHANGED <<pos, upto>>
       ELSE ScanDone
    /\ UNCHANGED <<flagged, ledger, serviceVars>>

\* A call to MongoDB or Horizon fails.
ScanFails ==
    /\ scan \in {"fetch", "look", "save"}
    /\ ScanDone
    /\ UNCHANGED <<cursor, flagged, ledger, serviceVars>>

ScanAnswered == ScanCursor \/ ScanFetch \/ ScanLook \/ ScanSave(TRUE)
ScanStep == ScanAnswered \/ ScanSave(FALSE) \/ ScanFails

\* An operation reaches the ledger.  One that carries the memo of a
\* withdrawal comes after SAP gave the memo out.
Arrive(o) ==
    /\ \A i \in 1 .. Len(ledger) : ledger[i] # o
    /\ Memo[o] \in Tx => sap[Memo[o]].memo = Memo[o]
    /\ ledger' = Append(ledger, o)
    /\ UNCHANGED <<cursor, scanVars, flagged, serviceVars>>

IncomingCrash == Restart /\ ScanDone /\ UNCHANGED <<ledger, cursor, flagged>>

ServiceRuns ==
    /\ \/ \E c \in Forms : FormStep(c)
       \/ \E a \in Account : CustomerChanges(a)
       \/ \E t \in Tx : PlatformStep(t)
    /\ UNCHANGED <<ledger, cursor, scanVars, flagged>>

IncomingNext ==
    \/ ScanStep
    \/ ServiceRuns
    \/ IncomingCrash
    \/ \E o \in Operation : Arrive(o)

IncomingSpec == IncomingInit /\ [][IncomingNext]_incomingVars

\* The scan is scheduled, and from some point on no call of it fails and the
\* process does not die.
ScanCalm == ScanAnswered \/ ServiceRuns \/ \E o \in Operation : Arrive(o)

IncomingLiveSpec ==
    /\ IncomingSpec
    /\ WF_incomingVars(ScanStep)
    /\ <>[][ScanCalm]_incomingVars
-----------------------------------------------------------------------------
(* Properties.                                                             *)

\* A payment to the distribution account that no withdrawal explains.
Stray(o) == o \in Incoming /\ Memo[o] \notin Tx

\* The saved cursor never passes a stray payment nobody was alerted to,
\* wherever the scan is interrupted (docs/ARCHITECTURE.md:73).
NoStrayPassed ==
    \A i \in 1 .. cursor : Stray(ledger[i]) => ledger[i] \in flagged

\* Every stray payment is reported in the end (reconcile.go, checkIncoming).
StrayReported ==
    \A o \in Operation :
        Stray(o) => [](o \in {ledger[i] : i \in 1 .. Len(ledger)} => <>(o \in flagged))
=============================================================================
