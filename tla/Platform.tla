------------------------------ MODULE Platform ------------------------------
(***************************************************************************)
(* The Stellar Anchor Platform (SAP), as the Business Server sees it       *)
(* through internal/sap/client.go.  SAP is not part of this repository: it *)
(* owns the transactions, assigns each one its memo, watches the chain and *)
(* moves a transaction between statuses when the Business Server's RPCs,   *)
(* its own chain observer or an operator say so.  The operators below are  *)
(* what SAP does when a call reaches it; whether the call or its answer    *)
(* gets lost is decided by the module that makes the call.                 *)
(*                                                                         *)
(* A transaction is a natural number: SAP lists transactions by creation   *)
(* time, and the numbers are that order.  The memo SAP assigns to t is     *)
(* written t.                                                              *)
(***************************************************************************)
EXTENDS Naturals, FiniteSets

CONSTANTS
    Tx,        \* withdrawals SAP knows of, numbered in creation order
    Sep6,      \* those a wallet opened over SEP-6; the others are SEP-24
    Asset,     \* Stellar assets, supported by the anchor or not
    AssetOf,   \* the asset each withdrawal was opened for
    Amounts,   \* on-chain amounts, in units of 10^-7 (0 is no valid amount)
    Hash,      \* Stellar transaction hashes
    Ref        \* payout references issued by core

NoMemo == 0
NoRef == "noref"

ASSUME PlatformAssumption ==
    /\ Tx \subseteq Nat \ {NoMemo} /\ Tx # {}
    /\ Sep6 \subseteq Tx
    /\ AssetOf \in [Tx -> Asset]
    /\ Amounts \subseteq Nat /\ Amounts # {}
    /\ NoRef \notin Ref

VARIABLE sap     \* SAP's record of each withdrawal

Status ==
    {"incomplete", "pending_user_transfer_start", "pending_anchor",
     "pending_external", "on_hold", "completed", "error", "refunded"}

Open == {"incomplete", "pending_user_transfer_start", "pending_anchor",
         "pending_external"}

\* The fields of sap.Transaction the Business Server reads or sets, and
\* whether an operator settled the withdrawal by hand.
SapTx ==
    [status    : Status,
     memo      : Tx \cup {NoMemo},
     askedIn   : Nat,                  \* amounts of request_onchain_funds
     askedOut  : Nat,
     amountIn  : Nat,                  \* what SAP says it matched
     asset     : Asset,
     stellar   : SUBSET Hash,          \* the Stellar transactions it matched
     ext       : Ref \cup {NoRef},     \* external_transaction_id
     byHand    : BOOLEAN]

PlatformTypeOK == sap \in [Tx -> SapTx]

PlatformInit ==
    sap = [t \in Tx |->
              [status |-> "incomplete", memo |-> NoMemo, askedIn |-> 0,
               askedOut |-> 0, amountIn |-> 0, asset |-> AssetOf[t],
               stellar |-> {}, ext |-> NoRef, byHand |-> FALSE]]

Set(t, r) == sap' = [sap EXCEPT ![t] = r]
-----------------------------------------------------------------------------
(* What the RPCs do when they reach SAP.  SAP refuses a call that the      *)
(* transaction's status does not allow.                                    *)

\* request_onchain_funds: SAP assigns the memo and waits for the payment.
RequestOnchainFunds(t, in, out) ==
    /\ sap[t].status = "incomplete"
    /\ Set(t, [sap[t] EXCEPT !.status = "pending_user_transfer_start",
                             !.memo = t, !.askedIn = in, !.askedOut = out])

\* notify_offchain_funds_pending
NotifyOffchainFundsPending(t, ref) ==
    /\ sap[t].status = "pending_anchor"
    /\ Set(t, [sap[t] EXCEPT !.status = "pending_external", !.ext = ref])

\* notify_offchain_funds_sent
NotifyOffchainFundsSent(t, ref) ==
    /\ sap[t].status \in {"pending_anchor", "pending_external"}
    /\ Set(t, [sap[t] EXCEPT !.status = "completed", !.ext = ref])

\* notify_transaction_error
NotifyTransactionError(t) ==
    /\ sap[t].status \in Open \cup {"on_hold"}
    /\ Set(t, [sap[t] EXCEPT !.status = "error"])

\* notify_transaction_on_hold
NotifyTransactionOnHold(t) ==
    /\ sap[t].status \in {"pending_anchor", "pending_external"}
    /\ Set(t, [sap[t] EXCEPT !.status = "on_hold"])

\* get_transactions: one page, the oldest first.
Oldest(S, n) == {t \in S : Cardinality({u \in S : u < t}) < n}
Transactions(sep, status) == {t \in sep : sap[t].status = status}
-----------------------------------------------------------------------------
(* What SAP and its operators do by themselves.                            *)

\* SAP's chain observer matches a payment to t.  Nothing is assumed of what
\* it matched: the Business Server checks that against the ledger.
PaymentMatched(t) ==
    /\ sap[t].status = "pending_user_transfer_start"
    /\ \E amount \in Amounts, asset \in Asset, S \in SUBSET Hash :
          Set(t, [sap[t] EXCEPT !.status = "pending_anchor",
                                !.amountIn = amount, !.asset = asset,
                                !.stellar = S])

\* An operator settles a withdrawal that is on hold.
OperatorResolves(t) ==
    /\ sap[t].status = "on_hold"
    /\ \E s \in {"completed", "refunded"} :
          Set(t, [sap[t] EXCEPT !.status = s, !.byHand = TRUE])
=============================================================================
