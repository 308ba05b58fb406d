-------------------------- MODULE WithdrawalService --------------------------
(***************************************************************************)
(* Starting a withdrawal: withdrawal.Service (internal/withdrawal/         *)
(* service.go), the store under it (store.go) and the interactive form     *)
(* that calls it (internal/interactive/handler.go, submitWithdraw).        *)
(*                                                                         *)
(* Start is a sequence of calls to MongoDB, SAP and core; every call is a  *)
(* step, other goroutines run between two of them, and each may fail: not  *)
(* carried out, or carried out with its answer lost.  A caller is a        *)
(* goroutine inside Start: an HTTP request of the SEP-24 form, or the      *)
(* processor for SEP-6 (module Processor).                                 *)
(***************************************************************************)
EXTENDS Platform, Money

CONSTANTS
    Forms,      \* HTTP requests posting the interactive form
    Proc,       \* the processor goroutine
    Account,    \* Stellar accounts of customers
    Owner,      \* the account that created each withdrawal
    Bank,       \* bank accounts naira can be sent to
    NoBank,     \* the customer has given no bank account yet
    Rates,      \* the rate tables the server may be configured with
    Scale,      \* rate units per kobo: out = amount * rate \div Scale
    MinPayout,  \* minimumNGNPayout, in kobo
    NoDoc       \* no document in the withdrawals collection

Caller == Forms \cup {Proc}

\* The withdrawals document.  The first three fields are the quote and where
\* the naira goes; the asset is AssetOf and never changes.
Doc ==
    [amountIn     : Nat,
     amountOut    : Nat,
     bank         : Bank,
     memo         : Tx \cup {NoMemo},
     payoutRef    : Ref \cup {NoRef},
     payoutStatus : {"", "processing", "completed", "failed", "unrecognised"},
     reconcile    : {"", "ok", "mismatch"}]

\* What starting a withdrawal reads of a customer: the form asks for a
\* verified identity, create for the status ACCEPTED and only then for the bank
\* account.  Whoever is ACCEPTED is verified (AcceptedIsPayable of Customer).
Customer ==
    {k \in [verified : BOOLEAN, accepted : BOOLEAN, bank : Bank \cup {NoBank}] :
        /\ k.accepted => k.verified
        /\ ~k.accepted => k.bank = NoBank}

Result == {"none", "ok", "kyc", "user", "err"}

Frame ==
    [pc     : {"idle", "put", "get", "create", "insert", "reget", "request",
               "update"},
     tx     : Tx,
     amount : Amounts,
     w      : Doc \cup {NoDoc},
     res    : Result]

ASSUME ServiceAssumption ==
    /\ Proc \notin Forms
    /\ Owner \in [Tx -> Account]
    /\ NoBank \notin Bank
    /\ NoDoc \notin Doc
    /\ \A r \in Rates : DOMAIN r \subseteq Asset /\ \A a \in DOMAIN r : r[a] \in Nat
    /\ Scale \in Nat \ {0}
    /\ MinPayout \in Nat

VARIABLES
    store,      \* MongoDB's withdrawals collection
    customer,   \* MongoDB's customers collection, by account
    rate,       \* NGN_PER_USDC and NGN_PER_XLM of the running server
    call        \* the state of each caller's Start

serviceVars == <<sap, store, customer, rate, call>>

\* The stored records and those in a caller's hand have the shape of
\* Withdrawal (store.go), with a bank account always given (service.go,
\* create).
ServiceTypeOK ==
    /\ PlatformTypeOK
    /\ store \in [Tx -> Doc \cup {NoDoc}]
    /\ customer \in [Account -> Customer]
    /\ rate \in Rates
    /\ call \in [Caller -> Frame]

Idle(r) ==
    [pc |-> "idle", tx |-> CHOOSE t \in Tx : TRUE,
     amount |-> CHOOSE a \in Amounts : TRUE, w |-> NoDoc, res |-> r]

ServiceInit ==
    /\ PlatformInit
    /\ store = [t \in Tx |-> NoDoc]
    /\ customer \in [Account -> Customer]
    /\ rate \in Rates
    /\ call = [c \in Caller |-> Idle("none")]
-----------------------------------------------------------------------------
At(c, pc) == call[c].pc = pc

\* c goes on to pc with the record w in hand; c leaves Start with result r.
Goto(c, pc, w) == call' = [call EXCEPT ![c] = [@ EXCEPT !.pc = pc, !.w = w]]
Return(c, r) == call' = [call EXCEPT ![c] = Idle(r)]

\* c enters Start for t, with the amount the user or the wallet gave.
Enter(c, pc, t, amount) ==
    call' = [call EXCEPT ![c] = [pc |-> pc, tx |-> t, amount |-> amount,
                                 w |-> NoDoc, res |-> "none"]]

\* Quote, with the rate in force: what an amount is worth, in kobo.  The
\* minimum applies before rounding; the naira amount is rounded down.
Worth(rates, asset, amount) == Fixed(amount * rates[asset], Scale)

QuotableAnyAmount(asset, amount) == asset \in DOMAIN rate /\ amount > 0  \* mutant
Quotable(asset, amount) ==
    /\ asset \in DOMAIN rate
    /\ amount > 0
    /\ AtLeast(Worth(rate, asset, amount), MinPayout, 1)

Payable(asset, amount) == Format(Worth(rate, asset, amount), 1)

BankAssumed(k) == TRUE                                             \* mutant
BankGiven(k) == k.bank # NoBank

\* The record create inserts.
NewDoc(asset, amount, bank) ==
    [amountIn |-> amount, amountOut |-> Payable(asset, amount), bank |-> bank,
     memo |-> NoMemo, payoutRef |-> NoRef, payoutStatus |-> "",
     reconcile |-> ""]

\* Store.Create inserts, and never replaces.
FreeUpsert(t) == TRUE                                              \* mutant
Free(t) == store[t] = NoDoc

\* Store.Update replaces the whole document.
Write(t, w) == store' = [store EXCEPT ![t] = w]
-----------------------------------------------------------------------------
\* session and lookup of submitWithdraw: SAP says the transaction is
\* incomplete and the customer's identity is verified.
FormOpen(c, t, amount) ==
    /\ At(c, "idle")
    /\ sap[t].status = "incomplete"
    /\ customer[Owner[t]].verified
    /\ Enter(c, "put", t, amount)
    /\ UNCHANGED <<sap, store, customer, rate>>

\* Put of submitWithdraw: the customer is read, given the bank account and
\* saved as a whole, and the form goes on only when what was saved is
\* ACCEPTED.  Other requests run between the read and the save, so the save
\* may leave any customer k (module Interactive has the requests).
FormPut(c, k) ==
    LET a == Owner[call[c].tx]
    IN  /\ At(c, "put")
        /\ \/ /\ customer' = [customer EXCEPT ![a] = k]
              /\ \/ k.accepted /\ Goto(c, "get", NoDoc)
                 \/ ~k.accepted /\ Return(c, "user")
                 \/ Return(c, "err")
           \/ UNCHANGED customer /\ \E r \in {"user", "err"} : Return(c, r)
        /\ UNCHANGED <<sap, store, rate>>

StartGetOnce(c) ==                                                 \* mutant
    /\ At(c, "get")
    /\ \/ IF store[call[c].tx] = NoDoc
          THEN Goto(c, "create", NoDoc)
          ELSE Return(c, "ok")
       \/ Return(c, "err")
    /\ UNCHANGED <<sap, store, customer, rate>>

\* Start reads the store.  Both callers hold a snapshot of the transaction
\* whose status is incomplete, so the check of the status there passes.
StartGet(c) ==
    /\ At(c, "get")
    /\ \/ IF store[call[c].tx] = NoDoc
          THEN Goto(c, "create", NoDoc)
          ELSE Goto(c, "request", store[call[c].tx])
       \/ Return(c, "err")
    /\ UNCHANGED <<sap, store, customer, rate>>

\* create: look the customer up, ask for the bank account, price the
\* withdrawal, resolve the bank account with core.  Core may reject the bank
\* account, and a lookup or a call may fail.
StartCreate(c) ==
    LET t == call[c].tx
        k == customer[Owner[t]]
        amount == call[c].amount
    IN  /\ At(c, "create")
        /\ \/ ~k.accepted /\ Return(c, "kyc")
           \/ /\ k.accepted
              /\ BankGiven(k)
              /\ Quotable(AssetOf[t], amount)
              /\ Goto(c, "insert", NewDoc(AssetOf[t], amount, k.bank))
           \/ k.accepted /\ Return(c, "user")  \* no bank, no quote, bank rejected
           \/ Return(c, "err")
        /\ UNCHANGED <<sap, store, customer, rate>>

\* create: Store.Create.  When the record exists already, the first one wins.
StartInsertOwnQuote(c) ==                                          \* mutant
    /\ At(c, "insert")
    /\ IF Free(call[c].tx) THEN Write(call[c].tx, call[c].w) ELSE UNCHANGED store
    /\ Goto(c, "request", call[c].w)
    /\ UNCHANGED <<sap, customer, rate>>

StartInsert(c) ==
    LET t == call[c].tx
    IN  /\ At(c, "insert")
        /\ \/ Free(t) /\ Write(t, call[c].w) /\ Goto(c, "request", call[c].w)
           \/ Free(t) /\ Write(t, call[c].w) /\ Return(c, "err")
           \/ ~Free(t) /\ Goto(c, "reget", NoDoc) /\ UNCHANGED store
           \/ Return(c, "err") /\ UNCHANGED store
        /\ UNCHANGED <<sap, customer, rate>>

StartReget(c) ==
    /\ At(c, "reget")
    /\ \/ Goto(c, "request", store[call[c].tx])
       \/ Return(c, "err")
    /\ UNCHANGED <<sap, store, customer, rate>>

\* Start asks SAP for the on-chain payment.  Only a caller that gets SAP's
\* answer learns the memo.
StartRequestIgnoresError(c) ==                                     \* mutant
    /\ At(c, "request")
    /\ \/ RequestOnchainFunds(call[c].tx, call[c].w.amountIn, call[c].w.amountOut)
       \/ UNCHANGED sap
    /\ Goto(c, "update", [call[c].w EXCEPT !.memo = call[c].tx])
    /\ UNCHANGED <<store, customer, rate>>

StartRequest(c) ==
    LET t == call[c].tx
        w == call[c].w
    IN  /\ At(c, "request")
        /\ \/ /\ RequestOnchainFunds(t, w.amountIn, w.amountOut)
              /\ \/ Goto(c, "update", [w EXCEPT !.memo = t])
                 \/ Return(c, "err")
           \/ UNCHANGED sap /\ Return(c, "err")
        /\ UNCHANGED <<store, customer, rate>>

\* Start saves the memo: the record in hand replaces the stored one.
StartUpdate(c) ==
    /\ At(c, "update")
    /\ \/ Write(call[c].tx, call[c].w) /\ Return(c, "ok")
       \/ Write(call[c].tx, call[c].w) /\ Return(c, "err")
       \/ UNCHANGED store /\ Return(c, "err")
    /\ UNCHANGED <<sap, customer, rate>>

StartStep(c) ==
    \/ StartGet(c)
    \/ StartCreate(c)
    \/ StartInsert(c)
    \/ StartReget(c)
    \/ StartRequest(c)
    \/ StartUpdate(c)

FormStep(c) ==
    \/ \E t \in Tx \ Sep6, amount \in Amounts : FormOpen(c, t, amount)
    \/ \E k \in Customer : FormPut(c, k)
    \/ StartStep(c)

\* The customer changes over SEP-12 at any time, in any way: new details, a
\* KYC decision, deletion.
CustomerChanges(a) ==
    /\ UNCHANGED <<sap, store, rate, call>>
    /\ customer' \in [Account -> Customer]
    /\ \A b \in Account \ {a} : customer'[b] = customer[b]

\* The process dies and comes back, maybe with other rates.  All calls in
\* flight are gone, and only their effects remain.
Restart ==
    /\ rate' \in Rates
    /\ call' = [c \in Caller |-> Idle("none")]
    /\ UNCHANGED <<sap, store, customer>>

PlatformStep(t) ==
    /\ PaymentMatched(t) \/ OperatorResolves(t)
    /\ UNCHANGED <<store, customer, rate, call>>

ServiceNext ==
    \/ \E a \in Account : CustomerChanges(a)
    \/ \E c \in Forms : FormStep(c)
    \/ Restart
    \/ \E t \in Tx : PlatformStep(t)

ServiceSpec == ServiceInit /\ [][ServiceNext]_serviceVars
-----------------------------------------------------------------------------
(* Properties.                                                             *)

Quoted(w) == <<w.amountIn, w.amountOut, w.bank>>

\* The amounts the user is told to pay and will receive, which SAP holds, are
\* those of the stored record, whichever of several concurrent or repeated
\* submissions (with different amounts, or at different rates) got through.
QuoteAgreement ==
    \A t \in Tx :
        sap[t].status # "incomplete" /\ sap[t].askedIn # 0 =>
            /\ store[t] # NoDoc
            /\ sap[t].askedIn = store[t].amountIn
            /\ sap[t].askedOut = store[t].amountOut

\* No withdrawal is recorded that pays out less than the minimum, though the
\* minimum is compared with the exact amount and the naira is rounded after.
AboveMinimum == \A t \in Tx : store[t] # NoDoc => store[t].amountOut >= MinPayout

\* The first recorded quote wins (service.go, create): no later submission,
\* restart or stale write changes a recorded amount or bank account.
QuoteIsFinal ==
    [][\A t \in Tx :
          store[t] # NoDoc =>
              store'[t] # NoDoc /\ Quoted(store'[t]) = Quoted(store[t])]_serviceVars

\* The form tells the user to go and pay only when SAP is waiting for the
\* payment and the record carries the memo the payment must have.
StartedIsRecorded ==
    [][\A c \in Forms :
          call[c].res # "ok" /\ call'[c].res = "ok" =>
              LET t == call[c].tx
              IN  /\ sap[t].status # "incomplete"
                  /\ store'[t].memo = sap[t].memo
                  /\ store'[t].amountIn = sap[t].askedIn]_serviceVars
=============================================================================
