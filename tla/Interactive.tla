---------------------------- MODULE Interactive ----------------------------
(***************************************************************************)
(* The SEP-24 page (internal/interactive/handler.go) between the customers *)
(* of SEP-12 and the withdrawals: the identity step and the withdrawal     *)
(* step are both PUTs of module Customer, one page request among others    *)
(* that read and replace the same record, and the withdrawal step goes on  *)
(* into Start of module WithdrawalService, which reads the customer again. *)
(*                                                                         *)
(* WithdrawalService knows a customer only as "verified" and a bank        *)
(* account, and lets them change at any moment.  CustomerView is what it   *)
(* sees of the real records, and ServiceHolds says that nothing the page   *)
(* does with them falls outside what WithdrawalService allows.             *)
(***************************************************************************)
EXTENDS Customer

CONSTANTS
    Tx, Sep6, Asset, AssetOf, Amounts, Hash, Ref, Proc, Owner, Bank, NoBank,
    Rates, Scale, MinPayout, NoDoc,     \* as in WithdrawalService
    Browser,                            \* requests that post the page; the
                                        \* others are SAP's
    BankField                           \* the bank form's field

ASSUME InteractiveAssumption ==
    /\ Browser \subseteq Request
    /\ BankField \in Field \ IdentityField
    /\ Bank = Valid[BankField]
    /\ NoBank \notin Bank
    /\ Owner \in [Tx -> Account]

VARIABLES sap, store, rate, call        \* as in WithdrawalService

service == <<sap, store, rate, call>>
records == <<customers, issued, request, cleared, deleted>>

\* FindByAccount: the record of an account, when there is one.
RecordsOf(a) == {c \in {customers[i] : i \in Id} \ {NoCustomer} : c.account = a}

\* What the form and create read of the customer.
View(c) ==
    LET accepted == c.status = "ACCEPTED"
    IN  [verified |-> IdentityVerified(c),
         accepted |-> accepted,
         bank     |-> IF accepted /\ c.fields[BankField] # Blank
                      THEN c.fields[BankField] ELSE NoBank]

Nobody == [verified |-> FALSE, accepted |-> FALSE, bank |-> NoBank]

CustomerView ==
    [a \in Account |->
        LET found == RecordsOf(a)
        IN  IF found = {} THEN Nobody
            ELSE View(CHOOSE c \in found : TRUE)]

Service == INSTANCE WithdrawalService WITH
    Forms <- Browser, customer <- CustomerView

\* What Platform and WithdrawalService assume of their constants.
ASSUME StartAssumption ==
    /\ Tx \subseteq Nat \ {Service!NoMemo} /\ Tx # {}
    /\ Sep6 \subseteq Tx
    /\ AssetOf \in [Tx -> Asset]
    /\ Amounts \subseteq Nat /\ Amounts # {}
    /\ Service!NoRef \notin Ref
    /\ Proc \notin Browser
    /\ NoDoc \notin Service!Doc
    /\ \A r \in Rates : DOMAIN r \subseteq Asset /\ \A a \in DOMAIN r : r[a] \in Nat
    /\ Scale \in Nat \ {0}
    /\ MinPayout \in Nat

PageInit == Init /\ Service!ServiceInit
-----------------------------------------------------------------------------
Posting(r) == r \in Browser /\ Service!At(r, "put")
Free(r) == request[r] = Idle /\ Service!At(r, "idle")

\* The fields a form posts; Put takes the customer of the token's account,
\* or creates one.
Posts(r, a, given) ==
    /\ Put(r, given) \/ PutNew(r, a, given)
    /\ request'[r].c.account = a

IdentityForm == {g \in Given : g[BankField] = Blank}
BankForm(bank) == [f \in Field |-> IF f = BankField THEN bank ELSE Blank]

\* GET and PUT /customer, from SAP.
Callback(r) ==
    /\ request[r] = Idle
    /\ \/ Get(r)
       \/ \E given \in Given :
             Put(r, given) \/ \E a \in Account : PutNew(r, a, given)
    /\ UNCHANGED service

\* submitIdentity.  What is shown afterwards changes nothing.
SubmitIdentity(r, t) ==
    /\ Free(r)
    /\ sap[t].status = "incomplete"
    /\ \E given \in IdentityForm : Posts(r, Owner[t], given)
    /\ UNCHANGED service

\* A request that is not in the withdrawal step ends with its save.
SaveOnly(r) ==
    /\ ~Posting(r)
    /\ Save(r)
    /\ UNCHANGED service

\* submitWithdraw looks the transaction and the customer up.
SubmitWithdraw(r, t, amount) ==
    /\ Free(r)
    /\ UNCHANGED records
    /\ Service!FormOpen(r, t, amount)

\* Put of submitWithdraw, which validates and reads the customer again.
PutBank(r, bank) ==
    /\ Posting(r)
    /\ Posts(r, Owner[call[r].tx], BankForm(bank))
    /\ UNCHANGED service

PutBankFails(r) ==
    /\ Posting(r)
    /\ request[r] = Idle
    /\ \E answer \in {"user", "err"} : Service!Return(r, answer)
    /\ UNCHANGED <<records, sap, store, rate>>

SaveBankUnasked(r) ==                                              \* mutant
    /\ Posting(r)
    /\ \/ Saved(r) /\ Service!Goto(r, "get", NoDoc)
       \/ Unsaved(r) /\ Service!Return(r, "err")
    /\ UNCHANGED <<sap, store, rate>>

\* Put saves the record, and submitWithdraw goes by the status it answers.
\* An account that is not ACCEPTED is asked to choose a bank.
SaveBank(r) ==
    /\ Posting(r)
    /\ \/ /\ Saved(r)
          /\ \/ /\ request[r].c.status = "ACCEPTED"
                /\ Service!Goto(r, "get", NoDoc)
             \/ /\ request[r].c.status # "ACCEPTED"
                /\ Service!Return(r, "user")
             \/ Service!Return(r, "err")
       \/ Unsaved(r) /\ Service!Return(r, "err")
    /\ UNCHANGED <<sap, store, rate>>

\* Start, whose create looks the customer up once more.
PageStart(r) == UNCHANGED records /\ Service!StartStep(r)

PageRequest(r) ==
    \/ \E t \in Tx \ Sep6 :
          \/ SubmitIdentity(r, t)
          \/ \E amount \in Amounts : SubmitWithdraw(r, t, amount)
    \/ \E bank \in Bank \cup {Blank} : PutBank(r, bank)
    \/ PutBankFails(r)
    \/ SaveBank(r)
    \/ PageStart(r)

\* One process serves both, and dies as one.
PageRestart == Crash /\ Service!Restart

PageNext ==
    \/ \E r \in Request \ Browser : Callback(r)
    \/ \E r \in Browser : PageRequest(r)
    \/ \E r \in Request : SaveOnly(r) \/ (Verify(r) /\ UNCHANGED service)
    \/ \E i \in Id : Delete(i) /\ UNCHANGED service
    \/ PageRestart
    \/ \E t \in Tx : UNCHANGED records /\ Service!PlatformStep(t)

pageVars == <<records, service>>
PageSpec == PageInit /\ [][PageNext]_pageVars
-----------------------------------------------------------------------------
(* Properties.                                                             *)

\* The page on top of real customer records behaves as WithdrawalService
\* says of a customer that may change at any moment: overlapping PUTs, saves
\* of stale records, deletions and KYC answers between any two steps of Start
\* add nothing to what is checked and proved there.
ServiceHolds == Service!ServiceSpec

\* A withdrawal is priced only for a customer whose identity, as it is at that
\* moment, Dojah has cleared, and for the bank account on the same record
\* (ARCHITECTURE.md:53), though the page looked at the customer several
\* requests ago.
PricedForCleared ==
    [][\A r \in Browser :
          Service!At(r, "create") /\ call'[r].pc = "insert" =>
              \E c \in RecordsOf(Owner[call[r].tx]) :
                  /\ IdentityOf(c) \in cleared
                  /\ call'[r].w.bank = c.fields[BankField]]_pageVars

\* A verified user who gives a bank account on the withdrawal form is not
\* sent back to choose one (README.md:22): it is the only required field that
\* the page still asks for.
BankFormSuffices ==
    [][\A r \in Browser :
          LET c == request[r].c
          IN  /\ Posting(r) /\ request[r] # Idle
              /\ call'[r].res = "user"
              => ~IdentityVerified(c) \/ c.fields[BankField] = Blank]_pageVars
=============================================================================
