------------------------------- MODULE Customer -------------------------------
(***************************************************************************)
(* SEP-12 customers: customer.Service (internal/customer/service.go), its  *)
(* MongoDB store (store.go), with the checks of module Dojah behind it.    *)
(*                                                                         *)
(* GET and PUT read the record, may run KYC, and save the whole record; a  *)
(* request is a goroutine, and other requests run between its read, its    *)
(* KYC calls (up to a minute) and its save.  Any of them may also stop on  *)
(* the way: a read that fails changes nothing and is left out, a save that *)
(* fails is an alternative of Save, and the process may die at any time.   *)
(* The verifier is Dojah, as on mainnet.                                   *)
(***************************************************************************)
EXTENDS Naturals, FiniteSets, Dojah

CONSTANTS
    Account,        \* Stellar accounts (with their memos)
    Id,             \* customer ids, never handed out twice
    Request,        \* HTTP requests, GET or PUT
    Field,          \* the required SEP-9 fields
    IdentityField,  \* those KYC checks
    Value,          \* what fields hold
    Valid,          \* what validate accepts in each field
    Genuine,        \* identities that match a BVN or NIN record
    Blank,          \* a field not given
    NoCustomer,     \* no record in the collection
    NotVerified     \* KYC has decided nothing about this customer yet

ASSUME CustomerAssumption ==
    /\ IdentityField \subseteq Field
    /\ IdentityField # {}
    /\ Genuine \subseteq [IdentityField -> Value]
    /\ Valid \in [Field -> SUBSET Value]
    /\ Blank \notin Value
    /\ NotVerified \notin [IdentityField -> Value \cup {Blank}]

Fields == [Field -> Value \cup {Blank}]
Identity == [IdentityField -> Value]
CustomerStatus == {"", "NEEDS_INFO", "PROCESSING", "ACCEPTED", "REJECTED"}

Record ==
    [account  : Account,
     status   : CustomerStatus,
     fields   : Fields,
     verified : Identity \cup {NotVerified},  \* what KYC last decided about
     pending  : BOOLEAN]                      \* KYC gave no answer

ASSUME RecordAssumption == NoCustomer \notin Record

VARIABLES
    customers,  \* MongoDB's customers collection
    issued,     \* ids handed out so far
    request,    \* what each request is doing
    cleared,    \* identities Dojah has matched and found on no list
    deleted     \* customers deleted over SEP-12

vars == <<customers, issued, request, cleared, deleted>>

\* A request has the record c in hand, under its id.
Idle == [pc |-> "idle"]
Busy == [pc : {"verify", "save"}, id : Id, c : Record]

\* Every record, stored or in a request's hand, has the shape of Customer in
\* store.go; the statuses are those of service.go.
TypeOK ==
    /\ customers \in [Id -> Record \cup {NoCustomer}]
    /\ issued \subseteq Id
    /\ request \in [Request -> Busy \cup {Idle}]
    /\ cleared \subseteq Identity
    /\ deleted \subseteq Id

Init ==
    /\ customers = [i \in Id |-> NoCustomer]
    /\ issued = {}
    /\ request = [r \in Request |-> Idle]
    /\ cleared = {}
    /\ deleted = {}
-----------------------------------------------------------------------------
(* settle.                                                                 *)

IdentityOf(c) == [f \in IdentityField |-> c.fields[f]]
HasAll(c, F) == \A f \in F : c.fields[f] # Blank

IdentityChanged(c) == c.verified # IdentityOf(c)

IdentityVerifiedByStatus(c) ==                                     \* mutant
    ~c.pending /\ c.status \in {"ACCEPTED", "NEEDS_INFO"}

IdentityVerified(c) ==
    /\ ~c.pending
    /\ ~IdentityChanged(c)
    /\ c.status \in {"ACCEPTED", "NEEDS_INFO"}

\* Only a customer with every required field is ACCEPTED.
WhenCompleteSkipped(c) == c                                        \* mutant
WhenComplete(c) ==
    IF c.status = "ACCEPTED" /\ ~HasAll(c, Field)
    THEN [c EXCEPT !.status = "NEEDS_INFO"]
    ELSE c

NeedsKyc(c) == HasAll(c, IdentityField) /\ (IdentityChanged(c) \/ c.pending)

\* settle, when it runs no KYC.
Settle(c) ==
    WhenComplete(
        IF ~HasAll(c, IdentityField)
        THEN [c EXCEPT !.status = "NEEDS_INFO", !.pending = FALSE]
        ELSE IF c.status = "NEEDS_INFO"
             THEN [c EXCEPT !.status = "ACCEPTED"]
             ELSE c)

\* settle, when KYC decides d.
VerifiedAsAnswered(c, d) ==                                        \* mutant
    WhenComplete([c EXCEPT !.status = d, !.pending = (d = "none"),
                           !.verified = IdentityOf(c)])

Verified(c, d) ==
    WhenComplete(
        IF d = "none"
        THEN [c EXCEPT !.status = "PROCESSING", !.pending = TRUE]
        ELSE [c EXCEPT !.status = d, !.pending = FALSE,
                       !.verified = IdentityOf(c)])
-----------------------------------------------------------------------------
(* GET, PUT and DELETE /customer, and the forms of the interactive page,   *)
(* which PUT too.                                                          *)

\* The fields of a PUT that passes validate.
Given == {g \in Fields : \A f \in Field : g[f] \in Valid[f] \cup {Blank}}

\* r goes on with the record c of customer i: to KYC if it must run.
Begin(r, i, c) ==
    request' = [request EXCEPT ![r] =
                   IF NeedsKyc(c) THEN [pc |-> "verify", id |-> i, c |-> c]
                                  ELSE [pc |-> "save", id |-> i, c |-> Settle(c)]]

\* Put keeps what an empty or missing field had.
Merge(c, given) ==
    [c EXCEPT !.fields =
        [f \in Field |-> IF given[f] = Blank THEN c.fields[f] ELSE given[f]]]

NewCustomer(a) ==
    [account |-> a, status |-> "", fields |-> [f \in Field |-> Blank],
     verified |-> NotVerified, pending |-> FALSE]

Get(r) ==
    /\ request[r] = Idle
    /\ \E i \in Id :
          /\ customers[i] # NoCustomer
          /\ customers[i].pending
          /\ Begin(r, i, customers[i])
    /\ UNCHANGED <<customers, issued, cleared, deleted>>

\* Put, of a customer found by id or by account.
Put(r, given) ==
    /\ request[r] = Idle
    /\ \E i \in Id :
          /\ customers[i] # NoCustomer
          /\ Begin(r, i, Merge(customers[i], given))
    /\ UNCHANGED <<customers, issued, cleared, deleted>>

\* Put, for an account without a record.
PutNew(r, a, given) ==
    /\ request[r] = Idle
    /\ \A i \in Id : customers[i] # NoCustomer => customers[i].account # a
    /\ \E i \in Id \ issued :
          /\ issued' = issued \cup {i}
          /\ Begin(r, i, Merge(NewCustomer(a), given))
    /\ UNCHANGED <<customers, cleared, deleted>>

\* The KYC calls of GET or PUT.
Verify(r) ==
    /\ request[r].pc = "verify"
    /\ \E o \in Outcomes :
          LET c == request[r].c
          IN  /\ o.found => IdentityOf(c) \in Genuine
              /\ request' = [request EXCEPT ![r] =
                    [@ EXCEPT !.pc = "save", !.c = Verified(c, o.decision)]]
              /\ cleared' = IF o.found /\ o.clean
                            THEN cleared \cup {IdentityOf(c)} ELSE cleared
    /\ UNCHANGED <<customers, issued, deleted>>

\* Save replaces the record, or inserts it when there is none; the unique
\* index refuses a second record for an account.
Unique(i, c) ==
    \A j \in Id \ {i} :
        customers[j] # NoCustomer => customers[j].account # c.account

Answered(r) ==
    /\ request[r].pc = "save"
    /\ request' = [request EXCEPT ![r] = Idle]
    /\ UNCHANGED <<issued, cleared, deleted>>

Saved(r) ==
    LET i == request[r].id
        c == request[r].c
    IN  /\ Answered(r)
        /\ Unique(i, c)
        /\ customers' = [customers EXCEPT ![i] = c]

Unsaved(r) == Answered(r) /\ UNCHANGED customers

Save(r) == Saved(r) \/ Unsaved(r)

Delete(i) ==
    /\ customers[i] # NoCustomer
    /\ customers' = [customers EXCEPT ![i] = NoCustomer]
    /\ deleted' = deleted \cup {i}
    /\ UNCHANGED <<issued, request, cleared>>

\* The process dies, and the requests with it.
Crash ==
    /\ request' = [r \in Request |-> Idle]
    /\ UNCHANGED <<customers, issued, cleared, deleted>>

Next ==
    \/ \E r \in Request :
          \/ Get(r) \/ Verify(r) \/ Save(r)
          \/ \E given \in Given :
                Put(r, given) \/ \E a \in Account : PutNew(r, a, given)
    \/ \E i \in Id : Delete(i)
    \/ Crash

Spec == Init /\ [][Next]_vars
-----------------------------------------------------------------------------
(* Properties.                                                             *)

\* A customer whose identity counts as verified (they see the withdrawal form
\* and may withdraw) has exactly the identity, as a whole, that Dojah matched
\* and screened: no mix of the fields of two requests, no identity changed
\* after the check, none that was rejected and came back by another way.
VerifiedWasCleared ==
    \A i \in Id :
        customers[i] # NoCustomer /\ IdentityVerified(customers[i]) =>
            IdentityOf(customers[i]) \in cleared

\* A customer on record as ACCEPTED, which is all Service.create asks, has a
\* verified identity and every field a payout needs.
AcceptedIsPayable ==
    \A i \in Id :
        customers[i] # NoCustomer /\ customers[i].status = "ACCEPTED" =>
            IdentityVerified(customers[i]) /\ HasAll(customers[i], Field)

\* A deleted customer is gone for good (customer/service_test.go:264-267).
DeletedStaysDeleted == \A i \in deleted : customers[i] = NoCustomer
=============================================================================
