-------------------------- MODULE InteractiveProofs --------------------------
(***************************************************************************)
(* The page on top of the customer records implements WithdrawalService,   *)
(* for any number of accounts, requests, withdrawals and fields, so what   *)
(* is proved of WithdrawalService, where a customer may change in any way  *)
(* at any moment, holds of the real records.                               *)
(*                                                                         *)
(* A save is the one step to look at: it must change what is seen of one   *)
(* account only, and when it is the save of the withdrawal form, of the    *)
(* account that owns the withdrawal, which goes on exactly when what was   *)
(* saved can be paid.                                                      *)
(***************************************************************************)
EXTENDS Interactive, CustomerProofs

\* An id belongs to one account for ever, whoever has a copy of its record.
IdInv ==
    /\ \A i \in Id : customers[i] # NoCustomer => i \in issued
    /\ \A r \in Request : request[r] # Idle =>
          /\ request[r].id \in issued
          /\ customers[request[r].id] # NoCustomer =>
                customers[request[r].id].account = request[r].c.account
          /\ \A q \in Request : request[q] # Idle /\ request[q].id = request[r].id =>
                request[q].c.account = request[r].c.account

\* The bank account of a record passed validate.
ValidBank(c) == c.fields[BankField] \in Bank \cup {Blank}

\* settle accepts whoever is verified and has given everything.
Complete(c) == IdentityVerified(c) /\ HasAll(c, Field) => c.status = "ACCEPTED"

GivenInv ==
    /\ \A i \in Id : customers[i] # NoCustomer => ValidBank(customers[i])
    /\ \A r \in Request :
          /\ request[r] # Idle => ValidBank(request[r].c)
          /\ request[r].pc = "save" => Complete(request[r].c)

\* A browser runs no PUT but in the two forms, and in the withdrawal form
\* only on the record of the owner; a form still at work has told nothing.
FrameFields == {"pc", "tx", "amount", "w", "res"}

PostInv ==
    /\ DOMAIN call = Service!Caller
    /\ \A c \in Service!Caller :
          /\ DOMAIN call[c] = FrameFields
          /\ call[c].pc # "idle" => call[c].tx \in Tx /\ call[c].res = "none"
    /\ \A r \in Browser : request[r] # Idle =>
          /\ call[r].pc \in {"idle", "put"}
          /\ call[r].pc = "put" => request[r].c.account = Owner[call[r].tx]

PageInv == Inv /\ IdInv /\ GivenInv /\ PostInv
-----------------------------------------------------------------------------
(* What a record tells.                                                    *)

\* A request that is not idle has a record in hand.
LEMMA Working ==
  ASSUME TypeOK, NEW r \in Request
  PROVE  /\ request[r] # Idle =>
               /\ request[r].pc \in {"verify", "save"}
               /\ request[r].id \in Id /\ request[r].c \in Record
         /\ request[r].pc \in {"verify", "save"} => request[r] # Idle
  BY DEF TypeOK, Busy, Idle

\* The withdrawal service sees a customer in every record.
LEMMA ViewType ==
  ASSUME NEW c \in Record, ValidBank(c), Settled(c)
  PROVE  View(c) \in Service!Customer
<1>1. View(c).bank \in Bank \cup {NoBank}
  BY DEF View, ValidBank
<1>2. IdentityVerified(c) \in BOOLEAN
  BY DEF IdentityVerified
<1>3. c.status = "ACCEPTED" => IdentityVerified(c)
  BY DEF Settled
<1>4. QED
  BY <1>1, <1>2, <1>3 DEF View, Service!Customer

ViewInv == CustomerView \in [Account -> Service!Customer]

LEMMA CustomerViewType == PageInv => ViewInv
<1> SUFFICES ASSUME PageInv, NEW a \in Account, RecordsOf(a) # {}
             PROVE  View(CHOOSE c \in RecordsOf(a) : TRUE) \in Service!Customer
  BY DEF ViewInv, CustomerView, Nobody, Service!Customer
<1> DEFINE c == CHOOSE x \in RecordsOf(a) : TRUE
<1>1. c \in RecordsOf(a)
  OBVIOUS
<1>2. c \in Record /\ ValidBank(c) /\ Settled(c)
  BY <1>1 DEF RecordsOf, PageInv, Inv, TypeOK, GivenInv, StoredInv
<1>3. QED
  BY <1>2, ViewType

\* A saved record is all that is seen of its account, and nothing else is
\* seen differently.
LEMMA SavedView ==
  ASSUME TypeOK, IdInv, NEW r \in Request, Saved(r)
  PROVE  CustomerView' = [CustomerView EXCEPT ![request[r].c.account] = View(request[r].c)]
<1>1. PICK i \in Id, c \in Record, a \in Account :
           /\ i = request[r].id /\ c = request[r].c /\ a = c.account
           /\ request[r] # Idle
           /\ customers' = [customers EXCEPT ![i] = c]
           /\ Unique(i, c)
           /\ customers[i] # NoCustomer => customers[i].account = a
  <2>1. request[r] # Idle /\ request[r].id \in Id /\ request[r].c \in Record
    BY Working DEF Saved, Answered
  <2>2. request[r].c.account \in Account
    BY <2>1 DEF Record
  <2>3. QED
    BY <2>1, <2>2 DEF Saved, IdInv
<1>2. \A j \in Id : customers'[j] = IF j = i THEN c ELSE customers[j]
  BY <1>1 DEF TypeOK
<1>3. c # NoCustomer
  BY RecordAssumption
<1>4. RecordsOf(a)' = {c}
  BY <1>1, <1>2, <1>3 DEF RecordsOf, Unique
<1>5. ASSUME NEW b \in Account, b # a
      PROVE  RecordsOf(b)' = RecordsOf(b)
  BY <1>1, <1>2, <1>3, <1>5 DEF RecordsOf
<1>6. ASSUME NEW b \in Account
      PROVE  CustomerView'[b] = IF b = a THEN View(c) ELSE CustomerView[b]
  <2>1. CASE b = a
    <3>1. CustomerView'[b] = View(CHOOSE x \in {c} : TRUE)
      BY <1>4, <2>1 DEF CustomerView
    <3>2. QED
      BY <3>1, <2>1
  <2>2. CASE b # a
    <3> DEFINE Seen(S) == IF S = {} THEN Nobody
                          ELSE View(CHOOSE x \in S : TRUE)
    <3>1. CustomerView[b] = Seen(RecordsOf(b))
      BY DEF CustomerView
    <3>2. CustomerView'[b] = Seen(RecordsOf(b)')
      BY DEF CustomerView
    <3> HIDE DEF Seen
    <3>3. QED
      BY <1>5, <2>2, <3>1, <3>2
  <2>3. QED
    BY <2>1, <2>2
<1>7. CustomerView' = [b \in Account |-> IF b = a THEN View(c) ELSE CustomerView[b]]
  BY <1>6 DEF CustomerView
<1>8. QED
  BY <1>1, <1>7 DEF CustomerView
-----------------------------------------------------------------------------
(* What the PUTs do to a record.                                           *)

\* settle and KYC leave account and fields alone, and accept whatever is
\* complete.
LEMMA CompletingAll ==
  ASSUME NEW c \in Record, c.status = "NEEDS_INFO" => ~HasAll(c, Field)
  PROVE  /\ WhenComplete(c).account = c.account
         /\ WhenComplete(c).fields = c.fields
         /\ Complete(WhenComplete(c))
<1>1. CASE c.status = "ACCEPTED" /\ ~HasAll(c, Field)
  <2>1. WhenComplete(c) = [c EXCEPT !.status = "NEEDS_INFO"]
    BY <1>1 DEF WhenComplete
  <2>2. /\ WhenComplete(c).account = c.account
        /\ WhenComplete(c).fields = c.fields
    BY <2>1 DEF Record
  <2>3. QED
    BY <1>1, <2>2 DEF Complete, HasAll
<1>2. CASE ~(c.status = "ACCEPTED" /\ ~HasAll(c, Field))
  BY <1>2 DEF WhenComplete, Complete, IdentityVerified
<1>3. QED
  BY <1>1, <1>2

LEMMA SettlingAll ==
  ASSUME NEW c \in Record
  PROVE  /\ Settle(c).account = c.account
         /\ Settle(c).fields = c.fields
         /\ Complete(Settle(c))
<1>1. CASE ~HasAll(c, IdentityField)
  <2> DEFINE d == [c EXCEPT !.status = "NEEDS_INFO", !.pending = FALSE]
  <2>1. d \in Record /\ d.account = c.account /\ d.fields = c.fields
    BY DEF Record, CustomerStatus
  <2>2. ~HasAll(d, Field)
    BY <1>1, <2>1, CustomerAssumption DEF HasAll
  <2>3. Settle(c) = WhenComplete(d)
    BY <1>1 DEF Settle
  <2> HIDE DEF d
  <2>4. QED
    BY <2>1, <2>2, <2>3, CompletingAll
<1>2. CASE HasAll(c, IdentityField) /\ c.status = "NEEDS_INFO"
  <2> DEFINE d == [c EXCEPT !.status = "ACCEPTED"]
  <2>1. d \in Record /\ d.account = c.account /\ d.fields = c.fields /\ d.status = "ACCEPTED"
    BY DEF Record, CustomerStatus
  <2>2. Settle(c) = WhenComplete(d)
    BY <1>2 DEF Settle
  <2> HIDE DEF d
  <2>3. QED
    BY <2>1, <2>2, CompletingAll
<1>3. CASE HasAll(c, IdentityField) /\ c.status # "NEEDS_INFO"
  BY <1>3, CompletingAll DEF Settle
<1>4. QED
  BY <1>1, <1>2, <1>3

LEMMA DecidingAll ==
  ASSUME NEW c \in Record, HasAll(c, IdentityField),
         NEW d \in {"none", "REJECTED", "PROCESSING", "ACCEPTED"}
  PROVE  /\ Verified(c, d).account = c.account
         /\ Verified(c, d).fields = c.fields
         /\ Complete(Verified(c, d))
<1>1. CASE d = "none"
  <2> DEFINE e == [c EXCEPT !.status = "PROCESSING", !.pending = TRUE]
  <2>1. /\ e \in Record /\ e.account = c.account /\ e.fields = c.fields
        /\ e.status = "PROCESSING"
    BY DEF Record, CustomerStatus
  <2>2. Verified(c, d) = WhenComplete(e)
    BY <1>1 DEF Verified
  <2> HIDE DEF e
  <2>3. QED
    BY <2>1, <2>2, CompletingAll
<1>2. CASE d # "none"
  <2> DEFINE e == [c EXCEPT !.status = d, !.pending = FALSE, !.verified = IdentityOf(c)]
  <2>1. /\ e \in Record /\ e.account = c.account /\ e.fields = c.fields
        /\ e.status = d
    BY <1>2, IdentityType DEF Record, CustomerStatus
  <2>2. Verified(c, d) = WhenComplete(e)
    BY <1>2 DEF Verified
  <2> HIDE DEF e
  <2>3. QED
    BY <2>1, <2>2, CompletingAll
<1>3. QED
  BY <1>1, <1>2

\* A PUT leaves the account alone and gives a valid bank account or none.
LEMMA MergeGives ==
  ASSUME NEW c \in Record, NEW given \in Given, ValidBank(c)
  PROVE  /\ Merge(c, given) \in Record
         /\ Merge(c, given).account = c.account
         /\ ValidBank(Merge(c, given))
<1>1. given \in Fields /\ given[BankField] \in Bank \cup {Blank}
  BY InteractiveAssumption DEF Given
<1>2. QED
  BY <1>1, InteractiveAssumption DEF Merge, Record, Fields, ValidBank

LEMMA NewGives ==
  ASSUME NEW a \in Account
  PROVE  /\ NewCustomer(a) \in Record /\ NewCustomer(a).account = a
         /\ ValidBank(NewCustomer(a))
  BY InteractiveAssumption DEF NewCustomer, Record, Fields, CustomerStatus, ValidBank

\* A request that begins on a record goes on with that record.
LEMMA Begins ==
  ASSUME TypeOK, NEW r \in Request, NEW i \in Id, NEW c \in Record, Kept(c, cleared),
         Begin(r, i, c)
  PROVE  \E n \in Busy :
            /\ request' = [request EXCEPT ![r] = n]
            /\ n.id = i /\ n.c.account = c.account /\ n.c.fields = c.fields
            /\ n.pc = "save" => Complete(n.c)
<1>1. CASE NeedsKyc(c)
  <2> DEFINE n == [pc |-> "verify", id |-> i, c |-> c]
  <2>1. n \in Busy /\ request' = [request EXCEPT ![r] = n]
    BY <1>1 DEF Begin, Busy
  <2>2. QED
    BY <2>1
<1>2. CASE ~NeedsKyc(c)
  <2> DEFINE n == [pc |-> "save", id |-> i, c |-> Settle(c)]
  <2>1. n \in Busy /\ request' = [request EXCEPT ![r] = n]
    BY <1>2, Settling DEF Begin, Busy
  <2>2. QED
    BY <2>1, SettlingAll
<1>3. QED
  BY <1>1, <1>2

\* The record a request begins with is the stored one of its id, or the first
\* of a new id.
LEMMA BegunInv ==
  ASSUME TypeOK, IdInv, GivenInv, NEW r \in Request, NEW i \in Id, NEW n \in Busy,
         request' = [request EXCEPT ![r] = n], UNCHANGED customers,
         n.id = i, ValidBank(n.c), n.pc = "save" => Complete(n.c),
         \/ /\ customers[i] # NoCustomer /\ UNCHANGED issued
            /\ n.c.account = customers[i].account
         \/ i \notin issued /\ issued' = issued \cup {i}
  PROVE  IdInv' /\ GivenInv'
<1>1. \A q \in Request : request'[q] = IF q = r THEN n ELSE request[q]
  BY DEF TypeOK
<1>2. i \in issued' /\ issued \subseteq issued'
  BY DEF IdInv
<1>3. customers[i] # NoCustomer => n.c.account = customers[i].account
  BY DEF IdInv
<1>4. \A q \in Request : request[q] # Idle /\ request[q].id = i =>
          request[q].c.account = n.c.account
  BY DEF IdInv
<1>5. IdInv'
  BY <1>1, <1>2, <1>3, <1>4 DEF IdInv
<1>6. GivenInv'
  BY <1>1 DEF GivenInv, Idle
<1>7. QED
  BY <1>5, <1>6

\* No overlap of requests gives an id a second account, and no record gets a
\* bank account that was not validated.
LEMMA RecordInvStep ==
  ASSUME Inv, IdInv, GivenInv, [Next]_vars
  PROVE  IdInv' /\ GivenInv'
<1>0. TypeOK
  BY DEF Inv
<1>1. ASSUME NEW r \in Request, Get(r) PROVE IdInv' /\ GivenInv'
  <2>1. PICK i \in Id : customers[i] # NoCustomer /\ Begin(r, i, customers[i])
    BY <1>1 DEF Get
  <2>2. /\ customers[i] \in Record /\ Kept(customers[i], cleared)
        /\ ValidBank(customers[i])
    BY <2>1 DEF Inv, TypeOK, StoredInv, GivenInv
  <2>3. PICK n \in Busy :
            /\ request' = [request EXCEPT ![r] = n]
            /\ n.id = i /\ n.c.account = customers[i].account
            /\ n.c.fields = customers[i].fields
            /\ n.pc = "save" => Complete(n.c)
    BY <1>0, <2>1, <2>2, Begins
  <2>4. ValidBank(n.c)
    BY <2>2, <2>3 DEF ValidBank
  <2>5. UNCHANGED <<customers, issued>>
    BY <1>1 DEF Get
  <2>6. QED
    BY <1>0, <2>1, <2>3, <2>4, <2>5, BegunInv
<1>2. ASSUME NEW r \in Request, NEW given \in Given, Put(r, given)
      PROVE  IdInv' /\ GivenInv'
  <2>1. PICK i \in Id :
            customers[i] # NoCustomer /\ Begin(r, i, Merge(customers[i], given))
    BY <1>2 DEF Put
  <2>2. /\ customers[i] \in Record /\ Kept(customers[i], cleared)
        /\ ValidBank(customers[i])
    BY <2>1 DEF Inv, TypeOK, StoredInv, GivenInv
  <2>3. PICK m \in Record : m = Merge(customers[i], given)
    BY <2>2, MergeGives
  <2>4. Kept(m, cleared) /\ m.account = customers[i].account /\ ValidBank(m)
    BY <2>2, <2>3, MergeGives, MergeKeeps DEF Given
  <2>5. PICK n \in Busy :
            /\ request' = [request EXCEPT ![r] = n]
            /\ n.id = i /\ n.c.account = m.account /\ n.c.fields = m.fields
            /\ n.pc = "save" => Complete(n.c)
    BY <1>0, <2>1, <2>3, <2>4, Begins
  <2>6. ValidBank(n.c)
    BY <2>4, <2>5 DEF ValidBank
  <2>7. UNCHANGED <<customers, issued>>
    BY <1>2 DEF Put
  <2>8. QED
    BY <1>0, <2>1, <2>4, <2>5, <2>6, <2>7, BegunInv
<1>3. ASSUME NEW r \in Request, NEW given \in Given, NEW a \in Account, PutNew(r, a, given)
      PROVE  IdInv' /\ GivenInv'
  <2>1. PICK i \in Id \ issued :
            issued' = issued \cup {i} /\ Begin(r, i, Merge(NewCustomer(a), given))
    BY <1>3 DEF PutNew
  <2>2. PICK m \in Record : m = Merge(NewCustomer(a), given)
    BY NewGives, MergeGives
  <2>3. Kept(m, cleared) /\ ValidBank(m)
    BY <2>2, NewGives, NewKept, MergeGives, MergeKeeps DEF Given
  <2>4. PICK n \in Busy :
            /\ request' = [request EXCEPT ![r] = n]
            /\ n.id = i /\ n.c.account = m.account /\ n.c.fields = m.fields
            /\ n.pc = "save" => Complete(n.c)
    BY <1>0, <2>1, <2>2, <2>3, Begins
  <2>5. ValidBank(n.c)
    BY <2>3, <2>4 DEF ValidBank
  <2>6. UNCHANGED customers
    BY <1>3 DEF PutNew
  <2>7. QED
    BY <1>0, <2>1, <2>4, <2>5, <2>6, BegunInv
<1>4. ASSUME NEW r \in Request, Verify(r) PROVE IdInv' /\ GivenInv'
  <2>1. /\ request[r] \in Busy /\ request[r].c \in Record /\ request[r] # Idle
        /\ HasAll(request[r].c, IdentityField)
    BY <1>4, <1>0, InHand, Working DEF Verify, Inv, RequestInv
  <2>2. PICK d \in {"none", "REJECTED", "PROCESSING", "ACCEPTED"} :
            request' = [request EXCEPT ![r] =
                [@ EXCEPT !.pc = "save", !.c = Verified(request[r].c, d)]]
    BY <1>4, AcceptsOnlyCleared DEF Verify
  <2>3. PICK c \in Record : c = request[r].c
    BY <2>1
  <2>4. /\ Verified(c, d).account = c.account
        /\ Verified(c, d).fields = c.fields
        /\ Complete(Verified(c, d))
    BY <2>1, <2>3, DecidingAll
  <2>5. PICK n : n = [request[r] EXCEPT !.pc = "save", !.c = Verified(c, d)]
    OBVIOUS
  <2>6. /\ n.id = request[r].id /\ n.pc = "save" /\ n.c = Verified(c, d)
    BY <2>1, <2>5 DEF Busy
  <2>7. \A q \in Request : request'[q] = IF q = r THEN n ELSE request[q]
    BY <1>0, <2>2, <2>3, <2>5 DEF TypeOK
  <2>8. n.c.account = request[r].c.account /\ ValidBank(n.c) /\ Complete(n.c)
    BY <2>1, <2>3, <2>4, <2>6 DEF ValidBank, GivenInv
  <2>9. UNCHANGED <<customers, issued>>
    BY <1>4 DEF Verify
  <2>10. IdInv'
    BY <2>1, <2>6, <2>7, <2>8, <2>9 DEF IdInv
  <2>11. GivenInv'
    BY <2>1, <2>7, <2>8, <2>9 DEF GivenInv
  <2>12. QED
    BY <2>10, <2>11
<1>5. ASSUME NEW r \in Request, Save(r) PROVE IdInv' /\ GivenInv'
  <2>1. /\ request[r] # Idle /\ request[r].id \in Id /\ request[r].c \in Record
        /\ UNCHANGED issued
    BY <1>5, <1>0, Working DEF Save, Saved, Unsaved, Answered
  <2>2. \A j \in Id :
            \/ customers'[j] = customers[j]
            \/ j = request[r].id /\ customers'[j] = request[r].c
    BY <1>5, <1>0 DEF Save, Saved, Unsaved, TypeOK
  <2>3. \A q \in Request : request'[q] = IF q = r THEN Idle ELSE request[q]
    BY <1>5, <1>0 DEF Save, Saved, Unsaved, Answered, TypeOK
  <2>4. \A q \in Request : request'[q] # Idle => request'[q] = request[q]
    BY <2>3
  <2>5. \A q \in Request : request[q] # Idle => request[q].id \in Id
    BY <1>0, Working
  <2>6. IdInv'
    BY <2>1, <2>2, <2>4, <2>5 DEF IdInv
  <2>7. GivenInv'
    BY <2>1, <2>2, <2>3 DEF GivenInv, Idle
  <2>8. QED
    BY <2>6, <2>7
<1>6. ASSUME NEW i \in Id, Delete(i) PROVE IdInv' /\ GivenInv'
  <2>1. /\ UNCHANGED <<issued, request>>
        /\ \A j \in Id : customers'[j] = IF j = i THEN NoCustomer ELSE customers[j]
    BY <1>6, <1>0 DEF Delete, TypeOK
  <2>2. \A q \in Request : request[q] # Idle => request[q].id \in Id
    BY <1>0, Working
  <2>3. IdInv'
    BY <2>1, <2>2 DEF IdInv
  <2>4. GivenInv'
    BY <2>1 DEF GivenInv
  <2>5. QED
    BY <2>3, <2>4
<1>7. CASE Crash
  BY <1>7 DEF Crash, IdInv, GivenInv, Idle
<1>8. CASE UNCHANGED vars
  BY <1>8 DEF vars, IdInv, GivenInv
<1>9. QED
  BY <1>1, <1>2, <1>3, <1>4, <1>5, <1>6, <1>7, <1>8 DEF Next
-----------------------------------------------------------------------------
(* The page's steps.                                                       *)

\* The withdrawal form posts a bank account and nothing else.
LEMMA BankFormGiven ==
  ASSUME NEW bank \in Bank \cup {Blank}
  PROVE  BankForm(bank) \in Given
  BY InteractiveAssumption, CustomerAssumption DEF BankForm, Given, Fields

\* What the page and SAP's requests do to the records are steps of Customer.
LEMMA RecordSteps ==
  ASSUME PostInv, [PageNext]_pageVars
  PROVE  [Next]_vars
<1>1. ASSUME NEW r \in Request, NEW a \in Account, NEW given \in Given, Posts(r, a, given)
      PROVE  Next
  BY <1>1 DEF Posts, Next
<1>2. ASSUME NEW r \in Request \ Browser, Callback(r) PROVE Next
  BY <1>2 DEF Callback, Next
<1>3. ASSUME NEW r \in Browser, PageRequest(r) PROVE [Next]_vars
  <2>1. ASSUME NEW t \in Tx \ Sep6, SubmitIdentity(r, t) PROVE Next
    BY <2>1, <1>1, InteractiveAssumption DEF SubmitIdentity, IdentityForm
  <2>2. ASSUME NEW t \in Tx \ Sep6, NEW amount \in Amounts, SubmitWithdraw(r, t, amount)
        PROVE  UNCHANGED vars
    BY <2>2 DEF SubmitWithdraw, records, vars
  <2>3. ASSUME NEW bank \in Bank \cup {Blank}, PutBank(r, bank) PROVE Next
    <3>1. call[r].tx \in Tx
      BY <2>3 DEF PutBank, Posting, Service!At, PostInv, Service!Caller
    <3>2. Owner[call[r].tx] \in Account
      BY <3>1, InteractiveAssumption
    <3>3. QED
      BY <1>1, <2>3, <3>2, BankFormGiven, InteractiveAssumption DEF PutBank
  <2>4. CASE PutBankFails(r)
    BY <2>4 DEF PutBankFails, records, vars
  <2>5. ASSUME SaveBank(r) PROVE Next
    <3>1. Save(r)
      BY <2>5 DEF SaveBank, Save
    <3>2. QED
      BY <3>1, InteractiveAssumption DEF Next
  <2>6. CASE PageStart(r)
    BY <2>6 DEF PageStart, records, vars
  <2>7. QED
    BY <1>3, <2>1, <2>2, <2>3, <2>4, <2>5, <2>6 DEF PageRequest
<1>4. ASSUME NEW r \in Request, SaveOnly(r) \/ Verify(r) PROVE Next
  BY <1>4 DEF SaveOnly, Next
<1>5. ASSUME NEW i \in Id, Delete(i) PROVE Next
  BY <1>5 DEF Next
<1>6. CASE PageRestart
  BY <1>6 DEF PageRestart, Next
<1>7. CASE UNCHANGED records
  BY <1>7 DEF records, vars
<1>8. QED
  BY <1>2, <1>3, <1>4, <1>5, <1>6, <1>7 DEF PageNext, pageVars

\* What a step of Start, or an answer of the page, does to a frame.
FrameMoves(r) ==
    \/ UNCHANGED call
    \/ \E f :
          /\ call' = [call EXCEPT ![r] = f]
          /\ DOMAIN f = FrameFields
          /\ f.pc # "idle" => f.tx \in Tx /\ f.res = "none"

LEMMA Frames ==
  ASSUME PostInv, NEW r \in Browser
  PROVE  /\ \A answer : Service!Return(r, answer) => FrameMoves(r)
         /\ \A pc, w : Service!Goto(r, pc, w) /\ call[r].pc # "idle" => FrameMoves(r)
         /\ \A pc, t, amount : t \in Tx /\ Service!Enter(r, pc, t, amount) => FrameMoves(r)
<1>0. DOMAIN call[r] = FrameFields /\ r \in DOMAIN call
  BY DEF PostInv, Service!Caller
<1>1. ASSUME NEW answer, Service!Return(r, answer) PROVE FrameMoves(r)
  <2>1. /\ DOMAIN Service!Idle(answer) = FrameFields
        /\ Service!Idle(answer).pc = "idle"
    BY DEF Service!Idle, FrameFields
  <2>2. call' = [call EXCEPT ![r] = Service!Idle(answer)]
    BY <1>1 DEF Service!Return
  <2>3. QED
    BY <2>1, <2>2 DEF FrameMoves
<1>2. ASSUME NEW pc, NEW w, Service!Goto(r, pc, w), call[r].pc # "idle" PROVE FrameMoves(r)
  <2> DEFINE f == [call[r] EXCEPT !.pc = pc, !.w = w]
  <2>1. DOMAIN f = FrameFields /\ f.tx = call[r].tx /\ f.res = call[r].res
    BY <1>0 DEF FrameFields
  <2>2. call' = [call EXCEPT ![r] = f]
    BY <1>2, <1>0 DEF Service!Goto
  <2>3. call[r].tx \in Tx /\ call[r].res = "none"
    BY <1>2 DEF PostInv, Service!Caller
  <2> HIDE DEF f
  <2>4. QED
    BY <2>1, <2>2, <2>3 DEF FrameMoves
<1>3. ASSUME NEW pc, NEW t, NEW amount, t \in Tx, Service!Enter(r, pc, t, amount)
      PROVE  FrameMoves(r)
  <2> DEFINE f == [pc |-> pc, tx |-> t, amount |-> amount, w |-> NoDoc, res |-> "none"]
  <2>1. DOMAIN f = FrameFields /\ f.tx = t /\ f.res = "none"
    BY DEF FrameFields
  <2>2. call' = [call EXCEPT ![r] = f]
    BY <1>3 DEF Service!Enter
  <2> HIDE DEF f
  <2>3. QED
    BY <1>3, <2>1, <2>2 DEF FrameMoves
<1>4. QED
  BY <1>1, <1>2, <1>3

\* The steps of the withdrawal form that change its frame are taken with no
\* request in hand, or drop it.
LEMMA FormMoves ==
  ASSUME TypeOK, PostInv, NEW r \in Browser,
         \/ \E t \in Tx, amount \in Amounts : SubmitWithdraw(r, t, amount)
         \/ PutBankFails(r) \/ SaveBank(r) \/ PageStart(r)
  PROVE  /\ FrameMoves(r)
         /\ \A q \in Request : request'[q] = IF q = r THEN Idle ELSE request[q]
<1>0. r \in Request /\ r \in Service!Caller
  BY InteractiveAssumption DEF Service!Caller
<1>1. ASSUME NEW t \in Tx, NEW amount \in Amounts, SubmitWithdraw(r, t, amount)
      PROVE  FrameMoves(r) /\ request[r] = Idle /\ UNCHANGED request
  <2>1. Service!Enter(r, "put", t, amount)
    BY <1>1 DEF SubmitWithdraw, Service!FormOpen
  <2>2. FrameMoves(r)
    BY <2>1, Frames
  <2>3. QED
    BY <1>1, <2>2 DEF SubmitWithdraw, Free, records
<1>2. CASE PutBankFails(r)
  <2>1. FrameMoves(r)
    BY <1>2, Frames DEF PutBankFails
  <2>2. QED
    BY <1>2, <2>1 DEF PutBankFails, records
<1>3. CASE SaveBank(r)
  <2>1. call[r].pc = "put"
    BY <1>3 DEF SaveBank, Posting, Service!At
  <2>2. FrameMoves(r)
    BY <1>3, <2>1, Frames DEF SaveBank
  <2>3. request' = [request EXCEPT ![r] = Idle]
    BY <1>3 DEF SaveBank, Saved, Unsaved, Answered
  <2>4. QED
    BY <1>0, <2>2, <2>3 DEF TypeOK
<1>4. CASE PageStart(r)
  <2>1. call[r].pc \notin {"idle", "put"}
    BY <1>4 DEF PageStart, Service!StartStep, Service!StartGet, Service!StartCreate,
         Service!StartInsert, Service!StartReget, Service!StartRequest,
         Service!StartUpdate, Service!At
  <2>2. \/ \E answer : Service!Return(r, answer)
        \/ \E pc, w : Service!Goto(r, pc, w)
    <3>1. Service!StartStep(r)
      BY <1>4 DEF PageStart
    <3>2. CASE Service!StartGet(r)
      BY <3>2 DEF Service!StartGet
    <3>3. CASE Service!StartCreate(r)
      BY <3>3 DEF Service!StartCreate
    <3>4. CASE Service!StartInsert(r)
      BY <3>4 DEF Service!StartInsert
    <3>5. CASE Service!StartReget(r)
      BY <3>5 DEF Service!StartReget
    <3>6. CASE Service!StartRequest(r)
      BY <3>6 DEF Service!StartRequest
    <3>7. CASE Service!StartUpdate(r)
      BY <3>7 DEF Service!StartUpdate
    <3>8. QED
      BY <3>1, <3>2, <3>3, <3>4, <3>5, <3>6, <3>7 DEF Service!StartStep
  <2>3. FrameMoves(r)
    BY <2>1, <2>2, Frames
  <2>4. request[r] = Idle
    BY <2>1 DEF PostInv
  <2>5. UNCHANGED request
    BY <1>4 DEF PageStart, records
  <2>6. QED
    BY <2>3, <2>4, <2>5
<1>5. QED
  BY <1>0, <1>1, <1>2, <1>3, <1>4

\* A PUT or GET touches its own request only.
LEMMA OwnRequest ==
  ASSUME TypeOK, NEW r \in Request,
         \/ Get(r) \/ \E given : Put(r, given) \/ \E a : PutNew(r, a, given)
         \/ Verify(r) \/ Save(r)
  PROVE  \A q \in Request : q # r => request'[q] = request[q]
  BY DEF TypeOK, Get, Put, PutNew, Begin, Verify, Save, Saved, Unsaved, Answered

LEMMA FramesKept ==
  ASSUME PostInv, NEW r \in Browser, FrameMoves(r)
  PROVE  /\ DOMAIN call' = Service!Caller
         /\ \A c \in Service!Caller :
               /\ DOMAIN call'[c] = FrameFields
               /\ call'[c].pc # "idle" => call'[c].tx \in Tx /\ call'[c].res = "none"
               /\ c # r => call'[c] = call[c]
<1>1. CASE UNCHANGED call
  BY <1>1 DEF PostInv
<1>2. ASSUME NEW f, call' = [call EXCEPT ![r] = f], DOMAIN f = FrameFields,
             f.pc # "idle" => f.tx \in Tx /\ f.res = "none"
      PROVE  /\ DOMAIN call' = Service!Caller
             /\ \A c \in Service!Caller : call'[c] = IF c = r THEN f ELSE call[c]
  BY <1>2 DEF PostInv, Service!Caller
<1>3. QED
  BY <1>1, <1>2 DEF FrameMoves, PostInv

\* A browser that has a record in hand got it from one of the forms.
LEMMA PostInvStep ==
  ASSUME Inv, PostInv, [PageNext]_pageVars
  PROVE  PostInv'
<1> DEFINE Posted(r) ==
      request'[r] # Idle =>
          /\ call'[r].pc \in {"idle", "put"}
          /\ call'[r].pc = "put" => request'[r].c.account = Owner[call'[r].tx]
<1>0. TypeOK /\ Browser \subseteq Request /\ Browser \subseteq Service!Caller
  BY InteractiveAssumption DEF Service!Caller, Inv
<1>1. ASSUME UNCHANGED call, \A r \in Browser : Posted(r)
      PROVE  PostInv'
  BY <1>1 DEF PostInv
<1>2. ASSUME NEW r \in Browser,
             \/ \E t \in Tx, amount \in Amounts : SubmitWithdraw(r, t, amount)
             \/ PutBankFails(r) \/ SaveBank(r) \/ PageStart(r)
      PROVE  PostInv'
  <2>1. /\ FrameMoves(r)
        /\ \A q \in Request : request'[q] = IF q = r THEN Idle ELSE request[q]
    BY <1>0, <1>2, FormMoves
  <2>2. /\ DOMAIN call' = Service!Caller
        /\ \A c \in Service!Caller :
               /\ DOMAIN call'[c] = FrameFields
               /\ call'[c].pc # "idle" => call'[c].tx \in Tx /\ call'[c].res = "none"
               /\ c # r => call'[c] = call[c]
    BY <2>1, FramesKept
  <2>3. QED
    BY <1>0, <2>1, <2>2 DEF PostInv
<1>3. ASSUME NEW r \in Request \ Browser, Callback(r) PROVE PostInv'
  <2>1. UNCHANGED call /\ \A q \in Request : q # r => request'[q] = request[q]
    BY <1>0, <1>3, OwnRequest DEF Callback, service
  <2>2. QED
    BY <1>0, <1>1, <2>1 DEF PostInv
<1>4. ASSUME NEW r \in Browser, NEW t \in Tx \ Sep6, SubmitIdentity(r, t)
      PROVE  PostInv'
  <2>1. /\ UNCHANGED call /\ call[r].pc = "idle"
        /\ \A q \in Request : q # r => request'[q] = request[q]
    BY <1>0, <1>4, OwnRequest DEF SubmitIdentity, Posts, Free, Service!At, service
  <2>2. QED
    BY <1>0, <1>1, <2>1 DEF PostInv
<1>5. ASSUME NEW r \in Browser, NEW bank, PutBank(r, bank)
      PROVE  PostInv'
  <2>1. /\ UNCHANGED call /\ call[r].pc = "put"
        /\ request'[r].c.account = Owner[call[r].tx]
        /\ \A q \in Request : q # r => request'[q] = request[q]
    BY <1>0, <1>5, OwnRequest DEF PutBank, Posts, Posting, Service!At, service
  <2>2. QED
    BY <1>0, <1>1, <2>1 DEF PostInv
<1>6. ASSUME NEW r \in Request, Verify(r), UNCHANGED service PROVE PostInv'
  <2>1. /\ request[r] \in Busy /\ request[r].c \in Record /\ request[r] # Idle
        /\ HasAll(request[r].c, IdentityField)
    BY <1>0, <1>6, InHand, Working DEF Verify, Inv, RequestInv
  <2>2. PICK d \in {"none", "REJECTED", "PROCESSING", "ACCEPTED"} :
            request' = [request EXCEPT ![r] =
                [@ EXCEPT !.pc = "save", !.c = Verified(request[r].c, d)]]
    BY <1>6, AcceptsOnlyCleared DEF Verify
  <2>3. Verified(request[r].c, d).account = request[r].c.account
    BY <2>1, DecidingAll
  <2>4. request'[r].c.account = request[r].c.account
    BY <1>0, <2>1, <2>2, <2>3 DEF TypeOK, Busy
  <2>5. UNCHANGED call /\ \A q \in Request : q # r => request'[q] = request[q]
    BY <1>0, <1>6, OwnRequest DEF service
  <2>6. QED
    BY <1>0, <1>1, <2>1, <2>4, <2>5 DEF PostInv
<1>7. ASSUME NEW r \in Request, SaveOnly(r) PROVE PostInv'
  <2>1. /\ UNCHANGED call
        /\ \A q \in Request : request'[q] = IF q = r THEN Idle ELSE request[q]
    BY <1>0, <1>7 DEF SaveOnly, Save, Saved, Unsaved, Answered, service, TypeOK
  <2>2. QED
    BY <1>0, <1>1, <2>1 DEF PostInv
<1>8. CASE PageRestart
  <2>1. \A c \in Service!Caller : \E x :
            call'[c] = [pc |-> "idle", tx |-> CHOOSE t \in Tx : TRUE,
                        amount |-> CHOOSE a \in Amounts : TRUE, w |-> NoDoc, res |-> x]
    BY <1>8 DEF PageRestart, Service!Restart, Service!Idle
  <2>2. DOMAIN call' = Service!Caller
    BY <1>8 DEF PageRestart, Service!Restart
  <2>3. \A r \in Request : request'[r] = Idle
    BY <1>8 DEF PageRestart, Crash
  <2>4. QED
    BY <1>0, <2>1, <2>2, <2>3 DEF PostInv, FrameFields
<1>9. CASE UNCHANGED <<request, call>>
  BY <1>9 DEF PostInv
<1>10. ASSUME NEW i \in Id, Delete(i), UNCHANGED service PROVE PostInv'
  BY <1>9, <1>10 DEF Delete, service
<1>11. ASSUME NEW t \in Tx, UNCHANGED records, Service!PlatformStep(t) PROVE PostInv'
  BY <1>9, <1>11 DEF records, Service!PlatformStep
<1>12. QED
  BY <1>2, <1>3, <1>4, <1>5, <1>6, <1>7, <1>8, <1>9, <1>10, <1>11
     DEF PageNext, PageRequest, pageVars, records, service
-----------------------------------------------------------------------------
(* What WithdrawalService sees.                                            *)

\* A step that saves no record shows it no other customer.
LEMMA NothingSeen ==
  ASSUME UNCHANGED customers
  PROVE  CustomerView' = CustomerView
  BY DEF CustomerView, RecordsOf

\* Every save, whoever makes it and however old the copy, is a change of the
\* one account it is of.
LEMMA SaveShows ==
  ASSUME PageInv, ViewInv, ViewInv', NEW r \in Request, Save(r), UNCHANGED service
  PROVE  Service!ServiceNext \/ UNCHANGED Service!serviceVars
<1>1. CASE Saved(r)
  <2>1. PICK a \in Account : a = request[r].c.account
    <3>1. request[r].c \in Record
      BY <1>1, Working DEF Saved, Answered, PageInv, Inv
    <3>2. QED
      BY <3>1 DEF Record
  <2>2. CustomerView' = [CustomerView EXCEPT ![a] = View(request[r].c)]
    BY <1>1, <2>1, SavedView DEF PageInv, Inv
  <2>3. /\ CustomerView \in [Account -> Service!Customer]
        /\ CustomerView' \in [Account -> Service!Customer]
    BY DEF ViewInv
  <2>4. \A b \in Account \ {a} : CustomerView'[b] = CustomerView[b]
    BY <2>2, <2>3
  <2>5. Service!CustomerChanges(a)
    BY <2>3, <2>4 DEF Service!CustomerChanges, service
  <2>6. QED
    BY <2>5 DEF Service!ServiceNext
<1>2. CASE Unsaved(r)
  BY <1>2, NothingSeen DEF Unsaved, Service!serviceVars, service
<1>3. QED
  BY <1>1, <1>2 DEF Save

LEMMA DeleteShows ==
  ASSUME PageInv, ViewInv', NEW i \in Id, Delete(i), UNCHANGED service
  PROVE  Service!ServiceNext
<1>1. PICK a \in Account : a = customers[i].account
  BY DEF Delete, PageInv, Inv, TypeOK, Record
<1>2. \A j \in Id : customers'[j] = IF j = i THEN NoCustomer ELSE customers[j]
  BY DEF Delete, PageInv, Inv, TypeOK
<1>3. ASSUME NEW b \in Account, b # a
      PROVE  CustomerView'[b] = CustomerView[b]
  <2> DEFINE Seen(S) == IF S = {} THEN Nobody
                        ELSE View(CHOOSE x \in S : TRUE)
  <2>1. RecordsOf(b)' = RecordsOf(b)
    BY <1>1, <1>2, <1>3 DEF RecordsOf
  <2>2. CustomerView[b] = Seen(RecordsOf(b))
    BY DEF CustomerView
  <2>3. CustomerView'[b] = Seen(RecordsOf(b)')
    BY DEF CustomerView
  <2> HIDE DEF Seen
  <2>4. QED
    BY <2>1, <2>2, <2>3
<1>4. CustomerView' \in [Account -> Service!Customer]
  BY DEF ViewInv
<1>5. Service!CustomerChanges(a)
  BY <1>3, <1>4 DEF Service!CustomerChanges, service
<1>6. QED
  BY <1>5 DEF Service!ServiceNext

\* The save of the withdrawal form is the one of FormPut: what it leaves of
\* the owner's record decides whether the form goes on.
LEMMA FormShows ==
  ASSUME PageInv, NEW r \in Browser, SaveBank(r)
  PROVE  Service!ServiceNext
<1> DEFINE k == View(request[r].c)
<1>1. /\ r \in Request /\ request[r] # Idle /\ request[r].pc = "save"
      /\ request[r].c \in Record /\ ValidBank(request[r].c)
      /\ Settled(request[r].c) /\ Complete(request[r].c)
      /\ request[r].c.account = Owner[call[r].tx]
  <2>1. r \in Request /\ request[r].pc = "save" /\ call[r].pc = "put"
    BY InteractiveAssumption
       DEF SaveBank, Saved, Unsaved, Answered, Posting, Service!At
  <2>2. request[r] # Idle /\ request[r].c \in Record
    BY <2>1, Working DEF PageInv, Inv
  <2>3. QED
    BY <2>1, <2>2 DEF PageInv, Inv, RequestInv, GivenInv, PostInv
<1>2. k \in Service!Customer
  BY <1>1, ViewType
<1>3. k.accepted <=> request[r].c.status = "ACCEPTED"
  BY DEF View
<1>4. CASE Saved(r)
  <2>1. CustomerView' = [CustomerView EXCEPT ![Owner[call[r].tx]] = k]
    BY <1>1, <1>4, SavedView DEF PageInv, Inv
  <2> HIDE DEF k
  <2>2. \/ k.accepted /\ Service!Goto(r, "get", NoDoc)
        \/ ~k.accepted /\ Service!Return(r, "user")
        \/ Service!Return(r, "err")
    BY <1>3, <1>4 DEF SaveBank, Saved, Unsaved, k
  <2>3. Service!FormPut(r, k)
    BY <2>1, <2>2 DEF Service!FormPut, SaveBank, Posting
  <2>4. QED
    BY <1>2, <2>3 DEF Service!FormStep, Service!ServiceNext
<1>5. CASE Unsaved(r) /\ Service!Return(r, "err")
  <2> HIDE DEF k
  <2>1. CustomerView' = CustomerView
    BY <1>5, NothingSeen DEF Unsaved
  <2>2. Service!FormPut(r, k)
    BY <1>5, <2>1 DEF Service!FormPut, SaveBank, Posting
  <2>3. QED
    BY <1>2, <2>2 DEF Service!FormStep, Service!ServiceNext
<1>6. QED
  BY <1>4, <1>5 DEF SaveBank

\* Every step of the page, of SAP's requests, of Dojah and of a crash is one
\* of WithdrawalService, or changes nothing it sees.
LEMMA PageRefines ==
  ASSUME PageInv, ViewInv, ViewInv', [PageNext]_pageVars
  PROVE  Service!ServiceNext \/ UNCHANGED Service!serviceVars
<1>1. ASSUME UNCHANGED customers, UNCHANGED service
      PROVE  UNCHANGED Service!serviceVars
  BY <1>1, NothingSeen DEF Service!serviceVars, service
<1>2. ASSUME NEW r \in Request \ Browser, Callback(r) PROVE UNCHANGED customers
  BY <1>2 DEF Callback, Get, Put, PutNew
<1>3. ASSUME NEW r \in Browser, PageRequest(r)
      PROVE  Service!ServiceNext \/ UNCHANGED Service!serviceVars
  <2>1. ASSUME NEW t \in Tx \ Sep6, SubmitIdentity(r, t)
        PROVE  UNCHANGED Service!serviceVars
    BY <1>1, <2>1 DEF SubmitIdentity, Posts, Put, PutNew
  <2>2. ASSUME NEW t \in Tx \ Sep6, NEW amount \in Amounts, SubmitWithdraw(r, t, amount)
        PROVE  Service!ServiceNext
    BY <2>2 DEF SubmitWithdraw, Service!FormStep, Service!ServiceNext
  <2>3. ASSUME NEW bank, PutBank(r, bank) PROVE UNCHANGED Service!serviceVars
    BY <1>1, <2>3 DEF PutBank, Posts, Put, PutNew
  <2>4. CASE PutBankFails(r)
    <3>1. CustomerView' = CustomerView
      BY <2>4, NothingSeen DEF PutBankFails, records
    <3>2. PICK k \in Service!Customer : TRUE
      <4>1. Nobody \in Service!Customer
        BY DEF Nobody, Service!Customer
      <4>2. QED
        BY <4>1
    <3>3. Service!FormPut(r, k)
      BY <2>4, <3>1 DEF PutBankFails, Posting, Service!FormPut
    <3>4. QED
      BY <3>3 DEF Service!FormStep, Service!ServiceNext
  <2>5. CASE SaveBank(r)
    BY <2>5, FormShows
  <2>6. CASE PageStart(r)
    BY <2>6 DEF PageStart, Service!FormStep, Service!ServiceNext
  <2>7. QED
    BY <1>3, <2>1, <2>2, <2>3, <2>4, <2>5, <2>6 DEF PageRequest
<1>4. ASSUME NEW r \in Request, SaveOnly(r)
      PROVE  Service!ServiceNext \/ UNCHANGED Service!serviceVars
  BY <1>4, SaveShows DEF SaveOnly
<1>5. ASSUME NEW r \in Request, Verify(r), UNCHANGED service
      PROVE  UNCHANGED Service!serviceVars
  BY <1>1, <1>5 DEF Verify
<1>6. ASSUME NEW i \in Id, Delete(i), UNCHANGED service
      PROVE  Service!ServiceNext
  BY <1>6, DeleteShows
<1>7. CASE PageRestart
  BY <1>7 DEF PageRestart, Service!ServiceNext
<1>8. ASSUME NEW t \in Tx, UNCHANGED records, Service!PlatformStep(t)
      PROVE  Service!ServiceNext
  BY <1>8 DEF Service!ServiceNext
<1>9. CASE UNCHANGED pageVars
  BY <1>1, <1>9 DEF pageVars, records, service
<1>10. QED
  BY <1>1, <1>2, <1>3, <1>4, <1>5, <1>6, <1>7, <1>8, <1>9 DEF PageNext, Callback

\* The invariant.
LEMMA PageInitInv == PageInit => PageInv
<1> SUFFICES ASSUME PageInit PROVE PageInv
  OBVIOUS
<1>1. Inv
  BY InitInv DEF PageInit
<1>2. IdInv /\ GivenInv
  BY DEF PageInit, Init, IdInv, GivenInv, Idle
<1>3. PostInv
  BY InteractiveAssumption
     DEF PageInit, Init, Service!ServiceInit, Service!Idle, PostInv, FrameFields
<1>4. QED
  BY <1>1, <1>2, <1>3 DEF PageInv

LEMMA PageInvariance == PageSpec => []PageInv
<1>1. PageInv /\ [PageNext]_pageVars => PageInv'
  BY RecordSteps, StepInv, RecordInvStep, PostInvStep DEF PageInv
<1>2. QED
  BY PageInitInv, <1>1, PTL DEF PageSpec

\* The page on the real customer records is a behaviour of WithdrawalService,
\* however PUTs, saves of old copies, deletions, KYC answers and crashes fall
\* between the steps of Start.
THEOREM PageImplements == PageSpec => ServiceHolds
<1>1. PageInit => Service!ServiceInit
  BY DEF PageInit
<1>2. /\ PageInv /\ ViewInv /\ ViewInv' /\ [PageNext]_pageVars
      => [Service!ServiceNext]_(Service!serviceVars)
  BY PageRefines
<1>3. QED
  BY <1>1, <1>2, CustomerViewType, PageInvariance, PTL
     DEF PageSpec, ServiceHolds, Service!ServiceSpec

\* It is a behaviour of Customer too: the forms are PUTs among others.
THEOREM PageIsCustomer == PageSpec => Spec
<1>1. PageInit => Init
  BY DEF PageInit
<1>2. PageInv /\ [PageNext]_pageVars => [Next]_vars
  BY RecordSteps DEF PageInv
<1>3. QED
  BY <1>1, <1>2, PageInvariance, PTL DEF PageSpec, Spec

\* On the page too, whoever counts as verified has an identity that Dojah
\* matched and screened as a whole.
THEOREM PageVerifiedSafe == PageSpec => []VerifiedWasCleared
  BY PageIsCustomer, VerifiedSafe, PTL

\* And whoever is accepted on record can be paid, with the forms next to SAP's
\* requests.
THEOREM PageAcceptedSafe == PageSpec => []AcceptedIsPayable
  BY PageIsCustomer, AcceptedSafe, PTL

\* Only its own StartCreate takes a form from the customer to the price.
LEMMA Prices ==
  ASSUME PageInv, [PageNext]_pageVars, NEW r \in Browser,
         call[r].pc = "create", call'[r].pc = "insert"
  PROVE  PageStart(r)
<1>0. /\ TypeOK /\ PostInv
      /\ r \in Request /\ r \in Service!Caller /\ Browser \subseteq Service!Caller
  BY InteractiveAssumption DEF PageInv, Inv, Service!Caller
<1>1. call'[r] # call[r]
  OBVIOUS
<1>2. ~UNCHANGED call
  BY <1>1
<1>3. ASSUME NEW q \in Browser, PageRequest(q) PROVE PageStart(r)
  <2>1. \/ \E t \in Tx, amount \in Amounts : SubmitWithdraw(q, t, amount)
        \/ PutBankFails(q) \/ SaveBank(q) \/ PageStart(q)
    BY <1>2, <1>3 DEF PageRequest, SubmitIdentity, PutBank, service
  <2>2. FrameMoves(q)
    BY <1>0, <2>1, FormMoves
  <2>3. \A c \in Service!Caller : c # q => call'[c] = call[c]
    BY <1>0, <2>2, FramesKept
  <2>4. q = r
    BY <1>0, <1>1, <2>3
  <2>5. QED
    BY <2>1, <2>4
       DEF SubmitWithdraw, Free, PutBankFails, SaveBank, Posting, Service!At
<1>4. ~PageRestart
  BY <1>0 DEF PageRestart, Service!Restart, Service!Idle
<1>5. QED
  BY <1>2, <1>3, <1>4
     DEF PageNext, Callback, SaveOnly, Service!PlatformStep, pageVars, service

\* A withdrawal is priced only for an identity Dojah has cleared, as it is on
\* record at that moment, and for the bank account on the same record.
THEOREM PricedSafe == PageSpec => PricedForCleared
<1>1. PageInv /\ [PageNext]_pageVars =>
        [\A r \in Browser :
            Service!At(r, "create") /\ call'[r].pc = "insert" =>
                \E c \in RecordsOf(Owner[call[r].tx]) :
                    /\ IdentityOf(c) \in cleared
                    /\ call'[r].w.bank = c.fields[BankField]]_pageVars
  <2> SUFFICES ASSUME PageInv, [PageNext]_pageVars, NEW r \in Browser,
                      Service!At(r, "create"), call'[r].pc = "insert"
               PROVE  \E c \in RecordsOf(Owner[call[r].tx]) :
                          /\ IdentityOf(c) \in cleared
                          /\ call'[r].w.bank = c.fields[BankField]
    OBVIOUS
  <2> DEFINE k == CustomerView[Owner[call[r].tx]]
  <2>1. /\ r \in Service!Caller /\ call[r].pc = "create" /\ r \in DOMAIN call
        /\ DOMAIN call[r] = FrameFields
        /\ Owner[call[r].tx] \in Account
    BY InteractiveAssumption DEF PageInv, PostInv, Service!Caller, Service!At
  <2>2. Service!StartCreate(r)
    BY <2>1, Prices DEF PageStart, Service!StartStep, Service!StartGet,
       Service!StartInsert, Service!StartReget, Service!StartRequest,
       Service!StartUpdate, Service!At
  <2>3. \A answer : ~Service!Return(r, answer)
    BY <2>1 DEF Service!Return, Service!Idle
  <2>4. /\ k.accepted /\ Service!BankGiven(k)
        /\ Service!Goto(r, "insert",
                        Service!NewDoc(AssetOf[call[r].tx], call[r].amount, k.bank))
    BY <2>2, <2>3 DEF Service!StartCreate
  <2>5. call'[r].w.bank = k.bank
    <3> HIDE DEF k
    <3>1. call'[r].w = Service!NewDoc(AssetOf[call[r].tx], call[r].amount, k.bank)
      BY <2>1, <2>4 DEF Service!Goto, FrameFields
    <3>2. \A asset, amount, bank : Service!NewDoc(asset, amount, bank).bank = bank
      BY DEF Service!NewDoc
    <3>3. QED
      BY <3>1, <3>2
  <2>6. PICK c \in RecordsOf(Owner[call[r].tx]) : k = View(c)
    <3>1. RecordsOf(Owner[call[r].tx]) # {}
      BY <2>1, <2>4 DEF CustomerView, Nobody
    <3>2. k = View(CHOOSE c \in RecordsOf(Owner[call[r].tx]) : TRUE)
      BY <2>1, <3>1 DEF CustomerView
    <3>3. (CHOOSE c \in RecordsOf(Owner[call[r].tx]) : TRUE)
             \in RecordsOf(Owner[call[r].tx])
      BY <3>1
    <3>4. QED
      BY <3>2, <3>3
  <2>7. c.status = "ACCEPTED" /\ k.bank = c.fields[BankField]
    BY <2>4, <2>6 DEF View, Service!BankGiven
  <2>8. PICK i \in Id : c = customers[i] /\ customers[i] # NoCustomer
    BY <2>6 DEF RecordsOf
  <2>9. IdentityVerified(c)
    BY <2>7, <2>8 DEF PageInv, Inv, StoredInv, Settled
  <2>10. IdentityOf(c) \in cleared
    BY <2>8, <2>9, InvCleared DEF PageInv, VerifiedWasCleared
  <2>11. QED
    BY <2>5, <2>6, <2>7, <2>10
<1>2. QED
  BY <1>1, PageInvariance, PTL DEF PageSpec, PricedForCleared
-----------------------------------------------------------------------------
(* What the user is sent back for.                                         *)

\* While the withdrawal form has a record in hand, only a save that went
\* through, of a customer who is not accepted, sends the user back.
LEMMA SentBack ==
  ASSUME PageInv, [PageNext]_pageVars, NEW r \in Browser,
         Posting(r), request[r] # Idle, call'[r].res = "user"
  PROVE  /\ request[r].pc = "save" /\ request[r].c.status # "ACCEPTED"
         /\ Saved(r)
<1>0. /\ TypeOK /\ PostInv
      /\ r \in Request /\ r \in Service!Caller /\ Browser \subseteq Service!Caller
  BY InteractiveAssumption DEF PageInv, Inv, Service!Caller
<1>1. /\ call[r].pc = "put" /\ call[r].res = "none"
      /\ DOMAIN call[r] = FrameFields /\ r \in DOMAIN call
  BY <1>0 DEF Posting, Service!At, PostInv
<1>2. call'[r] # call[r] /\ ~UNCHANGED call
  BY <1>1
<1>3. SaveBank(r)
  <2>1. ASSUME NEW q \in Browser, PageRequest(q) PROVE SaveBank(r)
    <3>1. \/ \E t \in Tx, amount \in Amounts : SubmitWithdraw(q, t, amount)
          \/ PutBankFails(q) \/ SaveBank(q) \/ PageStart(q)
      BY <1>2, <2>1 DEF PageRequest, SubmitIdentity, PutBank, service
    <3>2. q = r
      BY <1>0, <1>2, <3>1, FormMoves, FramesKept
    <3>3. QED
      BY <1>1, <3>1, <3>2
         DEF SubmitWithdraw, Free, PutBankFails, PageStart, Service!StartStep,
             Service!StartGet, Service!StartCreate, Service!StartInsert,
             Service!StartReget, Service!StartRequest, Service!StartUpdate, Service!At
  <2>2. ~PageRestart
    BY <1>0 DEF PageRestart, Service!Restart, Service!Idle
  <2>3. QED
    BY <1>2, <2>1, <2>2
       DEF PageNext, Callback, SaveOnly, Service!PlatformStep, pageVars, service
<1>4. ASSUME NEW answer, Service!Return(r, answer)
      PROVE  answer = "user"
  BY <1>1, <1>4 DEF Service!Return, Service!Idle
<1>5. ~Service!Goto(r, "get", NoDoc)
  BY <1>1 DEF Service!Goto, FrameFields
<1>6. QED
  BY <1>3, <1>4, <1>5 DEF SaveBank, Saved, Unsaved, Answered

\* The withdrawal form sends a user back only with the record just saved, and
\* only when the identity on it does not count as verified or a required field
\* is missing on it, the bank account or one that the form cannot take: in no
\* order of PUTs and saves is a complete, verified customer asked again.
THEOREM SentBackForReason ==
  PageSpec =>
    [][\A r \in Browser :
          Posting(r) /\ request[r] # Idle /\ call'[r].res = "user" =>
              \E i \in Id :
                  /\ customers'[i] = request[r].c
                  /\ request[r].c.account = Owner[call[r].tx]
                  /\ \/ ~IdentityVerified(request[r].c)
                     \/ \E f \in Field : request[r].c.fields[f] = Blank]_pageVars
<1>1. PageInv /\ [PageNext]_pageVars =>
        [\A r \in Browser :
            Posting(r) /\ request[r] # Idle /\ call'[r].res = "user" =>
                \E i \in Id :
                    /\ customers'[i] = request[r].c
                    /\ request[r].c.account = Owner[call[r].tx]
                    /\ \/ ~IdentityVerified(request[r].c)
                       \/ \E f \in Field : request[r].c.fields[f] = Blank]_pageVars
  <2> SUFFICES ASSUME PageInv, [PageNext]_pageVars, NEW r \in Browser,
                      Posting(r), request[r] # Idle, call'[r].res = "user"
               PROVE  \E i \in Id :
                          /\ customers'[i] = request[r].c
                          /\ request[r].c.account = Owner[call[r].tx]
                          /\ \/ ~IdentityVerified(request[r].c)
                             \/ \E f \in Field : request[r].c.fields[f] = Blank
    OBVIOUS
  <2>1. /\ r \in Request /\ request[r].c \in Record /\ request[r].id \in Id
        /\ request[r].pc = "save" /\ request[r].c.status # "ACCEPTED"
        /\ Saved(r)
    BY SentBack, InteractiveAssumption, Working DEF PageInv, Inv
  <2>2. ~IdentityVerified(request[r].c) \/ ~HasAll(request[r].c, Field)
    BY <2>1 DEF PageInv, GivenInv, Complete
  <2>3. customers'[request[r].id] = request[r].c
    BY <2>1 DEF PageInv, Inv, TypeOK, Saved
  <2>4. request[r].c.account = Owner[call[r].tx]
    BY DEF PageInv, PostInv, Posting, Service!At
  <2>5. QED
    BY <2>1, <2>2, <2>3, <2>4 DEF HasAll
<1>2. QED
  BY <1>1, PageInvariance, PTL DEF PageSpec
-----------------------------------------------------------------------------
(* What is proved of WithdrawalService, of the page.  The assumptions      *)
(* there are those of StartAssumption and InteractiveAssumption.           *)

Starts == INSTANCE ServiceProofs WITH
    Forms <- Browser, customer <- CustomerView

\* ServiceProofs speaks of the specification that the page implements.
LEMMA SameService == Service!ServiceSpec <=> Starts!ServiceSpec
<1>1. Starts!ServiceInit <=> Service!ServiceInit
  BY DEF Starts!ServiceInit, Service!ServiceInit, Starts!PlatformInit,
         Service!PlatformInit, Starts!NoMemo, Service!NoMemo, Starts!NoRef,
         Service!NoRef, Starts!Customer, Service!Customer, Starts!Caller,
         Service!Caller, Starts!Idle, Service!Idle
<1>2. Starts!ServiceNext <=> Service!ServiceNext
  BY DEF Starts!NoMemo, Service!NoMemo, Starts!NoRef, Service!NoRef,
         Starts!ServiceNext, Service!ServiceNext, Starts!Customer,
         Service!Customer, Starts!Idle, Service!Idle, Starts!Caller,
         Service!Caller, Starts!CustomerChanges, Service!CustomerChanges,
         Starts!FormStep, Service!FormStep, Starts!FormOpen, Service!FormOpen,
         Starts!FormPut, Service!FormPut, Starts!StartStep, Service!StartStep,
         Starts!StartGet, Service!StartGet, Starts!StartCreate,
         Service!StartCreate, Starts!StartInsert, Service!StartInsert,
         Starts!StartReget, Service!StartReget, Starts!StartRequest,
         Service!StartRequest, Starts!StartUpdate, Service!StartUpdate,
         Starts!Restart, Service!Restart, Starts!PlatformStep,
         Service!PlatformStep, Starts!PaymentMatched, Service!PaymentMatched,
         Starts!OperatorResolves, Service!OperatorResolves, Starts!Set,
         Service!Set, Starts!RequestOnchainFunds, Service!RequestOnchainFunds,
         Starts!At, Service!At, Starts!Goto, Service!Goto, Starts!Return,
         Service!Return, Starts!Enter, Service!Enter, Starts!BankGiven,
         Service!BankGiven, Starts!Quotable, Service!Quotable, Starts!Payable,
         Service!Payable, Starts!Worth, Service!Worth, Starts!Fixed,
         Service!Fixed, Starts!AtLeast, Service!AtLeast, Starts!Format,
         Service!Format, Starts!NewDoc, Service!NewDoc, Starts!Free, Service!Free,
         Starts!Write, Service!Write
<1>3. [Starts!ServiceNext]_(Starts!serviceVars)
        <=> [Service!ServiceNext]_(Service!serviceVars)
  BY <1>2 DEF Starts!serviceVars, Service!serviceVars
<1>4. QED
  BY <1>1, <1>3, PTL DEF Starts!ServiceSpec, Service!ServiceSpec

\* The page's constants are such as ServiceProofs assumes.
LEMMA StartsAssumed ==
  /\ Tx \subseteq Nat \ {Starts!NoMemo} /\ Starts!NoRef \notin Ref
  /\ NoDoc \notin Starts!Doc
  BY StartAssumption
     DEF Starts!NoMemo, Service!NoMemo, Starts!NoRef, Service!NoRef, Starts!Doc, Service!Doc

\* With the real customers, what SAP tells the user is what is recorded, and
\* nothing below the minimum is.
THEOREM PageQuoteTold ==
  PageSpec => [](Service!QuoteAgreement /\ Service!AboveMinimum)
<1>1. Starts!ServiceSpec => []Starts!QuoteAgreement
  BY Starts!ServiceQuoteTold, StartsAssumed, StartAssumption, InteractiveAssumption
<1>2. Starts!ServiceSpec => []Starts!AboveMinimum
  BY Starts!ServiceMinimumSafe, StartsAssumed, StartAssumption, InteractiveAssumption
<1>3. Starts!QuoteAgreement /\ Starts!AboveMinimum
        => Service!QuoteAgreement /\ Service!AboveMinimum
  BY DEF Starts!QuoteAgreement, Service!QuoteAgreement,
         Starts!AboveMinimum, Service!AboveMinimum
<1>4. QED
  BY PageImplements, SameService, <1>1, <1>2, <1>3, PTL DEF ServiceHolds

\* And the first recorded quote stays, whatever becomes of the customer.
THEOREM PageQuoteSafe == PageSpec => Service!QuoteIsFinal
<1>1. Starts!ServiceSpec => Starts!QuoteIsFinal
  BY Starts!ServiceQuoteSafe, StartsAssumed, StartAssumption, InteractiveAssumption
<1>2. Starts!QuoteIsFinal <=> Service!QuoteIsFinal
  BY DEF Starts!QuoteIsFinal, Service!QuoteIsFinal, Starts!Quoted, Service!Quoted,
         Starts!serviceVars, Service!serviceVars
<1>3. QED
  BY PageImplements, SameService, <1>1, <1>2, PTL DEF ServiceHolds

\* And the page says "pay" only with the memo on record.
THEOREM PageStartedSafe == PageSpec => Service!StartedIsRecorded
<1>1. Starts!ServiceSpec => Starts!StartedIsRecorded
  BY Starts!StartedSafe, StartsAssumed, StartAssumption, InteractiveAssumption
<1>2. Starts!StartedIsRecorded <=> Service!StartedIsRecorded
  BY DEF Starts!StartedIsRecorded, Service!StartedIsRecorded,
         Starts!serviceVars, Service!serviceVars
<1>3. QED
  BY PageImplements, SameService, <1>1, <1>2, PTL DEF ServiceHolds
=============================================================================
