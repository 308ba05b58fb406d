---------------------------- MODULE CustomerProofs ----------------------------
(***************************************************************************)
(* Proofs about module Customer, for any number of accounts, ids, requests *)
(* and fields, and any values: the types, VerifiedWasCleared and           *)
(* AcceptedIsPayable.                                                      *)
(*                                                                         *)
(* VerifiedWasCleared is not inductive.  settle turns NEEDS_INFO into      *)
(* ACCEPTED without asking KYC, so a record may only be NEEDS_INFO with an *)
(* identity KYC decided about when the decision was to accept it.  That    *)
(* holds because a field, once given, is never blank again (Merge): a      *)
(* rejected record can not go back to NEEDS_INFO through an incomplete     *)
(* identity.  Kept says so of every record, stored or in a request's hand. *)
(***************************************************************************)
EXTENDS Customer, TLAPS

\* What is true of a record whatever fields were merged into it: KYC only
\* ever ran on a complete identity, and a standing decision that was not a
\* refusal cleared the identity it was about.
Kept(c, cl) ==
    /\ c.verified # NotVerified \/ c.pending => HasAll(c, IdentityField)
    /\ /\ c.verified # NotVerified
       /\ ~c.pending
       /\ c.status \in {"ACCEPTED", "NEEDS_INFO"}
       => c.verified \in cl

\* What settle adds.
Settled(c) ==
    c.status = "ACCEPTED" => IdentityVerified(c) /\ HasAll(c, Field)

StoredInv ==
    \A i \in Id :
        customers[i] # NoCustomer =>
            Kept(customers[i], cleared) /\ Settled(customers[i])

RequestInv ==
    \A r \in Request :
        /\ request[r].pc = "verify" =>
              Kept(request[r].c, cleared) /\ HasAll(request[r].c, IdentityField)
        /\ request[r].pc = "save" =>
              Kept(request[r].c, cleared) /\ Settled(request[r].c)

Inv == TypeOK /\ StoredInv /\ RequestInv
-----------------------------------------------------------------------------
(* Lemmas about settle and Merge.                                          *)

\* A complete identity is an identity, and no other value.
LEMMA IdentityType ==
    ASSUME NEW c \in Record, HasAll(c, IdentityField)
    PROVE  IdentityOf(c) \in Identity /\ IdentityOf(c) # NotVerified
  BY CustomerAssumption DEF IdentityOf, Identity, Record, Fields, HasAll

\* Whoever counts as verified has been decided about.
LEMMA VerifiedDecided ==
    ASSUME NEW c \in Record, IdentityVerified(c)
    PROVE  c.verified = IdentityOf(c) /\ c.verified # NotVerified
  <1>1. c.verified = IdentityOf(c)
    BY DEF IdentityVerified, IdentityChanged
  <1>2. IdentityOf(c) \in [IdentityField -> Value \cup {Blank}]
    BY CustomerAssumption DEF Record, IdentityOf, Fields
  <1> QED BY <1>1, <1>2, CustomerAssumption

\* What was kept stays so while Dojah clears more identities.
LEMMA KeptGrows ==
    ASSUME NEW c, NEW cl, NEW more, cl \subseteq more, Kept(c, cl)
    PROVE  Kept(c, more)
  BY DEF Kept

\* Merging the fields of a PUT never blanks one.
LEMMA MergeKeeps ==
    ASSUME NEW c \in Record, NEW given \in Fields, NEW cl, Kept(c, cl)
    PROVE  Merge(c, given) \in Record /\ Kept(Merge(c, given), cl)
  <1> DEFINE m == Merge(c, given)
  <1>1. m \in Record
    BY DEF Merge, Record, Fields
  <1>2. /\ m.verified = c.verified
        /\ m.pending = c.pending
        /\ m.status = c.status
    BY DEF Merge, Record
  <1>3. HasAll(c, IdentityField) => HasAll(m, IdentityField)
    BY CustomerAssumption DEF HasAll, Merge, Record, Fields
  <1>4. Kept(m, cl)
    BY <1>2, <1>3 DEF Kept
  <1> QED BY <1>1, <1>4

\* An empty record has had no KYC.
LEMMA NewKept ==
    ASSUME NEW a \in Account, NEW cl
    PROVE  NewCustomer(a) \in Record /\ Kept(NewCustomer(a), cl)
  BY DEF NewCustomer, Record, Fields, CustomerStatus, Kept

\* WhenComplete never weakens what is known of a record.
LEMMA Completing ==
    ASSUME NEW c \in Record, NEW cl, Kept(c, cl),
           c.status = "ACCEPTED" => IdentityVerified(c)
    PROVE  /\ WhenComplete(c) \in Record
           /\ Kept(WhenComplete(c), cl)
           /\ Settled(WhenComplete(c))
  <1>1. CASE c.status = "ACCEPTED" /\ ~HasAll(c, Field)
    <2> DEFINE d == [c EXCEPT !.status = "NEEDS_INFO"]
    <2>1. WhenComplete(c) = d
      BY <1>1 DEF WhenComplete
    <2>2. /\ d \in Record /\ d.status = "NEEDS_INFO" /\ d.verified = c.verified
          /\ d.pending = c.pending /\ d.fields = c.fields
      BY DEF Record, CustomerStatus
    <2>3. Kept(d, cl)
      BY <1>1, <2>2 DEF Kept, HasAll
    <2> QED BY <2>1, <2>2, <2>3 DEF Settled
  <1>2. CASE ~(c.status = "ACCEPTED" /\ ~HasAll(c, Field))
    BY <1>2 DEF WhenComplete, Settled
  <1> QED BY <1>1, <1>2

\* settle without KYC.
LEMMA Settling ==
    ASSUME NEW c \in Record, NEW cl, Kept(c, cl), ~NeedsKyc(c)
    PROVE  Settle(c) \in Record /\ Kept(Settle(c), cl) /\ Settled(Settle(c))
  <1>1. CASE ~HasAll(c, IdentityField)
    <2> DEFINE d == [c EXCEPT !.status = "NEEDS_INFO", !.pending = FALSE]
    <2>1. /\ d \in Record /\ d.status = "NEEDS_INFO" /\ d.verified = c.verified
          /\ d.pending = FALSE
      BY DEF Record, CustomerStatus
    <2>2. c.verified = NotVerified
      BY <1>1 DEF Kept
    <2>3. Kept(d, cl)
      BY <2>1, <2>2 DEF Kept
    <2>4. Settle(c) = WhenComplete(d)
      BY <1>1 DEF Settle
    <2> QED BY <2>1, <2>3, <2>4, Completing
  <1>2. CASE HasAll(c, IdentityField)
    <2>1. ~c.pending /\ ~IdentityChanged(c)
      BY <1>2 DEF NeedsKyc
    <2>2. c.verified = IdentityOf(c) /\ c.verified # NotVerified
      BY <1>2, <2>1, IdentityType DEF IdentityChanged
    <2>3. CASE c.status = "NEEDS_INFO"
      <3> DEFINE d == [c EXCEPT !.status = "ACCEPTED"]
      <3>1. /\ d \in Record /\ d.status = "ACCEPTED" /\ d.verified = c.verified
            /\ d.pending = c.pending /\ d.fields = c.fields
        BY DEF Record, CustomerStatus
      <3>2. Kept(d, cl)
        BY <2>3, <3>1, <1>2 DEF Kept, HasAll
      <3>3. IdentityVerified(d)
        BY <2>1, <3>1 DEF IdentityVerified, IdentityChanged, IdentityOf
      <3>4. Settle(c) = WhenComplete(d)
        BY <1>2, <2>3 DEF Settle
      <3> QED BY <3>1, <3>2, <3>3, <3>4, Completing
    <2>4. CASE c.status # "NEEDS_INFO"
      <3>1. Settle(c) = WhenComplete(c)
        BY <1>2, <2>4 DEF Settle
      <3>2. c.status = "ACCEPTED" => IdentityVerified(c)
        BY <2>1 DEF IdentityVerified
      <3> QED BY <3>1, <3>2, Completing
    <2> QED BY <2>3, <2>4
  <1> QED BY <1>1, <1>2

\* dojah.go accepts only what Dojah found and cleared.
LEMMA AcceptsOnlyCleared ==
    ASSUME NEW o \in Outcomes
    PROVE  /\ o.decision \in {"none", "REJECTED", "PROCESSING", "ACCEPTED"}
           /\ o.decision = "ACCEPTED" => o.found /\ o.clean
  <1>1. PICK a \in Answer :
          o = [decision |-> Decision(a), found |-> Found(a), clean |-> Clean(a)]
    BY DEF Outcomes
  <1>2. /\ Check(a) \in {"none", "REJECTED", "ACCEPTED"}
        /\ Check(a) = "ACCEPTED" => Found(a)
    BY DEF Check, Do, Found, NamesMatch, Answer, Http, Flag
  <1>3. /\ Screen(a) \in {"none", "REJECTED", "PROCESSING", "ACCEPTED"}
        /\ Screen(a) = "ACCEPTED" => Clean(a)
    BY DEF Screen, Do, Clean, Answer, Http
  <1> QED BY <1>1, <1>2, <1>3 DEF Decision

\* settle with KYC's decision d: accepting an identity means it was cleared.
LEMMA Deciding ==
    ASSUME NEW c \in Record, NEW cl, Kept(c, cl), HasAll(c, IdentityField),
           NEW d \in {"none", "REJECTED", "PROCESSING", "ACCEPTED"},
           d = "ACCEPTED" => IdentityOf(c) \in cl
    PROVE  Verified(c, d) \in Record /\ Kept(Verified(c, d), cl)
              /\ Settled(Verified(c, d))
  <1>1. CASE d = "none"
    <2> DEFINE e == [c EXCEPT !.status = "PROCESSING", !.pending = TRUE]
    <2>1. /\ e \in Record /\ e.status = "PROCESSING" /\ e.pending
          /\ e.fields = c.fields
      BY DEF Record, CustomerStatus
    <2>2. Kept(e, cl)
      BY <2>1 DEF Kept, HasAll
    <2>3. Verified(c, d) = WhenComplete(e)
      BY <1>1 DEF Verified
    <2> QED BY <2>1, <2>2, <2>3, Completing
  <1>2. CASE d # "none"
    <2> DEFINE e == [c EXCEPT !.status = d, !.pending = FALSE,
                              !.verified = IdentityOf(c)]
    <2>1. /\ e \in Record /\ e.status = d /\ ~e.pending
          /\ e.fields = c.fields /\ e.verified = IdentityOf(c)
      BY <1>2, IdentityType DEF Record, CustomerStatus
    <2>2. Kept(e, cl)
      BY <1>2, <2>1 DEF Kept, HasAll
    <2>3. e.status = "ACCEPTED" => IdentityVerified(e)
      BY <2>1 DEF IdentityVerified, IdentityChanged, IdentityOf
    <2>4. Verified(c, d) = WhenComplete(e)
      BY <1>2 DEF Verified
    <2> QED BY <2>1, <2>2, <2>3, <2>4, Completing
  <1> QED BY <1>1, <1>2
-----------------------------------------------------------------------------
(* The invariant.                                                          *)

\* What a request holds, by what it does next.
LEMMA InHand ==
    ASSUME TypeOK, NEW r \in Request, request[r].pc \in {"verify", "save"}
    PROVE  request[r] \in Busy /\ request[r].id \in Id /\ request[r].c \in Record
  BY DEF TypeOK, Busy, Idle

\* A request that begins with a kept record holds what RequestInv asks.
LEMMA Beginning ==
    ASSUME Inv, NEW r \in Request, NEW i \in Id, NEW c \in Record,
           Kept(c, cleared), Begin(r, i, c), UNCHANGED cleared
    PROVE  request' \in [Request -> Busy \cup {Idle}] /\ RequestInv'
  <1> DEFINE n == IF NeedsKyc(c) THEN [pc |-> "verify", id |-> i, c |-> c]
                                 ELSE [pc |-> "save", id |-> i, c |-> Settle(c)]
  <1>1. n \in Busy
    BY Settling DEF Busy
  <1>2. request' = [request EXCEPT ![r] = n]
    BY DEF Begin
  <1>3. request' \in [Request -> Busy \cup {Idle}]
    BY <1>1, <1>2 DEF Inv, TypeOK
  <1>4. /\ n.pc = "verify" => Kept(n.c, cleared) /\ HasAll(n.c, IdentityField)
        /\ n.pc = "save" => Kept(n.c, cleared) /\ Settled(n.c)
    BY Settling DEF NeedsKyc
  <1>5. \A q \in Request : request'[q] = IF q = r THEN n ELSE request[q]
    BY <1>2 DEF Inv, TypeOK
  <1> HIDE DEF n
  <1>6. RequestInv'
    BY <1>4, <1>5 DEF Inv, RequestInv
  <1> QED BY <1>3, <1>6

\* No records and no requests: the invariant holds at the start.
LEMMA InitInv == Init => Inv
  BY DEF Init, Inv, TypeOK, StoredInv, RequestInv, Idle

\* Every request, deletion and crash keeps the invariant.
LEMMA StepInv == Inv /\ [Next]_vars => Inv'
  <1> SUFFICES ASSUME Inv, [Next]_vars PROVE Inv'
    OBVIOUS
  <1>1. ASSUME NEW r \in Request, Get(r) PROVE Inv'
    <2>1. PICK i \in Id : customers[i] # NoCustomer /\ Begin(r, i, customers[i])
      BY <1>1 DEF Get
    <2>2. customers[i] \in Record /\ Kept(customers[i], cleared)
      BY <2>1 DEF Inv, TypeOK, StoredInv
    <2>3. UNCHANGED <<customers, issued, cleared, deleted>>
      BY <1>1 DEF Get
    <2>4. request' \in [Request -> Busy \cup {Idle}] /\ RequestInv'
      BY <2>1, <2>2, <2>3, Beginning
    <2> QED BY <2>3, <2>4 DEF Inv, TypeOK, StoredInv
  <1>2. ASSUME NEW r \in Request, NEW given \in Fields, Put(r, given) PROVE Inv'
    <2>1. PICK i \in Id : /\ customers[i] # NoCustomer
                          /\ Begin(r, i, Merge(customers[i], given))
      BY <1>2 DEF Put
    <2>2. customers[i] \in Record /\ Kept(customers[i], cleared)
      BY <2>1 DEF Inv, TypeOK, StoredInv
    <2>3. UNCHANGED <<customers, issued, cleared, deleted>>
      BY <1>2 DEF Put
    <2>4. request' \in [Request -> Busy \cup {Idle}] /\ RequestInv'
      BY <2>1, <2>2, <2>3, MergeKeeps, Beginning
    <2> QED BY <2>3, <2>4 DEF Inv, TypeOK, StoredInv
  <1>3. ASSUME NEW r \in Request, NEW a \in Account, NEW given \in Fields,
               PutNew(r, a, given)
        PROVE  Inv'
    <2>1. PICK i \in Id \ issued : /\ issued' = issued \cup {i}
                                   /\ Begin(r, i, Merge(NewCustomer(a), given))
      BY <1>3 DEF PutNew
    <2>2. /\ Merge(NewCustomer(a), given) \in Record
          /\ Kept(Merge(NewCustomer(a), given), cleared)
      BY NewKept, MergeKeeps
    <2>3. UNCHANGED <<customers, cleared, deleted>>
      BY <1>3 DEF PutNew
    <2>4. request' \in [Request -> Busy \cup {Idle}] /\ RequestInv'
      BY <2>1, <2>2, <2>3, Beginning
    <2> QED BY <2>1, <2>3, <2>4 DEF Inv, TypeOK, StoredInv
  <1>4. ASSUME NEW r \in Request, Verify(r) PROVE Inv'
    <2> DEFINE c == request[r].c
    <2>1. /\ request[r] \in Busy /\ c \in Record
          /\ Kept(c, cleared) /\ HasAll(c, IdentityField)
      BY <1>4, InHand DEF Verify, Inv, RequestInv
    <2>2. PICK o \in Outcomes :
             /\ request' = [request EXCEPT ![r] =
                    [@ EXCEPT !.pc = "save", !.c = Verified(c, o.decision)]]
             /\ cleared' = IF o.found /\ o.clean
                           THEN cleared \cup {IdentityOf(c)} ELSE cleared
      BY <1>4 DEF Verify
    <2> DEFINE d == o.decision
               n == [request[r] EXCEPT !.pc = "save", !.c = Verified(c, d)]
    <2>3. /\ d \in {"none", "REJECTED", "PROCESSING", "ACCEPTED"}
          /\ d = "ACCEPTED" => o.found /\ o.clean
      BY AcceptsOnlyCleared
    <2>4. cleared \subseteq cleared' /\ cleared' \subseteq Identity
      BY <2>1, <2>2, IdentityType DEF Inv, TypeOK
    <2>5. d = "ACCEPTED" => IdentityOf(c) \in cleared'
      BY <2>2, <2>3
    <2>6. Kept(c, cleared')
      BY <2>1, <2>4, KeptGrows
    <2>7. /\ Verified(c, d) \in Record /\ Kept(Verified(c, d), cleared')
          /\ Settled(Verified(c, d))
      <3> HIDE DEF c, d
      <3> QED BY <2>1, <2>3, <2>5, <2>6, Deciding
    <2>8. UNCHANGED <<customers, issued, deleted>>
      BY <1>4 DEF Verify
    <2>9. n \in Busy /\ n.pc = "save" /\ n.c = Verified(c, d)
      BY <2>1, <2>7 DEF Busy
    <2>10. request' = [request EXCEPT ![r] = n]
      BY <2>2 DEF Inv, TypeOK
    <2> HIDE DEF n, c, d
    <2>11. TypeOK'
      BY <2>4, <2>8, <2>9, <2>10 DEF Inv, TypeOK
    <2>12. StoredInv'
      BY <2>4, <2>8, KeptGrows DEF Inv, StoredInv
    <2>13. \A q \in Request : request'[q] = IF q = r THEN n ELSE request[q]
      BY <2>10 DEF Inv, TypeOK
    <2>14. RequestInv'
      BY <2>4, <2>7, <2>9, <2>13, KeptGrows DEF Inv, RequestInv
    <2> QED BY <2>11, <2>12, <2>14 DEF Inv
  <1>5. ASSUME NEW r \in Request, Save(r) PROVE Inv'
    <2>1. /\ request[r].id \in Id /\ request[r].c \in Record
          /\ Kept(request[r].c, cleared) /\ Settled(request[r].c)
      BY <1>5, InHand DEF Save, Saved, Unsaved, Answered, Inv, RequestInv
    <2>2. /\ \/ customers' = [customers EXCEPT ![request[r].id] = request[r].c]
             \/ UNCHANGED customers
          /\ request' = [request EXCEPT ![r] = Idle]
          /\ UNCHANGED <<issued, cleared, deleted>>
      BY <1>5 DEF Save, Saved, Unsaved, Answered
    <2>3. TypeOK'
      BY <2>1, <2>2 DEF Inv, TypeOK
    <2>4. \A i \in Id : customers'[i] = customers[i] \/ customers'[i] = request[r].c
      BY <2>1, <2>2 DEF Inv, TypeOK
    <2>5. StoredInv'
      BY <2>1, <2>2, <2>4 DEF Inv, StoredInv
    <2>6. \A q \in Request : request'[q] = request[q] \/ request'[q] = Idle
      BY <2>2 DEF Inv, TypeOK
    <2>7. RequestInv'
      BY <2>2, <2>6 DEF Inv, RequestInv, Idle
    <2> QED BY <2>3, <2>5, <2>7 DEF Inv
  <1>6. ASSUME NEW i \in Id, Delete(i) PROVE Inv'
    <2>1. TypeOK'
      BY <1>6 DEF Delete, Inv, TypeOK
    <2>2. StoredInv'
      BY <1>6 DEF Delete, Inv, TypeOK, StoredInv
    <2>3. RequestInv'
      BY <1>6 DEF Delete, Inv, RequestInv
    <2> QED BY <2>1, <2>2, <2>3 DEF Inv
  <1>7. CASE Crash
    BY <1>7 DEF Crash, Inv, TypeOK, StoredInv, RequestInv, Idle
  <1>8. CASE UNCHANGED vars
    BY <1>8 DEF vars, Inv, TypeOK, StoredInv, RequestInv
  <1> QED BY <1>1, <1>2, <1>3, <1>4, <1>5, <1>6, <1>7, <1>8 DEF Next, Given

\* The invariant holds in every reachable state.
LEMMA Invariance == Spec => []Inv
  BY InitInv, StepInv, PTL DEF Spec

\* Every variable stays in its type.
THEOREM CustomerTypeCorrect == Spec => []TypeOK
  <1>1. Inv => TypeOK
    BY DEF Inv
  <1> QED BY <1>1, Invariance, PTL

\* Whoever counts as verified was cleared.
LEMMA InvCleared == Inv => VerifiedWasCleared
  <1> SUFFICES ASSUME Inv, NEW i \in Id, customers[i] # NoCustomer,
                      IdentityVerified(customers[i])
               PROVE  IdentityOf(customers[i]) \in cleared
    BY DEF VerifiedWasCleared
  <1> DEFINE c == customers[i]
  <1>1. c \in Record /\ Kept(c, cleared)
    BY DEF Inv, TypeOK, StoredInv
  <1> QED BY <1>1, VerifiedDecided DEF Kept, IdentityVerified

\* A customer is treated as verified (service.go, IdentityVerified) only with
\* an identity that Dojah matched and found on no list.
THEOREM VerifiedSafe == Spec => []VerifiedWasCleared
  BY InvCleared, Invariance, PTL

\* A customer on record as ACCEPTED can be paid: a verified identity, and no
\* required field missing.
THEOREM AcceptedSafe == Spec => []AcceptedIsPayable
  <1>1. Inv => AcceptedIsPayable
    BY DEF Inv, StoredInv, Settled, AcceptedIsPayable
  <1> QED BY <1>1, Invariance, PTL
-----------------------------------------------------------------------------
(* Deletion.                                                               *)

\* An id is handed out before anything has it.
IssuedInv ==
    /\ \A i \in Id : customers[i] # NoCustomer => i \in issued
    /\ \A r \in Request : request[r] # Idle => request[r].id \in issued
    /\ deleted \subseteq issued

\* What is left of DeletedStaysDeleted: a deleted record that no request has
\* in hand.
Gone(i) ==
    /\ i \in deleted
    /\ customers[i] = NoCustomer
    /\ \A r \in Request : request[r] # Idle => request[r].id # i

\* What a step does to the ids: a request takes up a stored record or a new
\* id, keeps the one it has, and may store a record under it.
LEMMA IdSteps ==
  ASSUME TypeOK, [Next]_vars
  PROVE  /\ issued \subseteq issued' /\ deleted \subseteq deleted'
         /\ \A i \in Id : i \in deleted' \ deleted => customers[i] # NoCustomer
         /\ \A i \in Id : customers[i] = NoCustomer /\ customers'[i] # NoCustomer =>
               \E r \in Request : request[r] # Idle /\ request[r].id = i
         /\ \A r \in Request : request'[r] # Idle =>
               \/ request[r] # Idle /\ request'[r].id = request[r].id
               \/ request'[r].id \in Id /\ customers[request'[r].id] # NoCustomer
               \/ request'[r].id \in issued' \ issued
<1> DEFINE Taken(q) ==
      \/ request[q] # Idle /\ request'[q].id = request[q].id
      \/ request'[q].id \in Id /\ customers[request'[q].id] # NoCustomer
      \/ request'[q].id \in issued' \ issued
<1> DEFINE Goal ==
      /\ issued \subseteq issued' /\ deleted \subseteq deleted'
      /\ \A i \in Id : i \in deleted' \ deleted => customers[i] # NoCustomer
      /\ \A i \in Id : customers[i] = NoCustomer /\ customers'[i] # NoCustomer =>
            \E r \in Request : request[r] # Idle /\ request[r].id = i
      /\ \A q \in Request : request'[q] # Idle => Taken(q)
<1>1. ASSUME NEW r \in Request, NEW i \in Id, NEW c, Begin(r, i, c)
      PROVE  \A q \in Request : request'[q] = request[q] \/ (q = r /\ request'[q].id = i)
  BY <1>1 DEF Begin, TypeOK
<1>2. ASSUME NEW r \in Request,
             Get(r) \/ \E given \in Given : Put(r, given)
      PROVE  Goal
  <2>1. PICK i \in Id : customers[i] # NoCustomer /\ \E c : Begin(r, i, c)
    BY <1>2 DEF Get, Put
  <2>2. \A q \in Request : request'[q] = request[q] \/ (q = r /\ request'[q].id = i)
    BY <1>1, <2>1
  <2>3. UNCHANGED <<customers, issued, deleted>>
    BY <1>2 DEF Get, Put
  <2>4. QED
    BY <2>1, <2>2, <2>3
<1>3. ASSUME NEW r \in Request, NEW a \in Account, NEW given \in Given, PutNew(r, a, given)
      PROVE  Goal
  <2>1. PICK i \in Id \ issued : issued' = issued \cup {i} /\ \E c : Begin(r, i, c)
    BY <1>3 DEF PutNew
  <2>2. \A q \in Request : request'[q] = request[q] \/ (q = r /\ request'[q].id = i)
    BY <1>1, <2>1
  <2>3. UNCHANGED <<customers, deleted>>
    BY <1>3 DEF PutNew
  <2>4. QED
    BY <2>1, <2>2, <2>3
<1>4. ASSUME NEW r \in Request, Verify(r)
      PROVE  Goal
  <2>1. request[r] # Idle /\ request[r] \in Busy
    BY <1>4 DEF Verify, TypeOK, Idle
  <2>2. \E c : request' = [request EXCEPT ![r] = [@ EXCEPT !.pc = "save", !.c = c]]
    BY <1>4 DEF Verify
  <2>3. \A q \in Request :
            request'[q] = request[q] \/ (q = r /\ request'[q].id = request[q].id)
    BY <2>1, <2>2 DEF TypeOK, Busy
  <2>4. UNCHANGED <<customers, issued, deleted>>
    BY <1>4 DEF Verify
  <2>5. QED
    BY <2>1, <2>3, <2>4
<1>5. ASSUME NEW r \in Request, Save(r)
      PROVE  Goal
  <2>1. request[r] # Idle /\ request[r] \in Busy
    BY <1>5 DEF Save, Saved, Unsaved, Answered, TypeOK, Idle
  <2>2. /\ \A q \in Request : request'[q] = request[q] \/ request'[q] = Idle
        /\ UNCHANGED <<issued, deleted>>
        /\ \A i \in Id : i # request[r].id => customers'[i] = customers[i]
    BY <1>5, <2>1 DEF Save, Saved, Unsaved, Answered, TypeOK, Busy
  <2>3. QED
    BY <2>1, <2>2
<1>6. ASSUME NEW i \in Id, Delete(i)
      PROVE  Goal
  BY <1>6 DEF Delete, TypeOK
<1>7. CASE Crash
  BY <1>7 DEF Crash
<1>8. CASE UNCHANGED vars
  BY <1>8 DEF vars
<1>9. QED
  BY <1>2, <1>3, <1>4, <1>5, <1>6, <1>7, <1>8 DEF Next

\* Every step keeps the order of things.
LEMMA IssuedStep ==
  ASSUME TypeOK, IssuedInv, [Next]_vars
  PROVE  IssuedInv'
<1>1. TypeOK /\ issued \subseteq issued'
  BY IdSteps
<1>2. \A r \in Request : request'[r] # Idle => request'[r].id \in issued'
  BY IdSteps DEF IssuedInv
<1>3. \A i \in Id : customers'[i] # NoCustomer => i \in issued'
  BY IdSteps DEF IssuedInv
<1>4. deleted' \subseteq issued'
  <2>1. deleted' \subseteq Id \cup deleted
    BY DEF Next, Get, Put, PutNew, Verify, Save, Saved, Unsaved, Answered, Delete, Crash,
           vars
  <2>2. QED
    BY <2>1, IdSteps DEF IssuedInv, TypeOK
<1>5. QED
  BY <1>2, <1>3, <1>4 DEF IssuedInv

\* A customer deleted while no request has the record in hand is gone for
\* good: no later PUT, of the same account or another, brings the record back.
THEOREM DeletedSafe == Spec => [][\A i \in Id : Gone(i) => Gone(i)']_vars
<1>1. Init => IssuedInv
  BY DEF Init, IssuedInv
<1>2. Inv /\ IssuedInv /\ [Next]_vars => IssuedInv'
  BY IssuedStep DEF Inv
<1>3. Inv /\ IssuedInv /\ [Next]_vars => [\A i \in Id : Gone(i) => Gone(i)']_vars
  <2> SUFFICES ASSUME Inv, IssuedInv, [Next]_vars, NEW i \in Id, Gone(i)
               PROVE  Gone(i)'
    OBVIOUS
  <2>1. i \in issued /\ i \in deleted'
    BY IdSteps DEF Inv, IssuedInv, Gone
  <2>2. customers'[i] = NoCustomer
    BY IdSteps DEF Inv, Gone
  <2>3. \A r \in Request : request'[r] # Idle => request'[r].id # i
    BY <2>1, IdSteps DEF Inv, Gone
  <2>4. QED
    BY <2>1, <2>2, <2>3 DEF Gone
<1>4. QED
  BY <1>1, <1>2, <1>3, Invariance, PTL DEF Spec
=============================================================================
