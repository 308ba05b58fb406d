--------------------------- MODULE ReconcilerProofs ---------------------------
(***************************************************************************)
(* Proofs about the reconciler and the processor it runs next to, for any  *)
(* number of withdrawals, pages and forms, and for every ledger.           *)
(*                                                                         *)
(* The reconciler overwrites whole records with copies read some calls     *)
(* earlier, next to goroutines that do the same.  What makes the results   *)
(* it leaves true: SAP's and core's word on a completed withdrawal is the  *)
(* last one, no other writer of its record knows any result but "none",    *)
(* and every copy has the quote of the record it replaces.                 *)
(***************************************************************************)
EXTENDS Reconciler, ContractProofs

IsCompleted(t) == sap[t].status = "completed"

\* SAP, the ledger and core agree about t, for good.
Agrees(t) ==
    /\ IsCompleted(t)
    /\ sap[t].stellar \subseteq onLedger
    /\ Received(t) = sap[t].askedIn
    /\ core[t] # NoPayout
    /\ core[t].status = "completed"
    /\ core[t].amount = sap[t].askedOut
    /\ core[t].ref = sap[t].ext

\* Before the user is asked to pay there is no result, and neither is there
\* one in the memory of a caller that will still write; the processor never
\* holds a record found in order.
CleanInv ==
    /\ \A t \in Tx :
          store[t] \in Doc /\ store[t].reconcile # "" => sap[t].status # "incomplete"
    /\ \A c \in Caller :
          /\ call[c].pc \in {"insert", "update"} => call[c].w.reconcile = ""
          /\ call[c].pc = "request" /\ call[c].w.reconcile # ""
                => sap[call[c].tx].status # "incomplete"
    /\ step \in InHand => doc.reconcile # "ok"

OrderInv == \A t \in Tx : store[t] \in Doc /\ store[t].reconcile = "ok" => Agrees(t)

\* What the reconciler works on is completed, and the result it is about to
\* write is true.
Busy == {"get", "compare", "alert", "save"}

HeldInv ==
    /\ \A t \in todo : IsCompleted(t)
    /\ rstep \in Busy => IsCompleted(rcur)
    /\ rstep \in {"compare", "alert", "save"} =>
          /\ rdoc \in Doc
          /\ store[rcur] \in Doc
          /\ Quoted(rdoc) = Quoted(store[rcur])
    /\ rstep = "compare" => store[rcur].reconcile = ""
    /\ rstep = "alert" => rdoc.reconcile = "mismatch"
    /\ rstep = "save" =>
          \/ rdoc.reconcile = "ok" /\ Agrees(rcur)
          \/ rdoc.reconcile = "mismatch" /\ rcur \in reported

ResultInv ==
    \A t \in compared :
        /\ IsCompleted(t)
        /\ store[t] \in Doc
        /\ store[t].reconcile = "mismatch" => t \in reported

WalkTypeOK ==
    /\ sep \in {"24", "6"}
    /\ page \in 0 .. MaxPages - 1
    /\ full \in BOOLEAN
    /\ todo \subseteq Tx
    /\ rstep \in {"list", "next", "get", "compare", "alert", "save"}
    /\ rcur \in Tx
    /\ rdoc \in Doc \cup {NoDoc}
    /\ compared \subseteq Tx
    /\ reported \subseteq Tx

Shared == FullInv /\ CleanInv /\ OrderInv
RInv == Shared /\ WalkTypeOK /\ HeldInv /\ ResultInv
-----------------------------------------------------------------------------
(* What the rest of the server does to a completed withdrawal.             *)

\* SAP says nothing more of a completed withdrawal, and never again that one
\* is incomplete.
LEMMA LastWord ==
  ASSUME Inv, [Next]_vars, NEW t \in Tx
  PROVE  /\ IsCompleted(t) => sap'[t] = sap[t]
         /\ sap[t].status # "incomplete" => sap'[t].status # "incomplete"
<1>1. CASE UNCHANGED sap
  BY <1>1
<1>2. CASE SapCalls
  <2>1. PICK u \in Tx :
            /\ \A v \in Tx \ {u} : sap'[v] = sap[v]
            /\ \/ \E c \in Caller : AskEffect(u, call[c].w.amountIn, call[c].w.amountOut)
               \/ MoveEffect(u)
    BY <1>2, SapEffects
  <2>2. CASE u # t
    BY <2>1, <2>2
  <2>3. CASE u = t
    BY <2>1, <2>3 DEF AskEffect, MoveEffect, IsCompleted, Open
  <2>4. QED
    BY <2>2, <2>3
<1>3. QED
  BY <1>1, <1>2, SapMoves

\* What agrees once agrees for ever.
LEMMA AgreesKept ==
  ASSUME Inv, [Next]_vars, NEW t \in Tx, Agrees(t)
  PROVE  Agrees(t)'
<1>1. sap'[t] = sap[t]
  BY LastWord DEF Agrees
<1>2. core'[t] = core[t]
  BY CoreMoves DEF Agrees
<1>3. onLedger \subseteq onLedger'
  BY LedgerGrows
<1>4. Received(t)' = Received(t)
  BY <1>1 DEF Received
<1>5. QED
  BY <1>1, <1>2, <1>3, <1>4 DEF Agrees, IsCompleted

\* Who replaces a record: a caller of Start, by one without a result, or the
\* processor, by the one in its hand.
LEMMA StoreWrites ==
  ASSUME Inv, CleanInv, [Next]_vars, NEW t \in Tx
  PROVE  \/ store'[t] = store[t]
         \/ store'[t] \in Doc /\ store'[t].reconcile = ""
         \/ /\ t = cur /\ step \in InHand /\ store'[t] = doc /\ UNCHANGED sap
            /\ step \notin {"notifyPending", "notifySent"}
<1> USE DEF Inv, TypeOK, ServiceTypeOK
<1>1. ASSUME NEW c \in Caller, StartStep(c)
      PROVE  store'[t] = store[t] \/ (store'[t] \in Doc /\ store'[t].reconcile = "")
  <2>1. CASE StartInsert(c)
    BY <2>1 DEF StartInsert, At, Write, CallInv, Held, CleanInv
  <2>2. CASE StartUpdate(c)
    BY <2>2 DEF StartUpdate, At, Write, CallInv, Held, CleanInv
  <2>3. QED
    BY <1>1, <2>1, <2>2 DEF StartStep, StartGet, StartCreate, StartReget, StartRequest
<1>2. CASE ServiceStep
  <2>1. CASE \E c \in Caller : StartStep(c)
    BY <1>1, <2>1
  <2>2. CASE UNCHANGED store
    BY <2>2
  <2>3. QED
    BY <1>2, <2>1, <2>2
       DEF ServiceStep, FormStep, FormOpen, FormPut, CustomerChanges, PlatformStep, Caller
<1>3. CASE ProcessorStep
  <2>1. CASE \E answered \in BOOLEAN : Save(answered)
    BY <2>1 DEF Save, InHand, Write
  <2>2. CASE UNCHANGED store
    BY <2>2
  <2>3. QED
    BY <1>3, <2>1, <2>2
       DEF ProcessorStep, List, Take, NextList, Started, Load, CheckFunds, PayRejected,
           Query, GetAnswer, NotifyHold, NotifyError, NotifySent, Alert, Pay, NotifyPending,
           CallFails, serviceVars
<1>4. CASE ~ServiceStep /\ ~ProcessorStep
  BY <1>4, ZenonT(30)
     DEF Next, CoreUpdates, LedgerCloses, Crash, Restart, vars, serviceVars
<1>5. QED
  BY <1>2, <1>3, <1>4

\* The withdrawal whose record the processor has is on its way to a payout.
LEMMA HandPending ==
  ASSUME Inv, WalkInv, step \in InHand \cup {"load"}
  PROVE  sap[cur].status \in {"pending_anchor", "pending_external"}
  BY DEF InHand, Inv, TypeOK, WalkInv, HandledInv, PhaseInv, DueStatus, ListedStatus, Phase

\* The result on the record of a completed withdrawal is not replaced by
\* another one.
LEMMA ResultKept ==
  ASSUME Inv, WalkInv, CleanInv, [Next]_vars, NEW t \in Tx, IsCompleted(t)
  PROVE  store'[t] = store[t] \/ (store'[t] \in Doc /\ store'[t].reconcile = "")
  BY StoreWrites, HandPending DEF IsCompleted

\* The result on the record in the processor's hand: the one read, or a
\* mismatch.
LEMMA HandResult ==
  ASSUME Inv, [Next]_vars, step' \in InHand
  PROVE  \/ step \in InHand /\ doc'.reconcile = doc.reconcile
         \/ Load /\ doc' = store[cur]
         \/ doc'.reconcile = "mismatch"
<1> USE DEF Inv
<1> DEFINE Goal ==
      \/ step \in InHand /\ doc'.reconcile = doc.reconcile
      \/ Load /\ doc' = store[cur]
      \/ doc'.reconcile = "mismatch"
<1>1. CASE UNCHANGED volatile
  BY <1>1 DEF volatile
<1>2. ASSUME NEW d \in Doc
      PROVE  /\ [d EXCEPT !.reconcile = "mismatch"].reconcile = "mismatch"
             /\ [d EXCEPT !.payoutStatus = "failed"].reconcile = d.reconcile
             /\ \A p \in Payout :
                   [d EXCEPT !.payoutRef = p.ref, !.payoutStatus = p.status].reconcile
                      = d.reconcile
  BY DEF Doc
<1>3. ASSUME step \in InHand,
             Done \/ Hold(doc) \/ Fail(doc) \/ \E s \in Step : Proceed(s, doc)
      PROVE  Goal
  <2>1. doc \in Doc /\ doc # NoDoc
    BY <1>3, ServiceAssumption DEF HandInv
  <2>2. CASE Done
    BY <2>2 DEF Done, InHand
  <2>3. CASE Hold(doc)
    BY <1>2, <2>1, <2>3 DEF Hold, Proceed
  <2>4. CASE Fail(doc)
    BY <1>2, <1>3, <2>1, <2>4 DEF Fail, Proceed
  <2>5. CASE \E s \in Step : Proceed(s, doc)
    BY <1>3, <2>5 DEF Proceed
  <2>6. QED
    BY <1>3, <2>2, <2>3, <2>4, <2>5
<1>4. CASE Load
  <2>1. store[cur] \in Doc \cup {NoDoc}
    BY <1>4 DEF TypeOK, ServiceTypeOK
  <2>2. QED
    BY <1>2, <1>4, <2>1 DEF Load, Done, Hold, Proceed, InHand
<1>5. CASE CheckFunds \/ PayRejected \/ (\E answered \in BOOLEAN : Save(answered))
           \/ (\E answered \in BOOLEAN : NotifyPending(answered))
  BY <1>3, <1>5
     DEF CheckFunds, PayRejected, Save, AfterPaid, AfterChecked, NotifyPending, InHand, Step
<1>6. ASSUME NEW p \in Payout, step \in InHand,
             doc' = [doc EXCEPT !.payoutRef = p.ref, !.payoutStatus = p.status]
      PROVE  Goal
  BY <1>2, <1>6 DEF HandInv
<1>7. CASE Query
  BY <1>3, <1>6, <1>7 DEF Query, GetAnswer, TypeOK, InHand
<1>8. ASSUME NEW answered \in BOOLEAN, Pay(answered)
      PROVE  Goal
  <2>1. core'[cur] \in Payout
    <3>1. doc \in Doc /\ core'[cur] # NoPayout
      BY <1>8, NewPayoutType DEF Pay, HandInv, InHand, TypeOK
    <3>2. QED
      BY <3>1, NextTypes DEF TypeOK
  <2>2. QED
    BY <1>3, <1>6, <1>8, <2>1 DEF Pay, PayAnswer, InHand
<1>9. CASE ProcessorStep
  <2>1. \/ Load \/ CheckFunds \/ PayRejected \/ Query
        \/ \E answered \in BOOLEAN : Save(answered)
        \/ \E answered \in BOOLEAN : NotifyPending(answered)
        \/ \E answered \in BOOLEAN : Pay(answered)
    BY <1>9
       DEF ProcessorStep, List, Take, NextList, Started, NotifyHold, NotifyError,
           NotifySent, Alert, CallFails, Proceed, Done, InHand
  <2>2. QED
    BY <1>4, <1>5, <1>7, <1>8, <2>1
<1>10. CASE Crash
  BY <1>10 DEF Crash, InHand
<1>11. CASE ~ProcessorStep /\ ~Crash
  <2>1. UNCHANGED <<step, doc>>
    BY <1>11, ZenonT(30)
       DEF Next, ServiceStep, CoreUpdates, LedgerCloses, vars, volatile
  <2>2. QED
    BY <2>1
<1>12. QED
  BY <1>9, <1>10, <1>11

\* No result is written before the user is asked to pay, and none but a
\* mismatch while the withdrawal is not completed.
LEMMA CleanInvStep ==
  ASSUME FullInv, CleanInv, OrderInv, [Next]_vars
  PROVE  CleanInv'
<1> USE DEF FullInv
<1>0. Inv /\ TypeOK /\ ServiceTypeOK /\ WalkInv
  BY DEF Inv, TypeOK
<1>1. ASSUME NEW t \in Tx, store'[t] \in Doc, store'[t].reconcile # ""
      PROVE  sap'[t].status # "incomplete"
  <2>1. CASE store'[t] = store[t]
    BY <1>0, <1>1, <2>1, LastWord DEF CleanInv
  <2>2. CASE t = cur /\ step \in InHand
    BY <1>0, <2>2, HandPending, LastWord
  <2>3. QED
    BY <1>0, <1>1, <2>1, <2>2, StoreWrites
<1>2. ASSUME NEW c \in Caller
      PROVE  /\ call'[c].pc \in {"insert", "update"} => call'[c].w.reconcile = ""
             /\ call'[c].pc = "request" /\ call'[c].w.reconcile # ""
                   => sap'[call'[c].tx].status # "incomplete"
  <2>0. call[c] \in Frame /\ call[c].tx \in Tx /\ call \in [Caller -> Frame]
    BY <1>0 DEF ServiceTypeOK, Frame
  <2>1. CASE call'[c] = call[c]
    BY <1>0, <2>0, <2>1, LastWord DEF CleanInv
  <2>2. CASE call'[c].pc \in {"idle", "put", "get"}
    BY <2>2
  <2>3. ASSUME call'[c].w = store[call[c].tx], call'[c].tx = call[c].tx, UNCHANGED sap,
               call'[c].pc = "request", store[call[c].tx] \in Doc
        PROVE  call'[c].w.reconcile # "" => sap'[call'[c].tx].status # "incomplete"
    BY <2>0, <2>3 DEF CleanInv
  <2>4. CASE StartGet(c)
    <3>1. store[call[c].tx] \in Doc \cup {NoDoc}
      BY <1>0, <2>0 DEF ServiceTypeOK
    <3>2. \/ call'[c].pc \in {"idle", "create"}
          \/ /\ call'[c].w = store[call[c].tx] /\ store[call[c].tx] # NoDoc
             /\ call'[c].tx = call[c].tx /\ call'[c].pc = "request"
      BY <2>0, <2>4, FrameMoves DEF StartGet
    <3>3. UNCHANGED sap
      BY <2>4 DEF StartGet
    <3>4. QED
      BY <2>3, <3>1, <3>2, <3>3
  <2>5. CASE StartCreate(c)
    <3>1. ASSUME NEW asset, NEW amount, NEW bank
          PROVE  NewDoc(asset, amount, bank).reconcile = ""
      BY DEF NewDoc
    <3>2. \/ call'[c].pc = "idle"
          \/ /\ call'[c].pc = "insert"
             /\ \E asset, amount, bank : call'[c].w = NewDoc(asset, amount, bank)
      BY <2>0, <2>5, FrameMoves DEF StartCreate
    <3>3. QED
      BY <3>1, <3>2
  <2>6. CASE StartInsert(c)
    <3>1. call[c].w.reconcile = ""
      BY <2>6 DEF StartInsert, At, CleanInv
    <3>2. \/ call'[c].pc \in {"idle", "reget"}
          \/ call'[c].pc = "request" /\ call'[c].w = call[c].w
      BY <2>0, <2>6, FrameMoves DEF StartInsert
    <3>3. QED
      BY <3>1, <3>2
  <2>7. CASE StartReget(c)
    <3>1. store[call[c].tx] \in Doc /\ UNCHANGED sap
      BY <1>0, <2>7 DEF StartReget, At, Inv, CallInv, Held
    <3>2. \/ call'[c].pc = "idle"
          \/ /\ call'[c].w = store[call[c].tx]
             /\ call'[c].tx = call[c].tx /\ call'[c].pc = "request"
      BY <2>0, <2>7, FrameMoves DEF StartReget
    <3>3. QED
      BY <2>3, <3>1, <3>2
  <2>8. CASE StartRequest(c)
    <3>1. call[c].w \in Doc
      BY <1>0, <2>8 DEF StartRequest, At, Inv, CallInv, Held
    <3>2. \/ call'[c].pc = "idle"
          \/ /\ sap[call[c].tx].status = "incomplete"
             /\ call'[c].w = [call[c].w EXCEPT !.memo = call[c].tx]
             /\ call'[c].pc = "update"
      BY <2>0, <2>8, FrameMoves DEF StartRequest, RequestOnchainFunds
    <3>3. [call[c].w EXCEPT !.memo = call[c].tx].reconcile = call[c].w.reconcile
      BY <3>1 DEF Doc
    <3>4. QED
      BY <2>8, <3>2, <3>3 DEF StartRequest, At, CleanInv
  <2>9. CASE StartUpdate(c)
    BY <2>0, <2>9, FrameMoves DEF StartUpdate
  <2>10. QED
    BY <1>0, <2>1, <2>2, <2>4, <2>5, <2>6, <2>7, <2>8, <2>9, CallSteps DEF StartStep
<1>3. ASSUME step' \in InHand
      PROVE  doc'.reconcile # "ok"
  <2>1. CASE Load /\ doc' = store[cur]
    <3>1. cur \in Tx /\ sap[cur].status # "completed"
      BY <1>0, <2>1, HandPending DEF Load, TypeOK
    <3>2. store[cur] \in Doc
      BY <1>0, <1>3, <2>1, HandInvStep, ServiceAssumption
         DEF HandInv, Load, Done, Hold, Proceed, InHand, serviceVars
    <3>3. QED
      BY <2>1, <3>1, <3>2 DEF OrderInv, Agrees, IsCompleted
  <2>2. QED
    BY <1>0, <1>3, <2>1, HandResult DEF CleanInv
<1>4. QED
  BY <1>1, <1>2, <1>3 DEF CleanInv

\* A record found in order stays in order.
LEMMA OrderInvStep ==
  ASSUME FullInv, CleanInv, OrderInv, [Next]_vars
  PROVE  OrderInv'
<1>1. ASSUME NEW t \in Tx, store'[t] \in Doc, store'[t].reconcile = "ok"
      PROVE  Agrees(t)'
  <2>1. store'[t] = store[t]
    BY <1>1, StoreWrites DEF FullInv, CleanInv
  <2>2. QED
    BY <1>1, <2>1, AgreesKept DEF FullInv, OrderInv
<1>2. QED
  BY <1>1 DEF OrderInv, Agrees, IsCompleted, Received
-----------------------------------------------------------------------------
(* The steps of the reconciler.                                            *)

\* Putting a result on a record leaves it a record with the same quote.
LEMMA ResultFields ==
  ASSUME NEW d \in Doc, NEW r \in {"ok", "mismatch"}
  PROVE  /\ [d EXCEPT !.reconcile = r] \in Doc
         /\ Quoted([d EXCEPT !.reconcile = r]) = Quoted(d)
         /\ [d EXCEPT !.reconcile = r].reconcile = r
  BY DEF Doc, Quoted

\* What the save does to the store, and to nothing else.
LEMMA SaveWrites ==
  ASSUME RInv, RSave
  PROVE  /\ UNCHANGED <<sap, customer, rate, call, core, onLedger, alerts>>
         /\ UNCHANGED <<phase, queue, step, cur, doc, unclear>>
         /\ store' \in [Tx -> Doc \cup {NoDoc}]
         /\ rcur \in Tx /\ store'[rcur] = rdoc /\ rdoc \in Doc
         /\ \A t \in Tx \ {rcur} : store'[t] = store[t]
         /\ \A t \in Tx : store[t] \in Doc <=> store'[t] \in Doc
         /\ \A t \in Tx : store[t] \in Doc =>
               /\ Quoted(store'[t]) = Quoted(store[t])
               /\ store'[t].amountIn = store[t].amountIn
               /\ store'[t].amountOut = store[t].amountOut
               /\ store'[t].bank = store[t].bank
<1>1. /\ rcur \in Tx /\ rdoc \in Doc /\ store[rcur] \in Doc
      /\ Quoted(rdoc) = Quoted(store[rcur])
  BY DEF RInv, WalkTypeOK, HeldInv, RSave
<1>2. store \in [Tx -> Doc \cup {NoDoc}]
  BY DEF RInv, Shared, FullInv, Inv, TypeOK, ServiceTypeOK
<1>3. store' = [store EXCEPT ![rcur] = rdoc]
  BY DEF RSave, Write
<1>4. QED
  BY <1>1, <1>2, <1>3 DEF RSave, outside, volatile, Quoted

\* What the form, SAP and the processor rely on survives the save: it is all
\* about which records exist and what they quote.
LEMMA SaveShared ==
  ASSUME RInv, RSave
  PROVE  Shared'
<1> USE DEF RInv, Shared, FullInv
<1>0. Inv /\ TypeOK /\ ServiceTypeOK
  BY DEF Inv, TypeOK
<1>1. TypeOK'
  BY <1>0, SaveWrites DEF TypeOK, ServiceTypeOK, PlatformTypeOK
<1>2. CallInv' /\ HandInv'
  <2>1. \A c \in Caller : call[c].tx \in Tx
    BY <1>0 DEF ServiceTypeOK, Frame
  <2>2. cur \in Tx
    BY <1>0 DEF TypeOK
  <2>3. QED
    BY <1>0, <2>1, <2>2, SaveWrites DEF Inv, CallInv, Held, HandInv
<1>3. QueueInv' /\ PastInv'
  BY <1>0, SaveWrites DEF Inv, QueueInv, PastInv, Past
<1>4. FundsInv'
  <2>1. \A t \in Tx : Funded(t) => Funded(t)'
    BY SaveWrites DEF Funded, Received
  <2>2. cur \in Tx
    BY <1>0 DEF TypeOK
  <2>3. step' = "pay" => Funded(cur)'
    BY <1>0, <2>1, <2>2, SaveWrites DEF Inv, FundsInv, Funded, Received
  <2>4. ASSUME NEW t \in Tx, core'[t] # NoPayout
        PROVE  Funded(t)' /\ core'[t].bank = store'[t].bank
    BY <1>0, <2>1, <2>4, SaveWrites DEF Inv, FundsInv, Funded
  <2>5. QED
    BY <2>3, <2>4 DEF FundsInv
<1>5. WalkInv'
  <2>1. DueStatus' = DueStatus /\ ListedStatus' = ListedStatus /\ Checking' = Checking
    BY SaveWrites DEF DueStatus, ListedStatus, Checking
  <2>2. QED
    BY <2>1, SaveWrites DEF WalkInv, FormInv, ProcInv, HandledInv, PhaseInv
<1>6. AskedInv'
  BY SaveWrites DEF MoneyInv, AskedInv
<1>7. AnswerInv' /\ PayoutInv'
  <2>1. \A t \in Tx : core[t] # NoPayout => store[t] \in Doc
    BY <1>0 DEF Inv, FundsInv, Funded
  <2>2. QED
    BY <2>1, SaveWrites
       DEF MoneyInv, AnswerInv, PayoutInv, Unpaid, CompletedAsPromised, ErrorOnlyIfUnpaid
<1>8. AlertInv'
  BY SaveWrites DEF AlertInv, NoSilentEnd
<1>9. OfferInv'
  <2>1. \A t \in Tx : OffersOf(t)' = OffersOf(t)
    BY DEF OffersOf
  <2>2. \A c \in Caller : call[c].tx \in Tx
    BY <1>0 DEF ServiceTypeOK, Frame
  <2>3. QED
    BY <2>1, <2>2, SaveWrites DEF OfferInv
<1>10. CleanInv'
  <2>1. IsCompleted(rcur)
    BY DEF HeldInv, RSave, Busy
  <2>2. \A t \in Tx : store'[t] \in Doc /\ store'[t].reconcile # ""
           => sap'[t].status # "incomplete"
    BY <2>1, SaveWrites DEF CleanInv, IsCompleted
  <2>3. QED
    BY <2>2, SaveWrites DEF CleanInv
<1>11. OrderInv'
  <2>1. rdoc.reconcile = "ok" => Agrees(rcur)
    BY DEF HeldInv, RSave
  <2>2. \A t \in Tx : Agrees(t)' <=> Agrees(t)
    BY SaveWrites DEF Agrees, IsCompleted, Received
  <2>3. \A t \in Tx : store'[t] \in Doc /\ store'[t].reconcile = "ok" => Agrees(t)
    BY <2>1, SaveWrites DEF OrderInv
  <2>4. QED
    BY <2>2, <2>3 DEF OrderInv
<1>12. QED
  BY <1>1, <1>2, <1>3, <1>4, <1>5, <1>6, <1>7, <1>8, <1>9, <1>10, <1>11 DEF Inv, MoneyInv

\* A result written is the one found, and reported when it is a mismatch.
LEMMA SaveStep ==
  ASSUME RInv, RSave
  PROVE  RInv'
<1> USE DEF RInv
<1>1. Shared'
  BY SaveShared
<1>2. WalkTypeOK'
  BY PlatformAssumption DEF RSave, RDone, history, WalkTypeOK, AnyTx
<1>3. HeldInv'
  BY SaveWrites DEF RSave, RDone, HeldInv, Busy, IsCompleted
<1>4. ResultInv'
  <2>1. IsCompleted(rcur) /\ (rdoc.reconcile = "mismatch" => rcur \in reported)
    BY DEF HeldInv, RSave, Busy
  <2>2. compared \subseteq Tx /\ UNCHANGED <<compared, reported>>
    BY DEF WalkTypeOK, RSave, history
  <2>3. QED
    BY <2>1, <2>2, SaveWrites DEF ResultInv, IsCompleted
<1>5. QED
  BY <1>1, <1>2, <1>3, <1>4

\* A step of anyone else leaves the reconciler's withdrawal as it was, but
\* for a result that a stale copy without one may overwrite.
LEMMA OthersStep ==
  ASSUME RInv, [Next]_vars, UNCHANGED <<rvolatile, history>>
  PROVE  RInv'
<1> USE DEF RInv
<1>0. Inv /\ WalkInv /\ CleanInv
  BY DEF Shared, FullInv
<1>1. Shared'
  BY FullInvStep, CleanInvStep, OrderInvStep DEF Shared
<1>2. UNCHANGED <<sep, page, full, todo, rstep, rcur, rdoc, compared, reported>>
  BY DEF rvolatile, history
<1>3. WalkTypeOK'
  BY <1>2 DEF WalkTypeOK
<1>4. ASSUME NEW t \in Tx, IsCompleted(t)
      PROVE  /\ IsCompleted(t)'
             /\ store'[t] = store[t] \/ (store'[t] \in Doc /\ store'[t].reconcile = "")
             /\ store[t] \in Doc => store'[t] \in Doc /\ Quoted(store'[t]) = Quoted(store[t])
             /\ Agrees(t) => Agrees(t)'
  BY <1>0, <1>4, LastWord, ResultKept, QuotesKept, AgreesKept DEF IsCompleted
<1>5. todo \subseteq Tx /\ rcur \in Tx /\ compared \subseteq Tx
  BY DEF WalkTypeOK
<1>6. \A t \in todo' : IsCompleted(t)'
  BY <1>2, <1>4, <1>5 DEF HeldInv
<1>7. ASSUME rstep \in Busy
      PROVE  HeldInv'
  <2>1. PICK t \in Tx : t = rcur /\ IsCompleted(t)
    BY <1>5, <1>7 DEF HeldInv
  <2>2. /\ IsCompleted(t)'
        /\ store'[t] = store[t] \/ store'[t].reconcile = ""
        /\ store[t] \in Doc => store'[t] \in Doc /\ Quoted(store'[t]) = Quoted(store[t])
        /\ Agrees(t) => Agrees(t)'
    BY <1>4, <2>1
  <2>3. rcur' = t
    BY <1>2, <2>1
  <2>4. (Agrees(t)' => Agrees(rcur)') /\ (IsCompleted(t)' => IsCompleted(rcur)')
    BY <2>3 DEF Agrees, IsCompleted, Received
  <2>5. rstep \in {"compare", "alert", "save"} =>
           /\ rdoc \in Doc /\ store[t] \in Doc /\ Quoted(rdoc) = Quoted(store[t])
    BY <2>1 DEF HeldInv
  <2>6. rstep = "compare" => store[t].reconcile = ""
    BY <2>1 DEF HeldInv
  <2>7. rstep = "save" => \/ rdoc.reconcile = "ok" /\ Agrees(t)
                          \/ rdoc.reconcile = "mismatch" /\ t \in reported
    BY <2>1 DEF HeldInv
  <2>8. rstep = "alert" => rdoc.reconcile = "mismatch"
    BY DEF HeldInv
  <2>9. QED
    BY <1>2, <1>6, <2>2, <2>3, <2>4, <2>5, <2>6, <2>7, <2>8 DEF HeldInv, IsCompleted
<1>8. ASSUME rstep \notin Busy
      PROVE  HeldInv'
  BY <1>2, <1>6, <1>8 DEF HeldInv, Busy, IsCompleted
<1>9. ResultInv'
  BY <1>2, <1>4, <1>5 DEF ResultInv, IsCompleted
<1>10. QED
  BY <1>1, <1>3, <1>7, <1>8, <1>9

\* Listing, comparing and reporting leave the rest of the server alone.
LEMMA OwnStep ==
  ASSUME RInv, ReconcilerStep, ~RSave
  PROVE  RInv'
<1> USE DEF RInv
<1>0. UNCHANGED vars
  BY DEF ReconcilerStep, RAnswered, RList, RTake, RNextPage, RGet, RCompare, RAlert,
         RListFails, RCallFails
<1>1. UNCHANGED <<sap, store, core, onLedger>>
  BY <1>0 DEF vars, serviceVars, outside
<1>2. Shared'
  BY <1>0, FullInvStep, CleanInvStep, OrderInvStep DEF Shared
<1>3. store \in [Tx -> Doc \cup {NoDoc}]
  BY DEF Shared, FullInv, Inv, TypeOK, ServiceTypeOK
<1>4. ASSUME rstep' \in {"list", "next"}, todo' \subseteq todo, history' = history
      PROVE  HeldInv' /\ ResultInv'
  BY <1>1, <1>4 DEF history, HeldInv, ResultInv, Busy, IsCompleted
<1>5. CASE RList
  <2>1. todo' \subseteq {t \in Tx : IsCompleted(t)}
    BY <1>5, PlatformAssumption
       DEF RList, Page, Oldest, Completed, Transactions, Sep24, IsCompleted
  <2>2. WalkTypeOK'
    BY <1>5, <2>1 DEF RList, history, WalkTypeOK
  <2>3. HeldInv' /\ ResultInv'
    BY <1>1, <1>5, <2>1 DEF RList, history, HeldInv, ResultInv, Busy, IsCompleted
  <2>4. QED
    BY <1>2, <2>2, <2>3
<1>6. CASE RListFails \/ RNextPage
  <2>1. WalkTypeOK'
    BY <1>6, ReconcilerAssumption DEF RListFails, RNextPage, OtherSep, history, WalkTypeOK
  <2>2. rstep' = "list" /\ UNCHANGED <<todo, history>>
    BY <1>6 DEF RListFails, RNextPage, history
  <2>3. QED
    BY <1>2, <1>4, <2>1, <2>2
<1>7. CASE RTake
  <2>1. PICK t \in todo :
           /\ todo' = todo \ {t} /\ rcur' = t /\ rstep' = "get"
           /\ UNCHANGED <<sep, page, full, rdoc, history>>
    BY <1>7 DEF RTake
  <2>2. WalkTypeOK'
    BY <2>1 DEF history, WalkTypeOK
  <2>3. HeldInv' /\ ResultInv'
    BY <1>1, <2>1 DEF history, HeldInv, ResultInv, Busy, IsCompleted
  <2>4. QED
    BY <1>2, <2>2, <2>3
<1>8. CASE RGet
  <2>1. /\ rstep = "get" /\ UNCHANGED <<sep, page, full, todo, compared>>
        /\ reported \subseteq reported' /\ reported' \subseteq reported \cup {rcur}
        /\ \/ rstep' = "next" /\ rcur' = AnyTx /\ rdoc' = NoDoc
           \/ /\ rstep' = "compare" /\ rcur' = rcur /\ rdoc' = store[rcur]
              /\ store[rcur] # NoDoc /\ store[rcur].reconcile = ""
    BY <1>8 DEF RGet, Report, RDone, RProceed
  <2>2. WalkTypeOK'
    BY <1>3, <2>1, PlatformAssumption DEF WalkTypeOK, AnyTx
  <2>3. rcur \in Tx
    BY DEF WalkTypeOK
  <2>4. HeldInv'
    BY <1>1, <1>3, <2>1, <2>3 DEF HeldInv, Busy, IsCompleted
  <2>5. ResultInv'
    BY <1>1, <2>1 DEF ResultInv, IsCompleted
  <2>6. QED
    BY <1>2, <2>2, <2>4, <2>5
<1>9. CASE RCompare
  <2>1. /\ rstep = "compare" /\ UNCHANGED <<sep, page, full, todo, reported, rcur>>
        /\ compared' = compared \cup {rcur}
        /\ \/ /\ Consistent(rcur, rdoc) /\ rstep' = "save"
              /\ rdoc' = [rdoc EXCEPT !.reconcile = "ok"]
           \/ rstep' = "alert" /\ rdoc' = [rdoc EXCEPT !.reconcile = "mismatch"]
    BY <1>9 DEF RCompare, RProceed
  <2>2. /\ rcur \in Tx /\ rdoc \in Doc /\ store[rcur] \in Doc
        /\ Quoted(rdoc) = Quoted(store[rcur]) /\ IsCompleted(rcur)
        /\ store[rcur].reconcile = ""
    BY <2>1 DEF HeldInv, Busy, WalkTypeOK
  <2>3. /\ rdoc' \in Doc /\ Quoted(rdoc') = Quoted(rdoc)
        /\ rstep' = "save" => rdoc'.reconcile = "ok"
        /\ rstep' = "alert" => rdoc'.reconcile = "mismatch"
    BY <2>1, <2>2, ResultFields
  <2>4. rstep' = "save" => Agrees(rcur)
    <3>1. sap[rcur].askedIn = store[rcur].amountIn /\ sap[rcur].askedOut = store[rcur].amountOut
      BY <2>2 DEF Shared, FullInv, MoneyInv, AskedInv, IsCompleted
    <3>2. rdoc.amountIn = store[rcur].amountIn /\ rdoc.amountOut = store[rcur].amountOut
      BY <2>2 DEF Quoted
    <3>3. QED
      BY <2>1, <2>2, <3>1, <3>2 DEF Consistent, FundsMatch, Settled, Agrees
  <2>5. WalkTypeOK'
    BY <2>1, <2>2, <2>3 DEF WalkTypeOK
  <2>6. HeldInv'
    BY <1>1, <2>1, <2>2, <2>3, <2>4 DEF HeldInv, Busy, IsCompleted, Agrees, Received
  <2>7. ResultInv'
    BY <1>1, <2>1, <2>2 DEF ResultInv, IsCompleted
  <2>8. QED
    BY <1>2, <2>5, <2>6, <2>7
<1>10. CASE RAlert
  <2>1. /\ rstep = "alert" /\ rstep' = "save" /\ reported' = reported \cup {rcur}
        /\ UNCHANGED <<sep, page, full, todo, compared, rcur, rdoc>>
    BY <1>10 DEF RAlert, Report, RProceed
  <2>2. WalkTypeOK'
    BY <2>1 DEF WalkTypeOK
  <2>3. HeldInv' /\ ResultInv'
    BY <1>1, <2>1 DEF HeldInv, ResultInv, Busy, IsCompleted
  <2>4. QED
    BY <1>2, <2>2, <2>3
<1>11. CASE RCallFails
  <2>1. rstep' = "next" /\ UNCHANGED <<todo, history>>
    BY <1>11 DEF RCallFails, RDone, history
  <2>2. WalkTypeOK'
    BY <1>11, PlatformAssumption DEF RCallFails, RDone, history, WalkTypeOK, AnyTx
  <2>3. QED
    BY <1>2, <1>4, <2>1, <2>2
<1>12. QED
  BY <1>5, <1>6, <1>7, <1>8, <1>9, <1>10, <1>11 DEF ReconcilerStep, RAnswered

\* A crash forgets the walk; what was compared and reported is history.
LEMMA CrashStep ==
  ASSUME RInv, RCrash
  PROVE  RInv'
<1> USE DEF RInv
<1>0. Next /\ UNCHANGED <<compared, reported, store, sap>>
  BY DEF RCrash, Next, Crash, Restart, history
<1>1. Shared'
  BY <1>0, FullInvStep, CleanInvStep, OrderInvStep DEF Shared
<1>2. WalkTypeOK'
  <2>1. /\ sep' = "24" /\ page' = 0 /\ full' = FALSE /\ todo' = {}
        /\ rstep' = "list" /\ rcur' = AnyTx /\ rdoc' = NoDoc
    BY DEF RCrash
  <2>2. AnyTx \in Tx /\ 0 \in 0 .. MaxPages - 1
    BY PlatformAssumption, ReconcilerAssumption DEF AnyTx
  <2>3. QED
    BY <1>0, <2>1, <2>2 DEF WalkTypeOK
<1>3. HeldInv' /\ ResultInv'
  BY <1>0 DEF RCrash, HeldInv, ResultInv, Busy, IsCompleted
<1>4. QED
  BY <1>1, <1>2, <1>3

\* Every step keeps the invariant.
LEMMA RInvStep ==
  ASSUME RInv, [RNext]_rvars
  PROVE  RInv'
<1>1. CASE UNCHANGED rvars
  BY <1>1, OthersStep DEF rvars
<1>2. CASE /\ \/ ServiceStep
              \/ ProcessorStep
              \/ \E t \in Tx : CoreUpdates(t)
              \/ \E h \in Hash : LedgerCloses(h)
           /\ UNCHANGED <<rvolatile, history>>
  BY <1>2, OthersStep DEF Next
<1>3. CASE ReconcilerStep
  BY <1>3, SaveStep, OwnStep
<1>4. QED
  BY <1>1, <1>2, <1>3, CrashStep DEF RNext

\* The initial state satisfies the invariant.
LEMMA RInitInv == RInit => RInv
<1> SUFFICES ASSUME RInit PROVE RInv
  OBVIOUS
<1>1. FullInv
  BY InitFull DEF RInit
<1>2. /\ \A t \in Tx : store[t] = NoDoc
      /\ \A c \in Caller : call[c].pc = "idle"
      /\ step = "list"
  BY DEF RInit, Init, ServiceInit, Idle
<1>3. CleanInv /\ OrderInv
  BY <1>2, ServiceAssumption DEF CleanInv, OrderInv, InHand
<1>4. WalkTypeOK
  <2>1. AnyTx \in Tx /\ 0 \in 0 .. MaxPages - 1
    BY PlatformAssumption, ReconcilerAssumption DEF AnyTx
  <2>2. QED
    BY <2>1 DEF RInit, WalkTypeOK
<1>5. HeldInv /\ ResultInv
  BY DEF RInit, HeldInv, ResultInv, Busy
<1>6. QED
  BY <1>1, <1>3, <1>4, <1>5 DEF RInv, Shared

\* The save is the one step of the reconciler that the others see.
LEMMA OnlySave ==
  ASSUME [RNext]_rvars
  PROVE  [Next]_vars \/ RSave
<1>1. ReconcilerStep /\ ~RSave => UNCHANGED vars
  BY DEF ReconcilerStep, RAnswered, RList, RTake, RNextPage, RGet, RCompare, RAlert,
         RListFails, RCallFails
<1>2. QED
  BY <1>1 DEF RNext, RCrash, Next, rvars

\* The invariant holds in every reachable state.
LEMMA RInvariance == RSpec => []RInv
  BY RInitInv, RInvStep, PTL DEF RSpec
-----------------------------------------------------------------------------
(* The record and the memo, next to the reconciler.                        *)

\* The copy the reconciler writes back has no memo but SAP's, and of a SEP-6
\* withdrawal, which nobody else writes any more, all but the result.
Copied(w, t) ==
    /\ w.memo \in {NoMemo, sap[t].memo}
    /\ t \in Sep6 =>
          /\ w.memo = store[t].memo
          /\ w.payoutStatus = store[t].payoutStatus
          /\ w.payoutRef = store[t].payoutRef

CopiedInv == rstep \in {"compare", "alert", "save"} => Copied(rdoc, rcur)

RRecordInv == RecordInv /\ CopiedInv

\* The record of a completed SEP-6 withdrawal is final.
LEMMA RecordIsFinal ==
  ASSUME RecordInv, [Next]_vars, NEW t \in Sep6, IsCompleted(t)
  PROVE  store'[t] = store[t]
<1> USE DEF RecordInv, FullInv
<1>1. CASE t = cur /\ step = "start" /\ call[Proc].pc \in {"insert", "update"}
  BY <1>1 DEF WalkInv, ProcInv, Starting, CopyInv, IsCompleted
<1>2. CASE t = cur /\ \E answered \in BOOLEAN : Save(answered)
  BY <1>2, HandPending DEF Save, InHand, IsCompleted
<1>3. QED
  BY <1>1, <1>2, SoleWriter

\* Writing the copy back keeps the record and the memo.
LEMMA SaveKeepsRecord ==
  ASSUME RInv, RRecordInv, RSave
  PROVE  RecordInv'
<1> USE DEF RRecordInv, RecordInv
<1>0. /\ rcur \in Tx /\ rdoc \in Doc /\ IsCompleted(rcur) /\ Copied(rdoc, rcur)
      /\ Sep6 \subseteq Tx
  BY PlatformAssumption DEF RInv, WalkTypeOK, HeldInv, RSave, CopiedInv, Busy
<1>1. FullInv'
  BY SaveShared DEF Shared
<1>2. InformedInv'
  BY SaveWrites DEF InformedInv, Informed
<1>3. MemoInv'
  <2>1. \A t \in Tx : store'[t] \in Doc => store'[t].memo \in {NoMemo, sap'[t].memo}
    BY <1>0, SaveWrites DEF MemoInv, Copied
  <2>2. QED
    BY <2>1, SaveWrites DEF MemoInv
<1>4. CopyInv'
  <2>1. step \in InHand => cur # rcur /\ cur \in Tx
    BY <1>0, HandPending DEF FullInv, Inv, TypeOK, IsCompleted
  <2>2. step \in InHand => store'[cur] = store[cur]
    BY <2>1, SaveWrites
  <2>3. QED
    BY <2>2, SaveWrites DEF CopyInv
<1>5. Sep6Inv'
  <2>1. ASSUME NEW t \in Sep6
        PROVE  /\ store'[t].memo = store[t].memo
               /\ store'[t].payoutStatus = store[t].payoutStatus
               /\ store'[t].payoutRef = store[t].payoutRef
    BY <1>0, SaveWrites DEF Copied
  <2>2. ASSUME NEW t \in Sep6
        PROVE  (MemoMatches(t) => MemoMatches(t)') /\ (PaidOnRecord(t) => PaidOnRecord(t)')
    BY <2>1, SaveWrites DEF MemoMatches, PaidOnRecord
  <2>3. cur \in Sep6 /\ MemoMatches(cur) => MemoMatches(cur)'
    BY <2>1, SaveWrites DEF MemoMatches
  <2>4. QED
    BY <1>0, <2>2, <2>3, SaveWrites DEF Sep6Inv
<1>6. QED
  BY <1>1, <1>2, <1>3, <1>4, <1>5

\* Everyone else keeps them, and the copy up to date in what matters.
LEMMA OthersKeepRecord ==
  ASSUME RInv, RRecordInv, [Next]_vars, rstep' \in {"compare", "alert", "save"},
         rstep \in {"compare", "alert", "save"}, UNCHANGED rcur,
         rdoc'.memo = rdoc.memo, rdoc'.payoutStatus = rdoc.payoutStatus,
         rdoc'.payoutRef = rdoc.payoutRef
  PROVE  CopiedInv'
<1>1. rcur \in Tx /\ IsCompleted(rcur) /\ Copied(rdoc, rcur)
  BY DEF RInv, WalkTypeOK, HeldInv, Busy, RRecordInv, CopiedInv
<1>2. sap'[rcur] = sap[rcur]
  BY <1>1, LastWord DEF RInv, Shared, FullInv
<1>3. rcur \in Sep6 => store'[rcur] = store[rcur]
  BY <1>1, RecordIsFinal DEF RRecordInv
<1>4. QED
  BY <1>1, <1>2, <1>3 DEF CopiedInv, Copied

\* Every step keeps the invariant.
LEMMA RRecordInvStep ==
  ASSUME RInv, RRecordInv, [RNext]_rvars
  PROVE  RRecordInv'
<1>0. ASSUME [Next]_vars
      PROVE  RecordInv'
  BY <1>0, RecordInvStep DEF RRecordInv
<1>1. CASE RSave
  BY <1>1, SaveKeepsRecord DEF RRecordInv, CopiedInv, RSave, RDone
<1>2. CASE ReconcilerStep /\ ~RSave
  <2>0. UNCHANGED vars
    BY <1>2 DEF ReconcilerStep, RAnswered, RList, RTake, RNextPage, RGet, RCompare, RAlert,
           RListFails, RCallFails
  <2>1. CASE RGet /\ rstep' = "compare"
    <3>1. /\ rcur' = rcur /\ rdoc' = store[rcur] /\ store[rcur] # NoDoc /\ rcur \in Tx
          /\ UNCHANGED <<sap, store>>
      BY <2>1 DEF RGet, RDone, RProceed, RInv, WalkTypeOK, vars, serviceVars
    <3>2. store[rcur].memo \in {NoMemo, sap[rcur].memo}
      BY <3>1 DEF RInv, Shared, FullInv, Inv, TypeOK, ServiceTypeOK, RRecordInv, RecordInv,
                  MemoInv
    <3>3. CopiedInv'
      BY <3>1, <3>2 DEF CopiedInv, Copied
    <3>4. QED
      BY <1>0, <2>0, <3>3 DEF RRecordInv
  <2>2. CASE RCompare
    <3>1. /\ rdoc \in Doc /\ rstep = "compare" /\ rcur' = rcur
          /\ rstep' \in {"alert", "save"}
          /\ \E r \in {"ok", "mismatch"} : rdoc' = [rdoc EXCEPT !.reconcile = r]
      BY <2>2 DEF RCompare, RProceed, RInv, HeldInv
    <3>2. /\ rdoc'.memo = rdoc.memo /\ rdoc'.payoutStatus = rdoc.payoutStatus
          /\ rdoc'.payoutRef = rdoc.payoutRef
      BY <3>1 DEF Doc
    <3>3. CopiedInv'
      BY <2>0, <3>1, <3>2, OthersKeepRecord
    <3>4. QED
      BY <1>0, <2>0, <3>3 DEF RRecordInv
  <2>3. CASE RAlert
    <3>1. CopiedInv'
      BY <2>0, <2>3, OthersKeepRecord DEF RAlert, RProceed
    <3>2. QED
      BY <1>0, <2>0, <3>1 DEF RRecordInv
  <2>4. CASE rstep' \notin {"compare", "alert", "save"}
    BY <1>0, <2>0, <2>4 DEF RRecordInv, CopiedInv
  <2>5. QED
    BY <1>2, <2>1, <2>2, <2>3, <2>4
       DEF ReconcilerStep, RAnswered, RList, RTake, RNextPage, RGet, RListFails, RCallFails,
           RDone, RProceed
<1>3. CASE RCrash
  BY <1>0, <1>3 DEF RCrash, Next, RRecordInv, CopiedInv
<1>4. CASE [Next]_vars /\ UNCHANGED <<rvolatile, history>>
  <2>1. UNCHANGED <<rstep, rcur, rdoc>>
    BY <1>4 DEF rvolatile
  <2>2. CopiedInv'
    BY <1>4, <2>1, OthersKeepRecord DEF CopiedInv
  <2>3. QED
    BY <1>0, <1>4, <2>2 DEF RRecordInv
<1>5. QED
  BY <1>1, <1>2, <1>3, <1>4 DEF RNext, Next, rvars

\* The record and the memo, in every reachable state of the whole server.
LEMMA RRecordInvariance == RSpec => [](RInv /\ RRecordInv)
<1>1. RInit => RRecordInv
  BY InitRecord DEF RInit, RRecordInv, CopiedInv
<1>2. RInv /\ RRecordInv /\ [RNext]_rvars => RRecordInv'
  BY RRecordInvStep
<1>3. QED
  BY RInitInv, RInvStep, <1>1, <1>2, PTL DEF RSpec
-----------------------------------------------------------------------------
(* The theorems.                                                           *)

\* The walk stays within its pages, and what the reconciler has in hand is a
\* record.
THEOREM ReconcilerTypeCorrect == RSpec => []ReconcilerTypeOK
<1>1. RInv => ReconcilerTypeOK
  BY DEF RInv, Shared, FullInv, Inv, WalkTypeOK, ReconcilerTypeOK
<1>2. QED
  BY RInvariance, <1>1, PTL

\* "ok" on a record is true when it is written and stays true, although the
\* comparison is several calls, and other goroutines replace the record.
THEOREM ConsistentSafe == RSpec => []OkMeansConsistent
<1>1. RInv => OkMeansConsistent
  <2> SUFFICES ASSUME RInv, NEW t \in Tx, store[t] # NoDoc, store[t].reconcile = "ok"
               PROVE  Agrees(t)
    BY DEF OkMeansConsistent, Agrees, IsCompleted
  <2>1. store[t] \in Doc
    BY DEF RInv, Shared, FullInv, Inv, TypeOK, ServiceTypeOK
  <2>2. QED
    BY <2>1 DEF RInv, Shared, OrderInv
<1>2. QED
  BY RInvariance, <1>1, PTL

\* Of a withdrawal it compared, no mismatch is on record unreported, wherever
\* a crash or a failed call cuts the work short.
THEOREM ReportedSafe == RSpec => []RecordedIsReported
<1>1. RInv => RecordedIsReported
  BY DEF RInv, ResultInv, RecordedIsReported
<1>2. QED
  BY RInvariance, <1>1, PTL

\* What the processor and the forms keep safe stays safe next to a goroutine
\* that writes whole records back.
THEOREM SafeBesideReconciler ==
  RSpec => [](/\ CompletedAsPromised /\ ErrorOnlyIfUnpaid /\ NoSilentEnd
              /\ PaidOnlyIfFunded /\ PaidWhereRecorded
              /\ QuoteAgreement /\ AboveMinimum)
<1>1. RInv => /\ CompletedAsPromised /\ ErrorOnlyIfUnpaid /\ NoSilentEnd
              /\ PaidOnlyIfFunded /\ PaidWhereRecorded
              /\ QuoteAgreement /\ AboveMinimum
  BY FullIsSafe DEF RInv, Shared
<1>2. QED
  BY RInvariance, <1>1, PTL

\* A recorded quote never changes, the copies of the reconciler included.
THEOREM QuoteSafeBesideReconciler == RSpec => QuoteIsFinal
<1>1. RInv /\ [RNext]_rvars =>
        [\A t \in Tx :
            store[t] # NoDoc =>
                store'[t] # NoDoc /\ Quoted(store'[t]) = Quoted(store[t])]_serviceVars
  <2> SUFFICES ASSUME RInv, [RNext]_rvars, NEW t \in Tx, store[t] # NoDoc
               PROVE  store'[t] # NoDoc /\ Quoted(store'[t]) = Quoted(store[t])
    OBVIOUS
  <2>1. store[t] \in Doc /\ Inv
    BY DEF RInv, Shared, FullInv, Inv, TypeOK, ServiceTypeOK
  <2>2. CASE RSave
    BY <2>1, <2>2, SaveWrites, ServiceAssumption
  <2>3. CASE [Next]_vars
    BY <2>1, <2>3, QuotesKept, ServiceAssumption
  <2>4. QED
    BY <2>2, <2>3, OnlySave
<1>2. QED
  BY RInvariance, <1>1, PTL DEF RSpec, QuoteIsFinal

\* The form says "pay" only when SAP waits for the payment and the record
\* carries its memo, in the whole server.
THEOREM StartedSafeBesideReconciler == RSpec => StartedIsRecorded
<1>1. RRecordInv /\ [RNext]_rvars =>
        [\A c \in Forms :
            call[c].res # "ok" /\ call'[c].res = "ok" =>
                LET t == call[c].tx
                IN  /\ sap[t].status # "incomplete"
                    /\ store'[t].memo = sap[t].memo
                    /\ store'[t].amountIn = sap[t].askedIn]_serviceVars
  <2> SUFFICES ASSUME RRecordInv, [RNext]_rvars, NEW c \in Forms,
                      call[c].res # "ok", call'[c].res = "ok"
               PROVE  LET t == call[c].tx
                      IN  /\ sap[t].status # "incomplete"
                          /\ store'[t].memo = sap[t].memo
                          /\ store'[t].amountIn = sap[t].askedIn
    OBVIOUS
  <2>1. ~RSave
    BY DEF RSave
  <2>2. QED
    BY <2>1, OnlySave, StartedStep DEF RRecordInv
<1>2. QED
  BY RRecordInvariance, <1>1, PTL DEF RSpec, StartedIsRecorded

\* The reconciler's copy brings back no other reference, outcome or memo: what
\* is on record of a completed SEP-6 withdrawal is what SAP shows, for good.
THEOREM RecordSafeBesideReconciler ==
  RSpec => []((\A t \in Sep6 : PaidOnRecord(t)) /\ MemoChecked)
<1>1. RRecordInv => (\A t \in Sep6 : PaidOnRecord(t)) /\ MemoChecked
  BY RecordIsKept DEF RRecordInv
<1>2. QED
  BY RRecordInvariance, <1>1, PTL

\* Nothing the reconciler writes can break what the form and the processor
\* promise.
THEOREM PromisesBesideReconciler == RSpec => KeepsPromises
<1>1. RInv /\ RInv' /\ [RNext]_rvars => [Contract!Next]_(Contract!vars)
  <2> SUFFICES ASSUME RInv, RInv', [RNext]_rvars
               PROVE  Contract!Next \/ UNCHANGED Contract!vars
    OBVIOUS
  <2>1. FullInv /\ FullInv'
    BY DEF RInv, Shared
  <2>2. CASE RSave
    <3>1. UNCHANGED <<sap, core>> /\ \A t \in Tx : sap[t].memo # NoMemo => store[t] \in Doc
      BY <2>1, <2>2, SaveWrites DEF FullInv, MoneyInv, AskedInv
    <3>2. \A t \in Tx : core[t] # NoPayout => store[t] \in Doc
      BY <2>1 DEF FullInv, Inv, FundsInv, Funded
    <3>3. store \in [Tx -> Doc \cup {NoDoc}] /\ store' \in [Tx -> Doc \cup {NoDoc}]
      BY <2>1, <2>2, SaveWrites DEF FullInv, Inv, TypeOK, ServiceTypeOK
    <3>4. ASSUME NEW t \in Tx
          PROVE  /\ QuoteOf(store'[t]) = QuoteOf(store[t])
                 /\ ToldOf(sap'[t], store'[t]) = ToldOf(sap[t], store[t])
                 /\ NairaOf(core'[t], store'[t]) = NairaOf(core[t], store[t])
      BY <2>2, <3>1, <3>2, <3>3, SaveWrites, ServiceAssumption
         DEF QuoteOf, ToldOf, NairaOf
    <3>5. Quotes' = Quotes /\ Told' = Told /\ Naira' = Naira /\ Stage' = Stage
      BY <3>1, <3>4 DEF Quotes, Told, Naira, Stage
    <3>6. QED
      BY <3>5 DEF Contract!vars
  <2>3. CASE [Next]_vars
    BY <2>1, <2>3, ContractStep
  <2>4. [Next]_vars \/ RSave
    BY OnlySave
  <2>5. QED
    BY <2>2, <2>3, <2>4
<1>2. RInit => Contract!Init
  BY ContractInit DEF RInit
<1>3. QED
  BY RInvariance, <1>1, <1>2, PTL DEF RSpec, KeepsPromises, Contract!Spec
=============================================================================
