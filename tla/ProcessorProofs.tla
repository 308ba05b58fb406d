--------------------------- MODULE ProcessorProofs ---------------------------
(***************************************************************************)
(* Proofs about the processor and the service it runs next to, for every   *)
(* set of withdrawals, customers, forms and rates, and for every ledger.   *)
(*                                                                         *)
(* The invariant says what a goroutine may rely on about the record in its *)
(* memory, which is the code's unstated argument: the store may have moved *)
(* on since the record was read, but never in the amounts or the bank      *)
(* account, so what was checked against the copy holds of the store.       *)
(***************************************************************************)
EXTENDS Processor, ServiceProofs

\* Steps at which the processor has a record in hand.
InHand ==
    {"funds", "pay", "savePaid", "notifyPending", "query", "saveChecked",
     "notifySent", "saveHold", "saveFail"}

HandInv ==
    step \in InHand =>
        /\ doc \in Doc
        /\ store[cur] \in Doc
        /\ Quoted(doc) = Quoted(store[cur])

\* The list of start6 holds SEP-6 withdrawals.
QueueInv == phase = "start6" => queue \subseteq Sep6

\* SAP matches no payment to t any more.
Past(t) == sap[t].status \notin {"incomplete", "pending_user_transfer_start"}

PastInv ==
    /\ phase # "start6" => \A t \in queue : Past(t)
    /\ step \in {"load", "funds", "pay"} => Past(cur)
    /\ \A t \in Tx : core[t] # NoPayout => Past(t)

\* The on-chain payment is there, and is what the record asks for.
Funded(t) ==
    /\ store[t] \in Doc
    /\ sap[t].stellar # {}
    /\ \A h \in sap[t].stellar : h \in onLedger /\ Ledger[h].successful
    /\ Received(t) = store[t].amountIn

FundsInv ==
    /\ step = "pay" => Funded(cur)
    /\ \A t \in Tx :
          core[t] # NoPayout => Funded(t) /\ core[t].bank = store[t].bank

Inv == TypeOK /\ CallInv /\ HandInv /\ QueueInv /\ PastInv /\ FundsInv
-----------------------------------------------------------------------------
(* Facts about the values the actions build.                               *)

\* What the notify RPCs make of a SAP transaction is one.
LEMMA NotifiedType ==
  ASSUME NEW r \in SapTx, NEW s \in Status
  PROVE  /\ [r EXCEPT !.status = s] \in SapTx
         /\ \A ref \in Ref \cup {NoRef} : [r EXCEPT !.status = s, !.ext = ref] \in SapTx
  BY DEF SapTx, Status

\* The initial state satisfies the invariant.
LEMMA InitInv == Init => Inv
<1> SUFFICES ASSUME Init PROVE Inv
  OBVIOUS
<1>1. PlatformTypeOK
  BY PlatformAssumption
     DEF Init, ServiceInit, PlatformInit, PlatformTypeOK, SapTx, Status
<1>2. call \in [Caller -> Frame]
  BY IdleType DEF Init, ServiceInit, Result
<1>3. TypeOK
  BY <1>1, <1>2, PlatformAssumption
     DEF Init, ServiceInit, TypeOK, ServiceTypeOK, AnyTx, Phase, Step
<1>4. CallInv
  BY DEF Init, ServiceInit, CallInv, Held, Idle
<1>5. HandInv /\ QueueInv /\ PastInv /\ FundsInv
  BY DEF Init, HandInv, InHand, QueueInv, PastInv, FundsInv
<1>6. QED
  BY <1>3, <1>4, <1>5 DEF Inv
-----------------------------------------------------------------------------
(* Types.                                                                  *)

\* A step of a form, a customer, SAP or an operator keeps the types.
LEMMA ServiceTypes ==
  ASSUME Inv, ServiceStep
  PROVE  TypeOK'
<1>1. ServiceTypeOK'
  BY StartTypes, FormTypes, PlatformTypes, OtherTypes
     DEF Inv, TypeOK, ServiceStep, Caller
<1>2. QED
  BY <1>1 DEF Inv, TypeOK, ServiceStep, outside, volatile

\* What Hold, Fail, Proceed and Done leave in the processor's memory.
LEMMA MemoryTypes ==
  ASSUME TypeOK, NEW d \in Doc \cup {NoDoc},
         \/ Done
         \/ Hold(d)
         \/ d # NoDoc /\ Fail(d)
         \/ \E s \in Step : Proceed(s, d)
  PROVE  /\ phase' \in Phase /\ queue' \subseteq Tx /\ step' \in Step /\ cur' \in Tx
         /\ doc' \in Doc \cup {NoDoc} /\ unclear' \in BOOLEAN
<1>1. CASE Done
  BY <1>1, PlatformAssumption DEF Done, TypeOK, AnyTx, Step
<1>2. CASE Hold(d)
  <2>1. d # NoDoc => [d EXCEPT !.reconcile = "mismatch"] \in Doc
    BY DEF Doc
  <2>2. QED
    BY <1>2, <2>1 DEF Hold, Proceed, TypeOK, Step
<1>3. CASE d # NoDoc /\ Fail(d)
  <2>1. [d EXCEPT !.payoutStatus = "failed"] \in Doc
    BY <1>3 DEF Doc
  <2>2. QED
    BY <1>3, <2>1 DEF Fail, Proceed, TypeOK, Step
<1>4. CASE \E s \in Step : Proceed(s, d)
  BY <1>4 DEF Proceed, TypeOK
<1>5. QED
  BY <1>1, <1>2, <1>3, <1>4

\* Core's answer, written into the record, keeps it a record.
LEMMA AnswerType ==
  ASSUME NEW d \in Doc, NEW p \in Payout
  PROVE  [d EXCEPT !.payoutRef = p.ref, !.payoutStatus = p.status] \in Doc
  BY DEF Doc, Payout, PayoutStatus

\* A payout core creates for a record.
LEMMA NewPayoutType ==
  ASSUME NEW d \in Doc, core \in [Tx -> Payout \cup {NoPayout}], NEW t \in Tx,
         NewPayout(t, PayRequest(t, d))
  PROVE  /\ core' \in [Tx -> Payout \cup {NoPayout}]
         /\ core'[t] \in Payout /\ core'[t] # NoPayout
         /\ core'[t].bank = d.bank
         /\ \A u \in Tx \ {t} : core'[u] = core[u]
<1>1. PICK p \in [status : PayoutStatus, amount : {d.amountOut} \cup OddAmounts,
                  bank : {d.bank}, ref : Ref, error : BOOLEAN] :
         core' = [core EXCEPT ![t] = p]
  BY DEF NewPayout, PayRequest
<1>2. d.amountOut \in Nat /\ d.bank \in Bank
  BY DEF Doc
<1>3. p \in Payout /\ p.bank = d.bank
  BY <1>2, ProcessorAssumption DEF Payout
<1>4. QED
  BY <1>1, <1>3, ProcessorAssumption

\* A step of the processor keeps the types.
LEMMA ProcessorTypes ==
  ASSUME Inv, ProcessorStep
  PROVE  TypeOK'
<1> USE DEF Inv, TypeOK
<1> DEFINE Memory ==
      /\ phase' \in Phase /\ queue' \subseteq Tx /\ step' \in Step /\ cur' \in Tx
      /\ doc' \in Doc \cup {NoDoc} /\ unclear' \in BOOLEAN
<1>1. CASE List
  <2>1. Listed \subseteq Tx
    BY PlatformAssumption DEF Listed, Transactions, Sep24, Phase
  <2>2. queue' \subseteq Tx
    BY <1>1, <2>1 DEF List, Oldest
  <2>3. QED
    BY <1>1, <2>2
       DEF List, Step, outside, serviceVars, ServiceTypeOK, PlatformTypeOK
<1>2. CASE Take
  <2>1. PICK t \in queue :
           /\ queue' = queue \ {t} /\ cur' = t
           /\ \/ /\ phase = "start6" /\ Expected[t] # 0
                 /\ step' = "start" /\ Enter(Proc, "get", t, Expected[t])
              \/ step' \in {"notifyError", "load"} /\ UNCHANGED call
           /\ UNCHANGED <<phase, doc, unclear, sap, store, customer, rate, outside>>
    BY <1>2 DEF Take
  <2>2. call' \in [Caller -> Frame]
    <3>1. CASE phase = "start6" /\ Enter(Proc, "get", t, Expected[t])
      <4>1. t \in Sep6
        BY <3>1 DEF QueueInv
      <4>2. Expected[t] \in Amounts /\ t \in Tx
        BY <4>1, ProcessorAssumption
      <4>3. [pc |-> "get", tx |-> t, amount |-> Expected[t], w |-> NoDoc, res |-> "none"]
               \in Frame
        BY <4>2 DEF Frame, Result
      <4>4. QED
        BY <3>1, <4>3 DEF Enter, ServiceTypeOK, Caller
    <3>2. CASE UNCHANGED call
      BY <3>2 DEF ServiceTypeOK
    <3>3. QED
      BY <2>1, <3>1, <3>2
  <2>3. QED
    BY <2>1, <2>2 DEF Step, outside, ServiceTypeOK, PlatformTypeOK
<1>3. CASE NextList
  BY <1>3 DEF NextList, NextPhase, Phase, Step, outside, serviceVars,
              ServiceTypeOK, PlatformTypeOK
<1>4. CASE Started
  <2>1. Memory
    BY <1>4, MemoryTypes DEF Started, Step
  <2>2. QED
    BY <1>4, <2>1, IdleType
       DEF Started, Return, outside, ServiceTypeOK, PlatformTypeOK, Caller, Result
<1>5. CASE Load
  <2>1. Memory
    BY <1>5, MemoryTypes DEF Load, Step, ServiceTypeOK
  <2>2. QED
    BY <1>5, <2>1 DEF Load, outside, serviceVars, ServiceTypeOK, PlatformTypeOK
<1>6. CASE CheckFunds
  <2>1. Memory
    BY <1>6, MemoryTypes DEF CheckFunds, Step
  <2>2. QED
    BY <1>6, <2>1 DEF CheckFunds, outside, serviceVars, ServiceTypeOK, PlatformTypeOK
<1>7. CASE PayRejected
  <2>1. doc # NoDoc
    BY <1>7, ServiceAssumption DEF PayRejected, HandInv, InHand
  <2>2. Memory
    BY <1>7, <2>1, MemoryTypes DEF PayRejected
  <2>3. QED
    BY <1>7, <2>2 DEF PayRejected, outside, serviceVars, ServiceTypeOK, PlatformTypeOK
<1>8. CASE Query
  <2>1. doc \in Doc
    BY <1>8 DEF Query, GetAnswer, HandInv, InHand
  <2>2. CASE Hold(doc)
    BY <1>8, <2>1, <2>2, MemoryTypes
       DEF Query, outside, serviceVars, ServiceTypeOK, PlatformTypeOK
  <2>3. CASE core[cur] # NoPayout /\ GetAnswer(core[cur])
    <3>1. core[cur] \in Payout /\ core[cur].error \in BOOLEAN
      BY <2>3 DEF Payout
    <3>2. QED
      BY <1>8, <2>1, <2>3, <3>1, AnswerType
         DEF Query, GetAnswer, Step, outside, serviceVars, ServiceTypeOK, PlatformTypeOK
  <2>4. QED
    BY <1>8, <2>2, <2>3 DEF Query
<1>9. CASE NotifyHold \/ NotifyError \/ NotifySent
  <2>1. Memory
    BY <1>9, MemoryTypes DEF NotifyHold, NotifyError, NotifySent
  <2>2. doc \in Doc => doc.payoutRef \in Ref \cup {NoRef}
    BY DEF Doc
  <2>3. PlatformTypeOK'
    BY <1>9, <2>2, NotifiedType, SetType
       DEF NotifyHold, NotifyError, NotifySent, NotifyTransactionOnHold,
           NotifyTransactionError, NotifyOffchainFundsSent, Status, HandInv, InHand,
           ServiceTypeOK, PlatformTypeOK
  <2>4. QED
    BY <1>9, <2>1, <2>3
       DEF NotifyHold, NotifyError, NotifySent, outside, ServiceTypeOK
<1>10. ASSUME NEW kind \in {"hold", "fail"}, Alert(kind)
       PROVE  TypeOK'
  <2>1. Memory
    BY <1>10, MemoryTypes DEF Alert, Step
  <2>2. QED
    BY <1>10, <2>1 DEF Alert, serviceVars, ServiceTypeOK, PlatformTypeOK
<1>11. ASSUME NEW answered \in BOOLEAN, Pay(answered)
       PROVE  TypeOK'
  <2>1. doc \in Doc
    BY <1>11 DEF Pay, HandInv, InHand
  <2>2. core' \in [Tx -> Payout \cup {NoPayout}] /\ core'[cur] \in Payout
    <3>1. CASE NewPayout(cur, PayRequest(cur, doc))
      BY <2>1, <3>1, NewPayoutType
    <3>2. CASE core[cur] # NoPayout /\ UNCHANGED core
      BY <3>2
    <3>3. QED
      BY <1>11, <3>1, <3>2 DEF Pay
  <2>3. Memory
    <3>1. CASE ~answered \/ core'[cur].amount # doc.amountOut
      BY <1>11, <3>1, MemoryTypes DEF Pay, PayAnswer
    <3>2. CASE answered /\ core'[cur].amount = doc.amountOut
      <4>1. core'[cur].error \in BOOLEAN
        BY <2>2 DEF Payout
      <4>2. QED
        BY <1>11, <2>1, <2>2, <3>2, <4>1, AnswerType DEF Pay, PayAnswer, Step
    <3>3. QED
      BY <3>1, <3>2
  <2>4. QED
    BY <1>11, <2>2, <2>3 DEF Pay, serviceVars, ServiceTypeOK, PlatformTypeOK
<1>12. ASSUME NEW answered \in BOOLEAN, Save(answered)
       PROVE  TypeOK'
  <2>1. doc \in Doc /\ doc # NoDoc
    BY <1>12, ServiceAssumption DEF Save, HandInv, InHand
  <2>2. Memory
    <3>1. \/ Done \/ Hold(doc) \/ Fail(doc)
          \/ \E s \in Step : Proceed(s, doc)
      BY <1>12 DEF Save, AfterPaid, AfterChecked, Step
    <3>2. QED
      BY <2>1, <3>1, MemoryTypes
  <2>3. QED
    BY <1>12, <2>1, <2>2 DEF Save, Write, outside, ServiceTypeOK, PlatformTypeOK
<1>13. ASSUME NEW answered \in BOOLEAN, NotifyPending(answered)
       PROVE  TypeOK'
  <2>1. doc.payoutRef \in Ref \cup {NoRef}
    BY <1>13 DEF NotifyPending, HandInv, InHand, Doc
  <2>2. Memory
    BY <1>13, MemoryTypes DEF NotifyPending, Step
  <2>3. PlatformTypeOK'
    BY <1>13, <2>1, NotifiedType, SetType
       DEF NotifyPending, NotifyOffchainFundsPending, Status, ServiceTypeOK, PlatformTypeOK
  <2>4. QED
    BY <1>13, <2>2, <2>3 DEF NotifyPending, outside, ServiceTypeOK
<1>14. CASE CallFails
  <2>1. Memory
    BY <1>14, MemoryTypes DEF CallFails
  <2>2. QED
    BY <1>14, <2>1 DEF CallFails, outside, serviceVars, ServiceTypeOK, PlatformTypeOK
<1>15. QED
  BY <1>1, <1>2, <1>3, <1>4, <1>5, <1>6, <1>7, <1>8, <1>9, <1>10, <1>11, <1>12,
     <1>13, <1>14 DEF ProcessorStep

\* Every step keeps the types.
LEMMA NextTypes ==
  ASSUME Inv, [Next]_vars
  PROVE  TypeOK'
<1> USE DEF Inv, TypeOK
<1>1. CASE UNCHANGED vars
  BY <1>1 DEF vars, serviceVars, outside, volatile, ServiceTypeOK, PlatformTypeOK
<1>2. ASSUME NEW t \in Tx, CoreUpdates(t)
      PROVE  TypeOK'
  <2>1. core' \in [Tx -> Payout \cup {NoPayout}]
    <3>1. \A p \in Payout, s \in PayoutStatus, r \in Ref, e \in BOOLEAN :
             [p EXCEPT !.status = s, !.ref = r, !.error = e] \in Payout
      BY DEF Payout
    <3>2. core[t] \in Payout
      BY <1>2 DEF CoreUpdates
    <3>3. PICK s \in PayoutStatus, r \in Ref, e \in BOOLEAN :
             core' = [core EXCEPT ![t] =
                         [core[t] EXCEPT !.status = s, !.ref = r, !.error = e]]
      BY <1>2 DEF CoreUpdates
    <3>4. [core[t] EXCEPT !.status = s, !.ref = r, !.error = e] \in Payout
      BY <3>1, <3>2
    <3>5. QED
      BY <3>3, <3>4
  <2>2. QED
    BY <1>2, <2>1 DEF CoreUpdates, serviceVars, volatile, ServiceTypeOK, PlatformTypeOK
<1>3. ASSUME NEW h \in Hash, LedgerCloses(h)
      PROVE  TypeOK'
  BY <1>3 DEF LedgerCloses, serviceVars, volatile, ServiceTypeOK, PlatformTypeOK
<1>4. CASE Crash
  BY <1>4, IdleType, PlatformAssumption
     DEF Crash, Restart, outside, Result, Step, Phase, AnyTx, ServiceTypeOK, PlatformTypeOK
<1>5. QED
  BY <1>1, <1>2, <1>3, <1>4, ServiceTypes, ProcessorTypes DEF Next
-----------------------------------------------------------------------------
(* The recorded quote.                                                     *)

\* No step changes a recorded quote.
LEMMA StoreSteps ==
  ASSUME Inv, [Next]_vars
  PROVE  QuotesStand
<1> USE DEF Inv, TypeOK, QuotesStand
<1>1. ASSUME NEW c \in Caller, StartStep(c)
      PROVE  QuotesStand
  BY <1>1, StartStore
<1>2. CASE ServiceStep
  <2>1. CASE \E c \in Caller : StartStep(c)
    BY <1>1, <2>1
  <2>2. CASE UNCHANGED store
    BY <2>2
  <2>3. QED
    BY <1>2, <2>1, <2>2
       DEF ServiceStep, FormStep, FormOpen, FormPut, CustomerChanges, PlatformStep, Caller
<1>3. CASE ProcessorStep
  <2>1. CASE \E answered \in BOOLEAN : Save(answered)
    BY <2>1 DEF Save, HandInv, InHand
  <2>2. CASE UNCHANGED store
    BY <2>2
  <2>3. QED
    BY <1>3, <2>1, <2>2
       DEF ProcessorStep, List, Take, NextList, Started, Load, CheckFunds, PayRejected,
           Query, GetAnswer, NotifyHold, NotifyError, NotifySent, Alert, Pay, NotifyPending,
           CallFails, serviceVars
<1>4. QED
  BY <1>2, <1>3 DEF Next, CoreUpdates, LedgerCloses, Crash, Restart, vars, serviceVars

\* A recorded quote stays what it is, in one step.
LEMMA QuotesKept ==
  ASSUME Inv, [Next]_vars, NEW t \in Tx, store[t] \in Doc
  PROVE  store'[t] \in Doc /\ Quoted(store'[t]) = Quoted(store[t])
  BY StoreSteps, StandingQuote DEF Inv, TypeOK

\* A caller's frame changes by its own steps; anything else that touches it
\* leaves it with no record in hand.
LEMMA CallSteps ==
  ASSUME Inv, [Next]_vars, NEW c \in Caller
  PROVE  \/ call'[c] = call[c]
         \/ call'[c].pc \in {"idle", "put", "get"}
         \/ StartStep(c)
<1> USE DEF Inv, TypeOK, ServiceTypeOK
<1>1. ASSUME NEW d \in Caller \ {c}, StartStep(d)
      PROVE  call'[c] = call[c]
  BY <1>1, StartFrame
<1>2. ASSUME NEW d \in Forms, FormStep(d), ~StartStep(d)
      PROVE  call'[c] = call[c] \/ call'[c].pc \in {"idle", "put", "get"}
  BY <1>2, FormFrame
<1>3. CASE ServiceStep
  BY <1>1, <1>2, <1>3 DEF ServiceStep, CustomerChanges, PlatformStep, Caller
<1>4. CASE ProcessorStep
  <2>1. CASE Take
    BY <2>1, FrameMoves DEF Take, Caller
  <2>2. CASE Started
    BY <2>2, FrameMoves DEF Started, Caller
  <2>3. CASE UNCHANGED call
    BY <2>3
  <2>4. QED
    BY <1>4, <2>1, <2>2, <2>3
       DEF ProcessorStep, List, NextList, Load, CheckFunds, PayRejected, Query, GetAnswer,
           NotifyHold, NotifyError, NotifySent, Alert, Pay, Save, NotifyPending,
           CallFails, serviceVars
<1>5. CASE Crash
  BY <1>5 DEF Crash, Restart, Idle
<1>6. CASE UNCHANGED call
  BY <1>6
<1>7. QED
  BY <1>3, <1>4, <1>5, <1>6 DEF Next, CoreUpdates, LedgerCloses, vars, serviceVars

\* What a caller of Start holds agrees with the store after every step.
LEMMA CallInvStep ==
  ASSUME Inv, [Next]_vars
  PROVE  CallInv'
<1>1. ASSUME NEW c \in Caller
      PROVE  Held(c)'
  BY CallSteps, StoreSteps, HeldKept DEF Inv, TypeOK
<1>2. QED
  BY <1>1 DEF CallInv, Caller

\* The record the processor holds was read from the store, and what the
\* processor does to it leaves the quote alone.
LEMMA HandInvStep ==
  ASSUME Inv, [Next]_vars
  PROVE  HandInv'
<1> USE DEF Inv, TypeOK, ServiceTypeOK
<1>1. CASE /\ step \in InHand /\ cur' = cur
           /\ doc' \in Doc /\ Quoted(doc') = Quoted(doc)
  BY <1>1, QuotesKept DEF HandInv
<1>2. CASE step' \notin InHand
  BY <1>2 DEF HandInv
<1>3. CASE UNCHANGED volatile
  BY <1>1, <1>2, <1>3 DEF volatile, HandInv
<1>4. ASSUME NEW d \in Doc, step \in InHand, Quoted(d) = Quoted(doc),
             \/ Done \/ Hold(d) \/ Fail(d) \/ \E s \in Step : Proceed(s, d)
      PROVE  HandInv'
  <2>1. /\ [d EXCEPT !.reconcile = "mismatch"] \in Doc
        /\ Quoted([d EXCEPT !.reconcile = "mismatch"]) = Quoted(d)
        /\ [d EXCEPT !.payoutStatus = "failed"] \in Doc
        /\ Quoted([d EXCEPT !.payoutStatus = "failed"]) = Quoted(d)
    BY DEF Doc, Quoted
  <2>2. CASE Done
    BY <1>2, <2>2 DEF Done, InHand
  <2>3. CASE Hold(d) \/ Fail(d) \/ \E s \in Step : Proceed(s, d)
    BY <1>1, <1>4, <2>1, <2>3, ServiceAssumption DEF Hold, Fail, Proceed
  <2>4. QED
    BY <1>4, <2>2, <2>3
<1>5. ASSUME NEW p \in Payout, step \in InHand, cur' = cur,
             doc' = [doc EXCEPT !.payoutRef = p.ref, !.payoutStatus = p.status]
      PROVE  HandInv'
  <2>1. doc \in Doc
    BY <1>5 DEF HandInv
  <2>2. doc' \in Doc /\ Quoted(doc') = Quoted(doc)
    BY <1>5, <2>1, AnswerType DEF Doc, Quoted
  <2>3. QED
    BY <1>1, <1>5, <2>2
<1>6. CASE ProcessorStep
  <2>1. CASE List \/ Take \/ NextList \/ Started
    BY <1>2, <2>1 DEF List, Take, NextList, Started, Proceed, Done, InHand
  <2>2. CASE Load
    BY <1>2, <2>2
       DEF Load, Done, Hold, Proceed, InHand, HandInv, serviceVars
  <2>3. CASE CheckFunds \/ PayRejected
    BY <1>4, <2>3 DEF CheckFunds, PayRejected, HandInv, InHand, Step
  <2>4. CASE Query
    BY <1>4, <1>5, <2>4 DEF Query, GetAnswer, HandInv, InHand
  <2>5. CASE NotifyHold \/ NotifyError \/ NotifySent \/ CallFails
    BY <1>2, <2>5 DEF NotifyHold, NotifyError, NotifySent, CallFails, Done, InHand
  <2>6. CASE \E kind \in {"hold", "fail"} : Alert(kind)
    BY <1>2, <2>6 DEF Alert, Proceed, InHand
  <2>7. ASSUME NEW answered \in BOOLEAN, Pay(answered)
        PROVE  HandInv'
    <3>1. core'[cur] \in Payout
      <4>1. doc \in Doc /\ core \in [Tx -> Payout \cup {NoPayout}]
        BY <2>7 DEF Pay, HandInv, InHand
      <4>2. core' \in [Tx -> Payout \cup {NoPayout}]
        BY NextTypes
      <4>3. core'[cur] # NoPayout
        BY <2>7, <4>1, NewPayoutType DEF Pay
      <4>4. QED
        BY <4>2, <4>3
    <3>2. QED
      BY <1>4, <1>5, <2>7, <3>1 DEF Pay, PayAnswer, HandInv, InHand
  <2>8. ASSUME NEW answered \in BOOLEAN, Save(answered)
        PROVE  HandInv'
    <3>1. \/ Done \/ Hold(doc) \/ Fail(doc) \/ \E s \in Step : Proceed(s, doc)
      BY <2>8 DEF Save, AfterPaid, AfterChecked, Step
    <3>2. QED
      BY <1>4, <2>8, <3>1 DEF Save, HandInv, InHand
  <2>9. ASSUME NEW answered \in BOOLEAN, NotifyPending(answered)
        PROVE  HandInv'
    BY <1>4, <2>9 DEF NotifyPending, HandInv, InHand, Step
  <2>10. QED
    BY <1>6, <2>1, <2>2, <2>3, <2>4, <2>5, <2>6, <2>7, <2>8, <2>9 DEF ProcessorStep
<1>7. CASE Crash
  BY <1>2, <1>7 DEF Crash, InHand
<1>8. QED
  BY <1>3, <1>6, <1>7 DEF Next, ServiceStep, CoreUpdates, LedgerCloses, vars
-----------------------------------------------------------------------------
(* The funds.                                                              *)

\* The actions of SAP, one at a time.
LEMMA SapSteps ==
  ASSUME [Next]_vars, Inv
  PROVE  \/ UNCHANGED sap
         \/ \E t \in Tx : \/ \E in, out : RequestOnchainFunds(t, in, out)
                          \/ PaymentMatched(t) \/ OperatorResolves(t)
                          \/ \E ref : \/ NotifyOffchainFundsPending(t, ref)
                                      \/ NotifyOffchainFundsSent(t, ref)
                          \/ NotifyTransactionError(t) \/ NotifyTransactionOnHold(t)
<1> USE DEF Inv, TypeOK, ServiceTypeOK
<1>1. ASSUME NEW c \in Caller, StartStep(c)
      PROVE  \/ UNCHANGED sap
             \/ \E t \in Tx : \E in, out : RequestOnchainFunds(t, in, out)
  <2>1. call[c].tx \in Tx
    BY DEF Frame
  <2>2. QED
    BY <1>1, <2>1
       DEF StartStep, StartGet, StartCreate, StartInsert, StartReget, StartRequest, StartUpdate
<1>2. CASE ServiceStep
  <2>1. CASE \E c \in Caller : StartStep(c)
    BY <1>1, <2>1
  <2>2. CASE \E t \in Tx : PlatformStep(t)
    BY <2>2 DEF PlatformStep
  <2>3. CASE UNCHANGED sap
    BY <2>3
  <2>4. QED
    BY <1>2, <2>1, <2>2, <2>3
       DEF ServiceStep, FormStep, FormOpen, FormPut, CustomerChanges, Caller
<1>3. CASE ProcessorStep
  <2>1. CASE NotifyHold \/ NotifyError \/ NotifySent \/ \E answered \in BOOLEAN : NotifyPending(answered)
    BY <2>1 DEF NotifyHold, NotifyError, NotifySent, NotifyPending
  <2>2. CASE UNCHANGED sap
    BY <2>2
  <2>3. QED
    BY <1>3, <2>1, <2>2
       DEF ProcessorStep, List, Take, NextList, Started, Load, CheckFunds, PayRejected,
           Query, GetAnswer, Alert, Pay, Save, CallFails, serviceVars
<1>4. QED
  BY <1>2, <1>3 DEF Next, CoreUpdates, LedgerCloses, Crash, Restart, vars, serviceVars

\* Once SAP matches no payment to t any more, it never does again, and the
\* payment it matched stays what it was.
LEMMA PastKept ==
  ASSUME Inv, [Next]_vars, NEW t \in Tx, Past(t)
  PROVE  /\ Past(t)'
         /\ sap'[t].stellar = sap[t].stellar
<1>1. sap \in [Tx -> SapTx] /\ sap[t] \in SapTx
  BY DEF Inv, TypeOK, ServiceTypeOK, PlatformTypeOK
<1>2. ASSUME NEW u \in Tx, NEW r, Set(u, r), u # t
      PROVE  sap'[t] = sap[t]
  BY <1>1, <1>2 DEF Set
<1>3. ASSUME NEW in, NEW out, RequestOnchainFunds(t, in, out)
      PROVE  FALSE
  BY <1>3 DEF RequestOnchainFunds, Past
<1>4. ~PaymentMatched(t)
  BY DEF PaymentMatched, Past
<1>5. ASSUME NEW s \in {"pending_external", "completed", "error", "on_hold", "refunded"},
             \/ Set(t, [sap[t] EXCEPT !.status = s])
             \/ \E ref : Set(t, [sap[t] EXCEPT !.status = s, !.ext = ref])
             \/ Set(t, [sap[t] EXCEPT !.status = s, !.byHand = TRUE])
      PROVE  Past(t)' /\ sap'[t].stellar = sap[t].stellar
  <2>1. /\ \/ sap'[t] = [sap[t] EXCEPT !.status = s]
           \/ \E ref : sap'[t] = [sap[t] EXCEPT !.status = s, !.ext = ref]
           \/ sap'[t] = [sap[t] EXCEPT !.status = s, !.byHand = TRUE]
    BY <1>1, <1>5 DEF Set
  <2>2. sap'[t].status = s /\ sap'[t].stellar = sap[t].stellar
    BY <1>1, <2>1 DEF SapTx
  <2>3. QED
    BY <2>2 DEF Past
<1>6. CASE UNCHANGED sap
  BY <1>6 DEF Past
<1>7. CASE sap'[t] = sap[t]
  BY <1>7 DEF Past
<1>8. CASE ~UNCHANGED sap
  <2>1. PICK u \in Tx : \/ \E in, out : RequestOnchainFunds(u, in, out)
                        \/ PaymentMatched(u) \/ OperatorResolves(u)
                        \/ \E ref : \/ NotifyOffchainFundsPending(u, ref)
                                    \/ NotifyOffchainFundsSent(u, ref)
                        \/ NotifyTransactionError(u) \/ NotifyTransactionOnHold(u)
    BY <1>8, SapSteps
  <2>2. \E r : Set(u, r)
    BY <2>1
       DEF RequestOnchainFunds, PaymentMatched, OperatorResolves, NotifyOffchainFundsPending,
           NotifyOffchainFundsSent, NotifyTransactionError, NotifyTransactionOnHold
  <2>3. CASE u # t
    BY <1>2, <1>7, <2>2, <2>3
  <2>4. CASE u = t
    <3>1. CASE OperatorResolves(t)
      BY <1>5, <3>1 DEF OperatorResolves
    <3>2. CASE \E ref : NotifyOffchainFundsPending(t, ref) \/ NotifyOffchainFundsSent(t, ref)
      BY <1>5, <3>2 DEF NotifyOffchainFundsPending, NotifyOffchainFundsSent
    <3>3. CASE NotifyTransactionError(t) \/ NotifyTransactionOnHold(t)
      BY <1>5, <3>3 DEF NotifyTransactionError, NotifyTransactionOnHold
    <3>4. QED
      BY <1>3, <1>4, <2>1, <2>4, <3>1, <3>2, <3>3
  <2>5. QED
    BY <2>3, <2>4
<1>9. QED
  BY <1>6, <1>8

\* The ledger only grows.
LEMMA LedgerGrows ==
  ASSUME [Next]_vars
  PROVE  onLedger \subseteq onLedger'
<1>1. CASE ProcessorStep
  BY <1>1
     DEF ProcessorStep, List, Take, NextList, Started, Load, CheckFunds, PayRejected,
         Query, GetAnswer, NotifyHold, NotifyError, NotifySent, Alert, Pay, Save, NotifyPending,
         CallFails, outside
<1>2. QED
  BY <1>1 DEF Next, ServiceStep, CoreUpdates, LedgerCloses, Crash, outside, vars

\* A payment that is there stays there, and stays what the record asks for.
LEMMA FundedKept ==
  ASSUME Inv, [Next]_vars, NEW t \in Tx, Past(t), Funded(t)
  PROVE  Funded(t)'
<1>1. store'[t] \in Doc /\ store'[t].amountIn = store[t].amountIn
  BY QuotesKept DEF Funded, Quoted
<1>2. sap'[t].stellar = sap[t].stellar
  BY PastKept
<1>3. onLedger \subseteq onLedger'
  BY LedgerGrows
<1>4. Received(t)' = Received(t)
  BY <1>2 DEF Received
<1>5. QED
  BY <1>1, <1>2, <1>3, <1>4 DEF Funded

\* Where core's payouts come from.
LEMMA CoreSteps ==
  ASSUME Inv, [Next]_vars, NEW t \in Tx, core'[t] # NoPayout
  PROVE  \/ core[t] # NoPayout /\ core'[t].bank = core[t].bank
         \/ /\ core[t] = NoPayout /\ t = cur /\ step = "pay" /\ core'[t].bank = doc.bank
            /\ UNCHANGED <<sap, store, onLedger>>
<1> USE DEF Inv, TypeOK
<1>1. CASE UNCHANGED core
  BY <1>1
<1>2. ASSUME NEW answered \in BOOLEAN, Pay(answered), ~UNCHANGED core
      PROVE  \/ core[t] # NoPayout /\ core'[t].bank = core[t].bank
             \/ /\ core[t] = NoPayout /\ t = cur /\ step = "pay" /\ core'[t].bank = doc.bank
                /\ UNCHANGED <<sap, store, onLedger>>
  <2>1. doc \in Doc
    BY <1>2 DEF Pay, HandInv, InHand
  <2>2. NewPayout(cur, PayRequest(cur, doc)) /\ core[cur] = NoPayout
    BY <1>2 DEF Pay, NewPayout
  <2>3. QED
    BY <1>2, <2>1, <2>2, NewPayoutType DEF Pay, serviceVars
<1>3. ASSUME NEW u \in Tx, CoreUpdates(u)
      PROVE  core[t] # NoPayout /\ core'[t].bank = core[t].bank
  <2>1. PICK s, r, e : core' = [core EXCEPT ![u] =
                                  [core[u] EXCEPT !.status = s, !.ref = r, !.error = e]]
    BY <1>3 DEF CoreUpdates
  <2>2. core[u] # NoPayout
    BY <1>3 DEF CoreUpdates
  <2>3. core[u] \in Payout
    BY <2>2
  <2>4. core'[u].bank = core[u].bank
    BY <2>1, <2>3 DEF Payout
  <2>5. QED
    BY <2>1, <2>2, <2>4
<1>4. CASE ProcessorStep
  BY <1>1, <1>2, <1>4
     DEF ProcessorStep, List, Take, NextList, Started, Load, CheckFunds, PayRejected,
         Query, GetAnswer, NotifyHold, NotifyError, NotifySent, Alert, Save, NotifyPending,
         CallFails, outside
<1>5. QED
  BY <1>1, <1>3, <1>4 DEF Next, ServiceStep, LedgerCloses, Crash, outside, vars

\* The list of start6 only ever holds SEP-6 withdrawals.
LEMMA QueueInvStep ==
  ASSUME Inv, [Next]_vars
  PROVE  QueueInv'
<1> USE DEF Inv, QueueInv
<1>1. CASE UNCHANGED <<phase, queue>>
  BY <1>1
<1>2. CASE List
  BY <1>2 DEF List, Oldest, Listed, Transactions
<1>3. CASE Take
  BY <1>3 DEF Take
<1>4. CASE NextList \/ Crash
  BY <1>4 DEF NextList, Crash
<1>5. CASE ProcessorStep
  BY <1>1, <1>2, <1>3, <1>4, <1>5
     DEF ProcessorStep, Started, Load, CheckFunds, PayRejected, Query, GetAnswer, NotifyHold,
         NotifyError, NotifySent, Alert, Pay, PayAnswer, Save, AfterPaid, AfterChecked,
         NotifyPending, CallFails, Done, Hold, Fail, Proceed
<1>6. QED
  BY <1>1, <1>4, <1>5 DEF Next, ServiceStep, CoreUpdates, LedgerCloses, volatile, vars

\* The steps that bring the processor to load, funds and pay, and those that
\* change the list it works from.
LEMMA WalkSteps ==
  ASSUME Inv, [Next]_vars
  PROVE  /\ \/ phase' = "start6"
            \/ phase' = phase /\ queue' \subseteq queue
            \/ List /\ phase' = phase /\ queue' \subseteq Listed
            \/ queue' = {}
         /\ step' \in {"load", "funds", "pay"} =>
               \/ cur' = cur /\ step \in {"load", "funds", "pay"}
               \/ Take /\ phase # "start6" /\ cur' \in queue
         /\ step' = "pay" =>
               \/ cur' = cur /\ step = "pay"
               \/ cur' = cur /\ step = "funds" /\ FundsMatch(cur, doc)
<1> DEFINE Goal ==
      /\ \/ phase' = "start6"
         \/ phase' = phase /\ queue' \subseteq queue
         \/ List /\ phase' = phase /\ queue' \subseteq Listed
         \/ queue' = {}
      /\ step' \in {"load", "funds", "pay"} =>
            \/ cur' = cur /\ step \in {"load", "funds", "pay"}
            \/ Take /\ phase # "start6" /\ cur' \in queue
      /\ step' = "pay" =>
            \/ cur' = cur /\ step = "pay"
            \/ cur' = cur /\ step = "funds" /\ FundsMatch(cur, doc)
<1>1. CASE UNCHANGED volatile
  BY <1>1 DEF volatile
<1>2. CASE Crash
  BY <1>2 DEF Crash
<1>3. CASE List
  BY <1>3 DEF List, Oldest
<1>4. CASE Take
  BY <1>4 DEF Take
<1>5. CASE NextList
  BY <1>5 DEF NextList
<1>6. CASE CheckFunds
  BY <1>6 DEF CheckFunds, Hold, Proceed
<1>7. CASE Load
  BY <1>7 DEF Load, Hold, Proceed, Done
<1>8. CASE UNCHANGED <<phase, queue>> /\ step' \notin {"load", "funds", "pay"}
  BY <1>8
<1>9. CASE ProcessorStep
  BY <1>3, <1>4, <1>5, <1>6, <1>7, <1>8, <1>9
     DEF ProcessorStep, Started, PayRejected, Query, GetAnswer, NotifyHold,
         NotifyError, NotifySent, Alert, Pay, PayAnswer, Save, AfterPaid, AfterChecked,
         NotifyPending, CallFails, Done, Hold, Fail, Proceed
<1>10. QED
  BY <1>1, <1>2, <1>9 DEF Next, ServiceStep, CoreUpdates, LedgerCloses, vars

\* Nothing on the way to a payout returns to waiting for its payment.
LEMMA PastInvStep ==
  ASSUME Inv, [Next]_vars
  PROVE  PastInv'
<1> USE DEF Inv
<1>0. queue \subseteq Tx /\ cur \in Tx /\ phase \in Phase
  BY DEF TypeOK
<1>1. phase' # "start6" => \A t \in queue' : Past(t)'
  <2>1. CASE phase' = phase /\ queue' \subseteq queue
    BY <1>0, <2>1, PastKept DEF PastInv
  <2>2. CASE List /\ phase' = phase /\ queue' \subseteq Listed
    <3>1. phase # "start6" => \A t \in Listed : t \in Tx /\ Past(t)
      BY <1>0, PlatformAssumption DEF Listed, Transactions, Sep24, Past, Phase
    <3>2. QED
      BY <2>2, <3>1, PastKept
  <2>3. QED
    BY <2>1, <2>2, WalkSteps
<1>2. step' \in {"load", "funds", "pay"} => Past(cur)'
  <2>1. CASE cur' = cur /\ step \in {"load", "funds", "pay"}
    <3>1. Past(cur)
      BY <2>1 DEF PastInv
    <3>2. sap'[cur].status \notin {"incomplete", "pending_user_transfer_start"}
      BY <1>0, <3>1, PastKept DEF Past
    <3>3. QED
      BY <2>1, <3>2 DEF Past
  <2>2. CASE phase # "start6" /\ cur' \in queue
    <3>1. PICK t \in Tx : t = cur' /\ Past(t)
      BY <1>0, <2>2 DEF PastInv
    <3>2. sap'[t].status \notin {"incomplete", "pending_user_transfer_start"}
      BY <3>1, PastKept DEF Past
    <3>3. QED
      BY <3>1, <3>2 DEF Past
  <2>3. QED
    BY <2>1, <2>2, WalkSteps
<1>3. \A t \in Tx : core'[t] # NoPayout => Past(t)'
  BY CoreSteps, PastKept DEF PastInv
<1>4. QED
  BY <1>1, <1>2, <1>3 DEF PastInv, Past

\* Between the check of the funds and the payout, and for ever after, the
\* payment is there.
LEMMA FundsInvStep ==
  ASSUME Inv, [Next]_vars
  PROVE  FundsInv'
<1> USE DEF Inv
<1>0. cur \in Tx
  BY DEF TypeOK
<1>1. step' = "pay" => Funded(cur)'
  <2>1. CASE cur' = cur /\ step = "pay"
    BY <1>0, <2>1, FundedKept DEF FundsInv, PastInv, Funded, Received
  <2>2. CASE cur' = cur /\ step = "funds" /\ FundsMatch(cur, doc)
    <3>1. store[cur] \in Doc /\ doc.amountIn = store[cur].amountIn
      BY <2>2 DEF HandInv, InHand, Quoted
    <3>2. Funded(cur)
      BY <2>2, <3>1 DEF FundsMatch, Settled, Funded
    <3>3. QED
      BY <1>0, <2>2, <3>2, FundedKept DEF PastInv, Funded, Received
  <2>3. QED
    BY <2>1, <2>2, WalkSteps
<1>2. ASSUME NEW t \in Tx, core'[t] # NoPayout
      PROVE  Funded(t)' /\ core'[t].bank = store'[t].bank
  <2>1. Past(t) /\ Funded(t)
    BY <1>2, CoreSteps DEF PastInv, FundsInv
  <2>2. Funded(t)'
    BY <2>1, FundedKept
  <2>3. store'[t].bank = store[t].bank
    BY <2>1, QuotesKept DEF Funded, Quoted
  <2>4. core'[t].bank = store[t].bank
    <3>1. step = "pay" => doc.bank = store[cur].bank
      BY DEF HandInv, InHand, Quoted
    <3>2. QED
      BY <1>2, <3>1, CoreSteps DEF FundsInv
  <2>5. QED
    BY <2>2, <2>3, <2>4
<1>3. QED
  BY <1>1, <1>2 DEF FundsInv
-----------------------------------------------------------------------------
(* The theorems.                                                           *)

\* The invariant holds in every reachable state.
LEMMA Invariance == Spec => []Inv
<1>1. Inv /\ [Next]_vars => Inv'
  BY NextTypes, CallInvStep, HandInvStep, QueueInvStep, PastInvStep, FundsInvStep DEF Inv
<1>2. QED
  BY InitInv, <1>1, PTL DEF Spec

\* Types, for the processor and the service together.
THEOREM TypeCorrect == Spec => []TypeOK
<1>1. Inv => TypeOK
  BY DEF Inv
<1>2. QED
  BY Invariance, <1>1, PTL

\* Whatever SAP matched, whichever forms, crashes and lost calls interleave,
\* core is asked for naira only when the payment is on the ledger, succeeded,
\* and adds up to the amount on record.
THEOREM FundsSafe == Spec => []PaidOnlyIfFunded
<1>1. Inv => PaidOnlyIfFunded
  BY ServiceAssumption DEF Inv, FundsInv, Funded, PaidOnlyIfFunded
<1>2. QED
  BY Invariance, <1>1, PTL

\* The naira goes to the bank account of the record, for ever.
THEOREM BankSafe == Spec => []PaidWhereRecorded
<1>1. Inv => PaidWhereRecorded
  BY ServiceAssumption DEF Inv, FundsInv, Funded, PaidWhereRecorded
<1>2. QED
  BY Invariance, <1>1, PTL

\* A recorded quote never changes, although every writer replaces the whole
\* document with a copy that may be stale.
THEOREM QuoteSafe == Spec => QuoteIsFinal
<1>1. Inv /\ [Next]_vars =>
        [\A t \in Tx :
            store[t] # NoDoc =>
                store'[t] # NoDoc /\ Quoted(store'[t]) = Quoted(store[t])]_serviceVars
  <2> SUFFICES ASSUME Inv, [Next]_vars, NEW t \in Tx, store[t] # NoDoc
               PROVE  store'[t] # NoDoc /\ Quoted(store'[t]) = Quoted(store[t])
    OBVIOUS
  <2>1. store[t] \in Doc
    BY DEF Inv, TypeOK, ServiceTypeOK
  <2>2. QED
    BY <2>1, QuotesKept, ServiceAssumption
<1>2. QED
  BY Invariance, <1>1, PTL DEF Spec, QuoteIsFinal
=============================================================================
