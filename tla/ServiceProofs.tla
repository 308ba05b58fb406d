---------------------------- MODULE ServiceProofs ----------------------------
(***************************************************************************)
(* Proofs about starting a withdrawal, for every set of withdrawals,       *)
(* customers, forms, amounts and rates: the service on its own, and the    *)
(* facts about its steps that the proofs of its neighbours (the processor, *)
(* the scan of incoming payments) rest on.                                 *)
(***************************************************************************)
EXTENDS WithdrawalService, MoneyProofs

\* The record in the memory of a caller of Start: once it is stored, the store
\* may move on, but not in the amounts or the bank account.
Held(c) ==
    /\ call[c].pc = "insert" => call[c].w \in Doc
    /\ call[c].pc = "reget" => store[call[c].tx] \in Doc
    /\ call[c].pc \in {"request", "update"} =>
          /\ call[c].w \in Doc
          /\ store[call[c].tx] \in Doc
          /\ Quoted(call[c].w) = Quoted(store[call[c].tx])

CallInv == \A c \in Caller : Held(c)

\* The store changes one document at a time, and a document that is there
\* already is only replaced by one with the same quote.
QuotesStand ==
    \/ UNCHANGED store
    \/ \E t \in Tx, w \in Doc :
          /\ Write(t, w)
          /\ store[t] \in Doc => Quoted(w) = Quoted(store[t])
-----------------------------------------------------------------------------
(* Facts about the values the actions build.                               *)

\* Returning from Start leaves a well-formed idle frame.
LEMMA IdleType == \A r \in Result : Idle(r) \in Frame
  BY PlatformAssumption DEF Idle, Frame

\* What the three ways of moving a frame do to it and to the others.
LEMMA FrameMoves ==
  ASSUME call \in [Caller -> Frame], NEW c \in Caller
  PROVE  /\ \A pc, w : Goto(c, pc, w) =>
               /\ call'[c].pc = pc /\ call'[c].w = w
               /\ call'[c].tx = call[c].tx
         /\ \A r : Return(c, r) => call'[c].pc = "idle"
         /\ \A pc, t, amount : Enter(c, pc, t, amount) => call'[c].pc = pc
         /\ \A d \in Caller \ {c} :
               /\ \A pc, w : Goto(c, pc, w) => call'[d] = call[d]
               /\ \A r : Return(c, r) => call'[d] = call[d]
               /\ \A pc, t, amount : Enter(c, pc, t, amount) => call'[d] = call[d]
<1>1. ASSUME NEW pc, NEW w, Goto(c, pc, w)
      PROVE  /\ call'[c].pc = pc /\ call'[c].w = w /\ call'[c].tx = call[c].tx
             /\ \A d \in Caller \ {c} : call'[d] = call[d]
  <2>1. call' = [call EXCEPT ![c] = [call[c] EXCEPT !.pc = pc, !.w = w]]
    BY <1>1 DEF Goto
  <2>2. call'[c] = [call[c] EXCEPT !.pc = pc, !.w = w]
    BY <2>1
  <2>3. QED
    BY <2>1, <2>2 DEF Frame
<1>2. ASSUME NEW r, Return(c, r)
      PROVE  call'[c].pc = "idle" /\ \A d \in Caller \ {c} : call'[d] = call[d]
  BY <1>2 DEF Return, Idle
<1>3. ASSUME NEW pc, NEW t, NEW amount, Enter(c, pc, t, amount)
      PROVE  call'[c].pc = pc /\ \A d \in Caller \ {c} : call'[d] = call[d]
  BY <1>3 DEF Enter
<1>4. QED
  BY <1>1, <1>2, <1>3

\* Moving a frame keeps the type of every caller's frame.
LEMMA CallTypes ==
  ASSUME call \in [Caller -> Frame], NEW c \in Caller,
         \/ \E pc \in {"put", "get", "create", "insert", "reget", "request", "update"},
               w \in Doc \cup {NoDoc} : Goto(c, pc, w)
         \/ \E r \in Result : Return(c, r)
  PROVE  call' \in [Caller -> Frame]
<1>1. ASSUME NEW pc \in {"put", "get", "create", "insert", "reget", "request", "update"},
             NEW w \in Doc \cup {NoDoc}, Goto(c, pc, w)
      PROVE  call' \in [Caller -> Frame]
  <2>1. [call[c] EXCEPT !.pc = pc, !.w = w] \in Frame
    BY DEF Frame
  <2>2. QED
    BY <1>1, <2>1 DEF Goto
<1>2. ASSUME NEW r \in Result, Return(c, r)
      PROVE  call' \in [Caller -> Frame]
  BY <1>2, IdleType DEF Return
<1>3. QED
  BY <1>1, <1>2

\* A priced withdrawal is a record.
LEMMA NewDocType ==
  ASSUME ServiceTypeOK, NEW t \in Tx, NEW amount \in Amounts, NEW bank \in Bank,
         AssetOf[t] \in DOMAIN rate
  PROVE  NewDoc(AssetOf[t], amount, bank) \in Doc
<1>1. /\ amount \in Nat
      /\ rate[AssetOf[t]] \in Nat
      /\ Scale \in Nat \ {0}
  BY PlatformAssumption, ServiceAssumption DEF ServiceTypeOK
<1>2. amount * rate[AssetOf[t]] \in Nat
  BY <1>1
<1>3. Payable(AssetOf[t], amount) \in Nat
  <2>1. Worth(rate, AssetOf[t], amount) \in Rational
    BY <1>1, <1>2 DEF Worth, Fixed, Rational
  <2>2. QED
    BY <2>1, FormatRoundsDown DEF Payable
<1>4. QED
  BY <1>1, <1>3 DEF NewDoc, Doc

\* Setting fields of a SAP transaction keeps its type, and so does each of
\* the ways the fields are set.
LEMMA SetType ==
  ASSUME PlatformTypeOK, NEW t \in Tx, NEW r \in SapTx, Set(t, r)
  PROVE  PlatformTypeOK'
  BY DEF PlatformTypeOK, Set

\* What request_onchain_funds makes of a transaction is one.
LEMMA AskedType ==
  ASSUME NEW r \in SapTx, NEW memo \in Tx, NEW in \in Nat, NEW out \in Nat
  PROVE  [r EXCEPT !.status = "pending_user_transfer_start",
                   !.memo = memo, !.askedIn = in, !.askedOut = out] \in SapTx
  BY DEF SapTx, Status

\* So is what the payment observer makes of it.
LEMMA MatchedType ==
  ASSUME NEW r \in SapTx, NEW amount \in Nat, NEW asset \in Asset, NEW S \in SUBSET Hash
  PROVE  [r EXCEPT !.status = "pending_anchor", !.amountIn = amount,
                   !.asset = asset, !.stellar = S] \in SapTx
  BY DEF SapTx, Status

\* So is what an operator makes of it.
LEMMA ResolvedType ==
  ASSUME NEW r \in SapTx, NEW s \in Status
  PROVE  [r EXCEPT !.status = s, !.byHand = TRUE] \in SapTx
  BY DEF SapTx, Status

-----------------------------------------------------------------------------
(* Types.                                                                  *)

\* A step of Start keeps the types; the caller may be a form or the processor.
LEMMA StartTypes ==
  ASSUME ServiceTypeOK, CallInv, NEW c \in Caller, StartStep(c)
  PROVE  ServiceTypeOK'
<1> DEFINE t == call[c].tx
           w == call[c].w
<1> USE DEF ServiceTypeOK
<1>0. /\ sap \in [Tx -> SapTx] /\ store \in [Tx -> Doc \cup {NoDoc}]
      /\ call \in [Caller -> Frame] /\ call[c] \in Frame /\ t \in Tx
  BY DEF PlatformTypeOK, Frame
<1>1. CASE StartGet(c)
  BY <1>0, <1>1, CallTypes DEF StartGet, Result, PlatformTypeOK
<1>2. CASE StartCreate(c)
  <2>1. CASE \E r \in Result : Return(c, r)
    BY <1>0, <1>2, <2>1, CallTypes DEF StartCreate, PlatformTypeOK
  <2>2. CASE /\ BankGiven(customer[Owner[t]])
             /\ Quotable(AssetOf[t], call[c].amount)
             /\ Goto(c, "insert", NewDoc(AssetOf[t], call[c].amount, customer[Owner[t]].bank))
    <3>1. customer[Owner[t]].bank \in Bank
      BY <1>0, <2>2, ServiceAssumption DEF BankGiven, Customer
    <3>2. NewDoc(AssetOf[t], call[c].amount, customer[Owner[t]].bank) \in Doc
      BY <1>0, <2>2, <3>1, NewDocType DEF Quotable, Frame
    <3>3. QED
      BY <1>0, <1>2, <2>2, <3>2, CallTypes DEF StartCreate, PlatformTypeOK
  <2>3. QED
    BY <1>2, <2>1, <2>2 DEF StartCreate, Result
<1>3. CASE StartInsert(c)
  BY <1>0, <1>3, CallTypes DEF StartInsert, At, Write, Result, PlatformTypeOK, CallInv, Held
<1>4. CASE StartReget(c)
  BY <1>0, <1>4, CallTypes DEF StartReget, At, Result, PlatformTypeOK, CallInv, Held
<1>5. CASE StartRequest(c)
  <2>1. w \in Doc
    BY <1>5 DEF StartRequest, At, CallInv, Held
  <2>2. [w EXCEPT !.memo = t] \in Doc
    BY <1>0, <2>1 DEF Doc
  <2>3. PlatformTypeOK'
    BY <1>0, <1>5, <2>1, AskedType, SetType
       DEF StartRequest, RequestOnchainFunds, PlatformTypeOK, Doc
  <2>4. QED
    BY <1>0, <1>5, <2>2, <2>3, CallTypes DEF StartRequest, Result
<1>6. CASE StartUpdate(c)
  BY <1>0, <1>6, CallTypes DEF StartUpdate, At, Write, Result, PlatformTypeOK, CallInv, Held
<1>7. QED
  BY <1>1, <1>2, <1>3, <1>4, <1>5, <1>6 DEF StartStep

\* So does any other step of a form.
LEMMA FormTypes ==
  ASSUME ServiceTypeOK, CallInv, NEW c \in Forms, FormStep(c)
  PROVE  ServiceTypeOK'
<1> USE DEF ServiceTypeOK
<1>0. c \in Caller /\ call \in [Caller -> Frame] /\ call[c] \in Frame
  BY DEF Caller
<1>1. ASSUME NEW t \in Tx \ Sep6, NEW amount \in Amounts, FormOpen(c, t, amount)
      PROVE  ServiceTypeOK'
  BY <1>0, <1>1 DEF FormOpen, Enter, Frame, Result, PlatformTypeOK
<1>2. ASSUME NEW k \in Customer, FormPut(c, k)
      PROVE  ServiceTypeOK'
  <2>1. call' \in [Caller -> Frame]
    BY <1>0, <1>2, CallTypes DEF FormPut, Result
  <2>2. customer' \in [Account -> Customer]
    BY <1>0, <1>2, ServiceAssumption DEF FormPut, Frame, Customer
  <2>3. QED
    BY <1>2, <2>1, <2>2 DEF FormPut, PlatformTypeOK
<1>3. QED
  BY <1>0, <1>1, <1>2, StartTypes DEF FormStep

\* So does SAP's payment observer or an operator.
LEMMA PlatformTypes ==
  ASSUME ServiceTypeOK, NEW t \in Tx, PlatformStep(t)
  PROVE  ServiceTypeOK'
<1> USE DEF ServiceTypeOK
<1>1. sap \in [Tx -> SapTx] /\ Amounts \subseteq Nat
  BY PlatformAssumption DEF PlatformTypeOK
<1>2. PlatformTypeOK'
  <2>1. CASE PaymentMatched(t)
    BY <1>1, <2>1, MatchedType, SetType DEF PaymentMatched
  <2>2. CASE OperatorResolves(t)
    BY <1>1, <2>2, ResolvedType, SetType DEF OperatorResolves, Status
  <2>3. QED
    BY <2>1, <2>2 DEF PlatformStep
<1>3. QED
  BY <1>2 DEF PlatformStep

\* And so do customers who change, and a restart.
LEMMA OtherTypes ==
  ASSUME ServiceTypeOK,
         Restart \/ UNCHANGED serviceVars \/ \E a \in Account : CustomerChanges(a)
  PROVE  ServiceTypeOK'
<1> USE DEF ServiceTypeOK
<1>1. CASE Restart
  BY <1>1, IdleType DEF Restart, Result, PlatformTypeOK
<1>2. ASSUME NEW a \in Account, CustomerChanges(a)
      PROVE  ServiceTypeOK'
  BY <1>2 DEF CustomerChanges, PlatformTypeOK
<1>3. CASE UNCHANGED serviceVars
  BY <1>3 DEF serviceVars, PlatformTypeOK
<1>4. QED
  BY <1>1, <1>2, <1>3
-----------------------------------------------------------------------------
(* The recorded quote.                                                     *)

\* Start inserts where there is nothing, and replaces by what it holds.
LEMMA StartStore ==
  ASSUME ServiceTypeOK, CallInv, NEW c \in Caller, StartStep(c)
  PROVE  QuotesStand
<1> USE DEF ServiceTypeOK, QuotesStand
<1>1. call[c].tx \in Tx
  BY DEF Frame
<1>2. CASE StartInsert(c)
  BY <1>1, <1>2, ServiceAssumption DEF StartInsert, At, CallInv, Held, Free
<1>3. CASE StartUpdate(c)
  BY <1>1, <1>3 DEF StartUpdate, At, CallInv, Held
<1>4. QED
  BY <1>2, <1>3 DEF StartStep, StartGet, StartCreate, StartReget, StartRequest

\* A recorded quote stays what it is.
LEMMA StandingQuote ==
  ASSUME ServiceTypeOK, QuotesStand, NEW t \in Tx, store[t] \in Doc
  PROVE  store'[t] \in Doc /\ Quoted(store'[t]) = Quoted(store[t])
  BY DEF Write, QuotesStand, ServiceTypeOK

\* The steps of Start move one frame.
LEMMA StartFrame ==
  ASSUME ServiceTypeOK, NEW c \in Caller, NEW d \in Caller \ {c}, StartStep(d)
  PROVE  call'[c] = call[c]
  BY FrameMoves
     DEF ServiceTypeOK, StartStep, StartGet, StartCreate, StartInsert, StartReget,
         StartRequest, StartUpdate

\* So does a form before it starts, which leaves it without a record.
LEMMA FormFrame ==
  ASSUME ServiceTypeOK, NEW c \in Caller, NEW d \in Forms, FormStep(d), ~StartStep(d)
  PROVE  call'[c] = call[c] \/ call'[c].pc \in {"idle", "put", "get"}
<1>1. d \in Caller
  BY DEF Caller
<1>2. \/ \E pc \in {"put", "get"} : \E t, amount : Enter(d, pc, t, amount)
      \/ \E pc \in {"put", "get"} : \E w : Goto(d, pc, w)
      \/ \E r : Return(d, r)
  BY DEF FormStep, FormOpen, FormPut
<1>3. QED
  BY <1>1, <1>2, FrameMoves DEF ServiceTypeOK

\* What a caller holds agrees with the store, when its frame was left alone or
\* emptied, or when it took a step of Start.
LEMMA HeldKept ==
  ASSUME ServiceTypeOK, CallInv, QuotesStand, NEW c \in Caller,
         \/ call'[c] = call[c]
         \/ call'[c].pc \in {"idle", "put", "get"}
         \/ StartStep(c)
  PROVE  Held(c)'
<1> USE DEF ServiceTypeOK, Held
<1>0. call[c] \in Frame /\ call[c].tx \in Tx /\ call \in [Caller -> Frame]
  BY DEF Frame
<1>1. CASE call'[c] = call[c]
  BY <1>0, <1>1, StandingQuote DEF CallInv
<1>2. CASE call'[c].pc \in {"idle", "put", "get"}
  BY <1>2
<1>3. CASE StartGet(c)
  BY <1>0, <1>3, FrameMoves DEF StartGet
<1>4. CASE StartCreate(c)
  <2>1. \/ call'[c].pc = "idle"
        \/ /\ call'[c].pc = "insert" /\ AssetOf[call[c].tx] \in DOMAIN rate
           /\ call'[c].w = NewDoc(AssetOf[call[c].tx], call[c].amount,
                                  customer[Owner[call[c].tx]].bank)
           /\ customer[Owner[call[c].tx]].bank \in Bank
    BY <1>0, <1>4, ServiceAssumption, FrameMoves
       DEF StartCreate, BankGiven, Customer, Quotable
  <2>2. QED
    BY <1>0, <2>1, NewDocType DEF Frame
<1>5. CASE StartInsert(c)
  BY <1>0, <1>5, FrameMoves DEF StartInsert, At, Free, Write, CallInv
<1>6. CASE StartReget(c)
  BY <1>0, <1>6, FrameMoves DEF StartReget, At, CallInv
<1>7. CASE StartRequest(c)
  <2>1. /\ call[c].w \in Doc /\ store[call[c].tx] \in Doc
        /\ Quoted(call[c].w) = Quoted(store[call[c].tx])
    BY <1>7 DEF StartRequest, At, CallInv
  <2>2. [call[c].w EXCEPT !.memo = call[c].tx] \in Doc
    BY <1>0, <2>1 DEF Doc
  <2>3. Quoted([call[c].w EXCEPT !.memo = call[c].tx]) = Quoted(call[c].w)
    BY <2>1 DEF Quoted, Doc
  <2>4. \/ call'[c].pc = "idle"
        \/ /\ call'[c].w = [call[c].w EXCEPT !.memo = call[c].tx]
           /\ call'[c].tx = call[c].tx /\ call'[c].pc = "update"
    BY <1>0, <1>7, FrameMoves DEF StartRequest
  <2>5. QED
    BY <1>7, <2>1, <2>2, <2>3, <2>4 DEF StartRequest
<1>8. CASE StartUpdate(c)
  BY <1>0, <1>8, FrameMoves DEF StartUpdate
<1>9. QED
  BY <1>1, <1>2, <1>3, <1>4, <1>5, <1>6, <1>7, <1>8 DEF StartStep
-----------------------------------------------------------------------------
(* The service on its own.                                                 *)

ServiceInv == ServiceTypeOK /\ CallInv

\* A caller's frame is left alone or emptied, but by its own steps of Start.
LEMMA CallerSteps ==
  ASSUME ServiceInv, NEW c \in Caller,
         \/ \E d \in Forms : FormStep(d)
         \/ \E a \in Account : CustomerChanges(a)
         \/ Restart
         \/ \E t \in Tx : PlatformStep(t)
         \/ UNCHANGED serviceVars
  PROVE  \/ call'[c] = call[c]
         \/ call'[c].pc \in {"idle", "put", "get"}
         \/ StartStep(c)
<1>1. ASSUME NEW d \in Forms, FormStep(d)
      PROVE  \/ call'[c] = call[c]
             \/ call'[c].pc \in {"idle", "put", "get"}
             \/ StartStep(c)
  BY <1>1, StartFrame, FormFrame DEF Caller, ServiceInv
<1>2. CASE Restart
  BY <1>2 DEF Restart, Idle
<1>3. QED
  BY <1>1, <1>2 DEF CustomerChanges, PlatformStep, serviceVars

\* What the forms, customers, SAP, operators and restarts do to it, which is
\* all any neighbour that only reads needs to know.
LEMMA ServiceInvStep ==
  ASSUME ServiceInv,
         \/ \E c \in Forms : FormStep(c)
         \/ \E a \in Account : CustomerChanges(a)
         \/ Restart
         \/ \E t \in Tx : PlatformStep(t)
         \/ UNCHANGED serviceVars
  PROVE  ServiceInv' /\ QuotesStand
<1> USE DEF ServiceInv
<1>1. ServiceTypeOK'
  BY FormTypes, PlatformTypes, OtherTypes
<1>2. QuotesStand
  <2>1. ASSUME NEW c \in Forms, FormStep(c)
        PROVE  QuotesStand
    BY <2>1, StartStore DEF FormStep, FormOpen, FormPut, Caller, QuotesStand
  <2>2. QED
    BY <2>1 DEF CustomerChanges, Restart, PlatformStep, serviceVars, QuotesStand
<1>3. ASSUME NEW c \in Caller
      PROVE  \/ call'[c] = call[c]
             \/ call'[c].pc \in {"idle", "put", "get"}
             \/ StartStep(c)
  BY CallerSteps
<1>4. CallInv'
  <2>1. ASSUME NEW c \in Caller
        PROVE  Held(c)'
    BY <1>2, <1>3, HeldKept
  <2>2. QED
    BY <2>1 DEF CallInv, Caller
<1>5. QED
  BY <1>1, <1>2, <1>4

LEMMA ServiceInitInv == ServiceInit => ServiceInv
<1> SUFFICES ASSUME ServiceInit PROVE ServiceInv
  OBVIOUS
<1>1. PlatformTypeOK
  BY PlatformAssumption DEF ServiceInit, PlatformInit, PlatformTypeOK, SapTx, Status
<1>2. call \in [Caller -> Frame]
  BY IdleType DEF ServiceInit, Result
<1>3. ServiceTypeOK
  BY <1>1, <1>2 DEF ServiceInit, ServiceTypeOK
<1>4. CallInv
  BY DEF ServiceInit, CallInv, Held, Idle
<1>5. QED
  BY <1>3, <1>4 DEF ServiceInv

\* Every record in the store or in a caller's hand is one Store could hold,
\* whatever amounts are posted and whichever rates are in force.
THEOREM ServiceTypeCorrect == ServiceSpec => []ServiceTypeOK
<1>1. ServiceInv /\ [ServiceNext]_serviceVars => ServiceInv'
  BY ServiceInvStep DEF ServiceNext
<1>2. ServiceInv => ServiceTypeOK
  BY DEF ServiceInv
<1>3. QED
  BY ServiceInitInv, <1>1, <1>2, PTL DEF ServiceSpec
-----------------------------------------------------------------------------
(* What the user is told.                                                  *)

\* Once SAP waits for the payment of t, the memo and the amounts it gave out
\* stay.
SapStands ==
    \A t \in Tx :
        sap[t].status # "incomplete" =>
            /\ sap'[t].status # "incomplete"
            /\ sap'[t].memo = sap[t].memo
            /\ sap'[t].askedIn = sap[t].askedIn
            /\ sap'[t].askedOut = sap[t].askedOut

\* A caller about to save the memo has it from SAP, which is still waiting.
Informed(c) ==
    call[c].pc = "update" =>
        LET t == call[c].tx
        IN  /\ sap[t].status # "incomplete"
            /\ call[c].w.memo = sap[t].memo
            /\ call[c].w.amountIn = sap[t].askedIn

InformedInv == \A c \in Caller : Informed(c)

\* SAP's answer to a caller.
LEMMA AskedAnswer ==
  ASSUME ServiceTypeOK, CallInv, NEW c \in Caller, StartRequest(c),
         RequestOnchainFunds(call[c].tx, call[c].w.amountIn, call[c].w.amountOut)
  PROVE  LET t == call[c].tx
         IN  /\ t \in Tx /\ sap[t].status = "incomplete"
             /\ sap'[t].status = "pending_user_transfer_start"
             /\ sap'[t].memo = t
             /\ sap'[t].askedIn = call[c].w.amountIn
             /\ sap'[t].askedOut = call[c].w.amountOut
             /\ \A u \in Tx \ {t} : sap'[u] = sap[u]
<1>1. call[c].tx \in Tx /\ sap \in [Tx -> SapTx]
  BY DEF ServiceTypeOK, PlatformTypeOK, Frame
<1>2. QED
  BY <1>1 DEF RequestOnchainFunds, Set, SapTx

\* Whatever a form, a customer, SAP or an operator does.
LEMMA ServiceSap ==
  ASSUME ServiceInv,
         \/ \E c \in Forms : FormStep(c)
         \/ \E a \in Account : CustomerChanges(a)
         \/ Restart
         \/ \E t \in Tx : PlatformStep(t)
         \/ UNCHANGED serviceVars
  PROVE  SapStands
<1>0. sap \in [Tx -> SapTx]
  BY DEF ServiceInv, ServiceTypeOK, PlatformTypeOK
<1>1. CASE UNCHANGED sap
  BY <1>1 DEF SapStands
<1>2. ASSUME NEW c \in Forms, StartRequest(c),
             RequestOnchainFunds(call[c].tx, call[c].w.amountIn, call[c].w.amountOut)
      PROVE  SapStands
  BY <1>2, AskedAnswer DEF ServiceInv, SapStands, Caller
<1>3. ASSUME NEW t \in Tx, PaymentMatched(t) \/ OperatorResolves(t)
      PROVE  SapStands
  <2>1. /\ sap'[t].status # "incomplete" /\ sap'[t].memo = sap[t].memo
        /\ sap'[t].askedIn = sap[t].askedIn /\ sap'[t].askedOut = sap[t].askedOut
    <3>1. sap[t] \in SapTx
      BY <1>0
    <3>2. CASE PaymentMatched(t)
      <4>1. PICK x, b, S :
              sap' = [sap EXCEPT ![t] =
                        [sap[t] EXCEPT !.status = "pending_anchor", !.amountIn = x,
                                       !.asset = b, !.stellar = S]]
        BY <3>2 DEF PaymentMatched, Set
      <4>2. sap'[t] = [sap[t] EXCEPT !.status = "pending_anchor", !.amountIn = x,
                                     !.asset = b, !.stellar = S]
        BY <1>0, <4>1
      <4>3. QED
        BY <3>1, <4>2 DEF SapTx
    <3>3. CASE OperatorResolves(t)
      <4>1. PICK s \in {"completed", "refunded"} :
              sap' = [sap EXCEPT ![t] = [sap[t] EXCEPT !.status = s, !.byHand = TRUE]]
        BY <3>3 DEF OperatorResolves, Set
      <4>2. sap'[t] = [sap[t] EXCEPT !.status = s, !.byHand = TRUE]
        BY <1>0, <4>1
      <4>3. QED
        BY <3>1, <4>2 DEF SapTx
    <3>4. QED
      BY <1>3, <3>2, <3>3
  <2>2. \A u \in Tx \ {t} : sap'[u] = sap[u]
    BY <1>0, <1>3 DEF PaymentMatched, OperatorResolves, Set
  <2>3. QED
    BY <2>1, <2>2 DEF SapStands
<1>4. QED
  BY <1>1, <1>2, <1>3
     DEF FormStep, FormOpen, FormPut, StartStep, StartGet, StartCreate, StartInsert,
         StartReget, StartRequest, StartUpdate, CustomerChanges, Restart,
         PlatformStep, serviceVars

\* What a caller was told stays true, when its frame was left alone or
\* emptied, or when it took a step of Start.
LEMMA InformedKept ==
  ASSUME ServiceTypeOK, CallInv, InformedInv, SapStands, NEW c \in Caller,
         \/ call'[c] = call[c]
         \/ call'[c].pc \in {"idle", "put", "get"}
         \/ StartStep(c)
  PROVE  Informed(c)'
<1> USE DEF ServiceTypeOK, Informed
<1>0. call[c] \in Frame /\ call[c].tx \in Tx /\ call \in [Caller -> Frame]
  BY DEF Frame
<1>1. CASE call'[c] = call[c]
  BY <1>0, <1>1 DEF InformedInv, SapStands
<1>2. CASE call'[c].pc \in {"idle", "put", "get"}
  BY <1>2
<1>3. CASE StartRequest(c)
  <2>1. CASE RequestOnchainFunds(call[c].tx, call[c].w.amountIn, call[c].w.amountOut)
    <3>1. call[c].w \in Doc
      BY <1>3 DEF StartRequest, At, CallInv, Held
    <3>2. /\ [call[c].w EXCEPT !.memo = call[c].tx].memo = call[c].tx
          /\ [call[c].w EXCEPT !.memo = call[c].tx].amountIn = call[c].w.amountIn
      BY <3>1 DEF Doc
    <3>3. \/ call'[c].pc = "idle"
          \/ /\ call'[c].w = [call[c].w EXCEPT !.memo = call[c].tx]
             /\ call'[c].tx = call[c].tx
      BY <1>0, <1>3, FrameMoves DEF StartRequest
    <3>4. QED
      BY <1>3, <2>1, <3>2, <3>3, AskedAnswer
  <2>2. CASE ~RequestOnchainFunds(call[c].tx, call[c].w.amountIn, call[c].w.amountOut)
    BY <1>0, <1>3, <2>2, FrameMoves DEF StartRequest
  <2>3. QED
    BY <2>1, <2>2
<1>4. CASE StartStep(c) /\ ~StartRequest(c)
  BY <1>0, <1>4, FrameMoves
     DEF StartStep, StartGet, StartCreate, StartInsert, StartReget, StartUpdate
<1>5. QED
  BY <1>1, <1>2, <1>3, <1>4

\* A form's step leaves the other callers' frames alone.
LEMMA OthersResults ==
  ASSUME ServiceTypeOK, NEW c \in Caller, NEW d \in Forms \ {c}, FormStep(d)
  PROVE  call'[c] = call[c]
<1>1. d \in Caller /\ call \in [Caller -> Frame]
  BY DEF Caller, ServiceTypeOK
<1>2. \/ \E pc, t, amount : Enter(d, pc, t, amount)
      \/ \E pc, w : Goto(d, pc, w)
      \/ \E r : Return(d, r)
      \/ StartStep(d)
  BY DEF FormStep, FormOpen, FormPut
<1>3. QED
  BY <1>1, <1>2, FrameMoves, StartFrame

\* A form that is done has saved what it was told.
LEMMA Finishing ==
  ASSUME ServiceTypeOK, InformedInv, NEW c \in Caller,
         call[c].res # "ok", call'[c].res = "ok",
         FormStep(c) \/ StartStep(c)
  PROVE  LET t == call[c].tx
         IN  /\ sap[t].status # "incomplete"
             /\ store'[t].memo = sap[t].memo
             /\ store'[t].amountIn = sap[t].askedIn
<1>0. call[c] \in Frame /\ call[c].tx \in Tx /\ call \in [Caller -> Frame]
      /\ store \in [Tx -> Doc \cup {NoDoc}]
  BY DEF Frame, ServiceTypeOK
<1>1. ASSUME NEW pc, NEW w, Goto(c, pc, w) PROVE FALSE
  <2>1. call' = [call EXCEPT ![c] = [call[c] EXCEPT !.pc = pc, !.w = w]]
    BY <1>1 DEF Goto
  <2>2. call'[c].res = call[c].res
    BY <1>0, <2>1 DEF Frame
  <2>3. QED
    BY <2>2
<1>2. \A pc, t, amount : ~Enter(c, pc, t, amount)
  BY <1>0 DEF Enter
<1>3. \A r : Return(c, r) => r = "ok"
  BY <1>0 DEF Return, Idle
<1>4. call[c].pc = "update" /\ Write(call[c].tx, call[c].w)
  BY <1>1, <1>2, <1>3
     DEF FormStep, FormOpen, FormPut, StartStep, StartGet, StartCreate, StartInsert,
         StartReget, StartRequest, StartUpdate, At
<1>5. QED
  BY <1>0, <1>4 DEF InformedInv, Informed, Write

\* What SAP was told when it was asked is what is on record, and stays so.
LEMMA QuoteKept ==
  ASSUME ServiceInv, QuoteAgreement, QuotesStand,
         \/ \E c \in Forms : FormStep(c)
         \/ \E a \in Account : CustomerChanges(a)
         \/ Restart
         \/ \E t \in Tx : PlatformStep(t)
         \/ UNCHANGED serviceVars
  PROVE  QuoteAgreement'
<1> SUFFICES ASSUME NEW t \in Tx, sap'[t].status # "incomplete", sap'[t].askedIn # 0
             PROVE  /\ store'[t] # NoDoc
                    /\ sap'[t].askedIn = store'[t].amountIn
                    /\ sap'[t].askedOut = store'[t].amountOut
  BY DEF QuoteAgreement
<1>0. /\ ServiceTypeOK /\ CallInv /\ sap \in [Tx -> SapTx]
      /\ store \in [Tx -> Doc \cup {NoDoc}]
  BY DEF ServiceInv, ServiceTypeOK, PlatformTypeOK
<1>1. CASE sap[t].status # "incomplete"
  BY <1>0, <1>1, ServiceSap, StandingQuote, ServiceAssumption
     DEF SapStands, QuoteAgreement, Quoted
<1>2. CASE sap[t].status = "incomplete"
  <2>1. ASSUME NEW u \in Tx, PaymentMatched(u) \/ OperatorResolves(u)
        PROVE  sap'[t] = sap[t]
    BY <1>0, <1>2, <2>1 DEF PaymentMatched, OperatorResolves, Set
  <2>2. PICK c \in Forms :
            /\ StartRequest(c)
            /\ RequestOnchainFunds(call[c].tx, call[c].w.amountIn, call[c].w.amountOut)
    BY <1>2, <2>1
       DEF FormStep, FormOpen, FormPut, StartStep, StartGet, StartCreate, StartInsert,
           StartReget, StartRequest, StartUpdate, CustomerChanges, Restart,
           PlatformStep, serviceVars
  <2>3. c \in Caller
    BY DEF Caller
  <2>4. call[c].tx = t
    BY <1>0, <1>2, <2>2, <2>3, AskedAnswer
  <2>5. /\ store[t] \in Doc /\ call[c].w.amountIn = store[t].amountIn
        /\ call[c].w.amountOut = store[t].amountOut
    BY <1>0, <2>2, <2>3, <2>4 DEF StartRequest, At, CallInv, Held, Quoted
  <2>6. UNCHANGED store
    BY <2>2 DEF StartRequest
  <2>7. QED
    BY <1>0, <2>2, <2>3, <2>4, <2>5, <2>6, AskedAnswer, ServiceAssumption
<1>3. QED
  BY <1>1, <1>2

\* What a caller is about to insert pays out the minimum.
Enough(c) == call[c].pc = "insert" => call[c].w.amountOut >= MinPayout

EnoughInv == AboveMinimum /\ \A c \in Caller : Enough(c)

\* An amount that may be quoted is above the minimum after rounding too.
LEMMA QuotableIsEnough ==
  ASSUME ServiceTypeOK, NEW t \in Tx, NEW amount \in Amounts, NEW bank,
         Quotable(AssetOf[t], amount)
  PROVE  NewDoc(AssetOf[t], amount, bank).amountOut >= MinPayout
<1>1. amount \in Nat /\ rate[AssetOf[t]] \in Nat /\ Scale \in Nat \ {0}
  BY PlatformAssumption, ServiceAssumption DEF ServiceTypeOK, Quotable
<1>2. amount * rate[AssetOf[t]] \in Nat
  BY <1>1, Products
<1>3. Worth(rate, AssetOf[t], amount) \in Rational
  BY <1>1, <1>2 DEF Worth, Fixed, Rational
<1>4. Payable(AssetOf[t], amount) >= MinPayout
  BY <1>3, MinimumSurvives, ServiceAssumption DEF Quotable, Payable
<1>5. QED
  BY <1>4 DEF NewDoc

LEMMA EnoughKept ==
  ASSUME ServiceInv, EnoughInv, QuotesStand, NEW c \in Caller,
         \/ call'[c] = call[c]
         \/ call'[c].pc \in {"idle", "put", "get"}
         \/ StartStep(c)
  PROVE  Enough(c)'
<1> USE DEF ServiceInv, ServiceTypeOK, Enough
<1>0. call[c] \in Frame /\ call[c].tx \in Tx /\ call \in [Caller -> Frame]
      /\ call[c].amount \in Amounts
  BY DEF Frame
<1>1. CASE call'[c] = call[c]
  BY <1>1 DEF EnoughInv
<1>2. CASE call'[c].pc \in {"idle", "put", "get"}
  BY <1>2
<1>3. CASE StartCreate(c)
  <2>1. \/ call'[c].pc = "idle"
        \/ /\ Quotable(AssetOf[call[c].tx], call[c].amount)
           /\ call'[c].w = NewDoc(AssetOf[call[c].tx], call[c].amount,
                                  customer[Owner[call[c].tx]].bank)
    BY <1>0, <1>3, FrameMoves DEF StartCreate
  <2>2. QED
    BY <1>0, <2>1, QuotableIsEnough
<1>4. CASE StartStep(c) /\ ~StartCreate(c)
  BY <1>0, <1>4, FrameMoves
     DEF StartStep, StartGet, StartInsert, StartReget, StartRequest, StartUpdate
<1>5. QED
  BY <1>1, <1>2, <1>3, <1>4

\* A record is inserted above the minimum, and replaced by one of the same
\* quote.
LEMMA MinimumKept ==
  ASSUME ServiceInv, EnoughInv,
         \/ \E c \in Forms : FormStep(c)
         \/ \E a \in Account : CustomerChanges(a)
         \/ Restart
         \/ \E t \in Tx : PlatformStep(t)
         \/ UNCHANGED serviceVars
  PROVE  AboveMinimum'
<1> USE DEF ServiceInv, ServiceTypeOK
<1>1. CASE UNCHANGED store
  BY <1>1 DEF EnoughInv, AboveMinimum
<1>2. ASSUME NEW c \in Forms, StartInsert(c) \/ StartUpdate(c), ~UNCHANGED store
      PROVE  AboveMinimum'
  <2>1. c \in Caller /\ call[c] \in Frame /\ call[c].tx \in Tx
    BY DEF Caller, Frame
  <2>2. Write(call[c].tx, call[c].w) /\ call[c].pc \in {"insert", "update"}
    BY <1>2 DEF StartInsert, StartUpdate, At
  <2>3. call[c].w.amountOut >= MinPayout
    <3>1. CASE call[c].pc = "insert"
      BY <2>1, <3>1 DEF EnoughInv, Enough
    <3>2. CASE call[c].pc = "update"
      BY <2>1, <3>2, ServiceAssumption DEF CallInv, Held, Quoted, EnoughInv, AboveMinimum
    <3>3. QED
      BY <2>2, <3>1, <3>2
  <2>4. \A t \in Tx : store'[t] = IF t = call[c].tx THEN call[c].w ELSE store[t]
    BY <2>1, <2>2 DEF Write
  <2>5. QED
    BY <2>3, <2>4 DEF EnoughInv, AboveMinimum
<1>3. QED
  BY <1>1, <1>2
     DEF FormStep, FormOpen, FormPut, StartStep, StartGet, StartCreate, StartReget,
         StartRequest, CustomerChanges, Restart, PlatformStep, serviceVars

StartInv == ServiceInv /\ InformedInv /\ EnoughInv /\ QuoteAgreement

LEMMA StartInvariance == ServiceSpec => []StartInv
<1>1. ServiceInit => StartInv
  <2> SUFFICES ASSUME ServiceInit PROVE StartInv
    OBVIOUS
  <2>1. /\ \A c \in Caller : call[c].pc = "idle"
        /\ \A t \in Tx : store[t] = NoDoc /\ sap[t].status = "incomplete"
    BY DEF ServiceInit, PlatformInit, Idle
  <2>2. QED
    BY <2>1, ServiceInitInv
       DEF StartInv, InformedInv, Informed, EnoughInv, Enough, AboveMinimum, QuoteAgreement
<1>2. StartInv /\ [ServiceNext]_serviceVars => StartInv'
  <2> SUFFICES ASSUME StartInv, [ServiceNext]_serviceVars PROVE StartInv'
    OBVIOUS
  <2>1. ServiceInv' /\ QuotesStand /\ SapStands
    BY ServiceInvStep, ServiceSap DEF ServiceNext, StartInv
  <2>2. QuoteAgreement' /\ AboveMinimum'
    BY <2>1, QuoteKept, MinimumKept DEF ServiceNext, StartInv
  <2>3. ASSUME NEW c \in Caller PROVE Informed(c)' /\ Enough(c)'
    <3>1. \/ call'[c] = call[c]
          \/ call'[c].pc \in {"idle", "put", "get"}
          \/ StartStep(c)
      BY CallerSteps DEF ServiceNext, StartInv
    <3>2. QED
      BY <2>1, <3>1, InformedKept, EnoughKept DEF StartInv, ServiceInv
  <2>4. QED
    BY <2>1, <2>2, <2>3 DEF StartInv, InformedInv, EnoughInv, Caller
<1>3. QED
  BY <1>1, <1>2, PTL DEF ServiceSpec

\* The amounts SAP gave out are those on record, whichever of several forms
\* got through first.
THEOREM ServiceQuoteTold == ServiceSpec => []QuoteAgreement
<1>1. StartInv => QuoteAgreement
  BY DEF StartInv
<1>2. QED
  BY StartInvariance, <1>1, PTL

\* Nothing is recorded below the minimum, at any rate.
THEOREM ServiceMinimumSafe == ServiceSpec => []AboveMinimum
<1>1. StartInv => AboveMinimum
  BY DEF StartInv, EnoughInv
<1>2. QED
  BY StartInvariance, <1>1, PTL

\* A recorded quote is final whatever the forms do.
THEOREM ServiceQuoteSafe == ServiceSpec => QuoteIsFinal
<1>1. StartInv /\ [ServiceNext]_serviceVars =>
        [\A t \in Tx :
            store[t] # NoDoc =>
                store'[t] # NoDoc /\ Quoted(store'[t]) = Quoted(store[t])]_serviceVars
  <2> SUFFICES ASSUME StartInv, [ServiceNext]_serviceVars, NEW t \in Tx, store[t] # NoDoc
               PROVE  store'[t] # NoDoc /\ Quoted(store'[t]) = Quoted(store[t])
    OBVIOUS
  <2>1. QuotesStand /\ ServiceTypeOK /\ store[t] \in Doc
    BY ServiceInvStep DEF ServiceNext, StartInv, ServiceInv, ServiceTypeOK
  <2>2. QED
    BY <2>1, StandingQuote, ServiceAssumption
<1>2. QED
  BY StartInvariance, <1>1, PTL DEF ServiceSpec, QuoteIsFinal

\* The form says "pay" only when SAP waits for the payment, and the record
\* carries its memo and the amount SAP gave out.
THEOREM StartedSafe == ServiceSpec => StartedIsRecorded
<1>1. StartInv /\ [ServiceNext]_serviceVars =>
        [\A c \in Forms :
            call[c].res # "ok" /\ call'[c].res = "ok" =>
                LET t == call[c].tx
                IN  /\ sap[t].status # "incomplete"
                    /\ store'[t].memo = sap[t].memo
                    /\ store'[t].amountIn = sap[t].askedIn]_serviceVars
  <2> SUFFICES ASSUME StartInv, [ServiceNext]_serviceVars, NEW c \in Forms,
                      call[c].res # "ok", call'[c].res = "ok"
               PROVE  LET t == call[c].tx
                      IN  /\ sap[t].status # "incomplete"
                          /\ store'[t].memo = sap[t].memo
                          /\ store'[t].amountIn = sap[t].askedIn
    OBVIOUS
  <2>1. c \in Caller /\ ServiceTypeOK /\ InformedInv
    BY DEF Caller, StartInv, ServiceInv
  <2>2. FormStep(c)
    <3>1. ASSUME NEW d \in Forms \ {c}, FormStep(d) PROVE FALSE
      BY <2>1, <3>1, OthersResults DEF Caller
    <3>2. ~Restart
      BY <2>1 DEF Restart, Idle
    <3>3. QED
      BY <3>1, <3>2 DEF ServiceNext, CustomerChanges, PlatformStep, serviceVars
  <2>3. QED
    BY <2>1, <2>2, Finishing
<1>2. QED
  BY StartInvariance, <1>1, PTL DEF ServiceSpec, StartedIsRecorded
=============================================================================
