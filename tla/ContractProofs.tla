---------------------------- MODULE ContractProofs ----------------------------
(***************************************************************************)
(* Proof that the form and the processor together implement Lifecycle, and *)
(* that SAP tells the truth about the naira, for every set of withdrawals, *)
(* customers, forms and rates, and for every ledger.                       *)
(*                                                                         *)
(* payOut and checkPayout act on a withdrawal listed some calls earlier    *)
(* and never read its status again.  The invariant is why that is right:   *)
(* nobody else moves a withdrawal the processor has listed, so its status  *)
(* is the listed one until the processor itself changes it; and what core  *)
(* answered last can only have become final since.                         *)
(***************************************************************************)
EXTENDS ProcessorContract, ProcessorProofs, Sequences

\* Forms work on SEP-24 withdrawals only.
FormInv == \A c \in Forms : call[c].pc # "idle" => call[c].tx \notin Sep6

\* Until it asks SAP for the payment, the processor starts a withdrawal that
\* is still incomplete.
Starting == {"get", "create", "insert", "reget", "request"}

ProcInv ==
    /\ step # "start" => call[Proc].pc = "idle"
    /\ step = "start" =>
          /\ phase = "start6" /\ cur \in Sep6
          /\ call[Proc].pc \in Starting \cup {"idle", "update"}
          /\ call[Proc].pc # "idle" => call[Proc].tx = cur
          /\ \/ call[Proc].pc \in Starting
             \/ call[Proc].pc = "idle" /\ call[Proc].res = "user"
             => sap[cur].status = "incomplete"

\* The status of the withdrawals on the list, and of the one being handled.
ListedStatus ==
    CASE phase = "start6" -> "incomplete"
      [] phase \in {"pay24", "pay6"} -> "pending_anchor"
      [] OTHER -> "pending_external"

DueStatus == IF step = "notifySent" THEN "pending_external" ELSE ListedStatus

HandledInv ==
    /\ \A t \in queue : sap[t].status = ListedStatus
    /\ step = "list" => queue = {}
    /\ step \notin {"list", "next"} => cur \notin queue
    /\ step \notin {"list", "next", "start"} => sap[cur].status = DueStatus

\* Which of the handlers is running.
PhaseInv ==
    /\ phase = "start6" /\ step \notin {"list", "next"} =>
          step \in {"start", "notifyError"} /\ cur \in Sep6
    /\ step \in {"funds", "pay", "savePaid", "notifyPending"} => ~Checking
    /\ step \in {"query", "saveChecked"} => Checking

\* The wallet is told what the record says, when SAP assigns the memo.  Only
\* what a person settled counts as settled by hand.
AskedInv ==
    \A t \in Tx :
        /\ sap[t].byHand => sap[t].status \in {"completed", "refunded"}
        /\ sap[t].status = "incomplete" => sap[t].memo = NoMemo
        /\ sap[t].memo = NoMemo => sap[t].askedIn = 0
        /\ sap[t].memo # NoMemo =>
              /\ store[t] \in Doc
              /\ sap[t].askedIn = store[t].amountIn
              /\ sap[t].askedOut = store[t].amountOut
        /\ sap[t].status \notin {"incomplete", "error"} => sap[t].memo # NoMemo

\* Core's last answer, in the processor's memory: what is final in it is
\* still so.
Answering == {"savePaid", "saveChecked", "notifyPending", "notifySent"}

AnswerInv ==
    /\ step \in Answering =>
          /\ core[cur] # NoPayout
          /\ doc.payoutStatus = "completed" =>
                core[cur].status = "completed" /\ core[cur].ref = doc.payoutRef
          /\ doc.payoutStatus = "failed" => core[cur].status = "failed"
    /\ step \in {"savePaid", "notifyPending"} => core[cur].amount = doc.amountOut
    /\ step = "notifySent" => doc.payoutStatus = "completed"

Unpaid(t) == core[t] = NoPayout \/ core[t].status = "failed"

PayoutInv ==
    /\ step \in {"saveFail", "alertFail", "notifyError"} => Unpaid(cur)
    /\ \A t \in Tx :
          sap[t].status = "pending_external" =>
              core[t] # NoPayout /\ core[t].amount = store[t].amountOut
    /\ CompletedAsPromised
    /\ ErrorOnlyIfUnpaid

AlertInv ==
    /\ step = "notifyHold" => <<cur, "hold">> \in alerts
    /\ step = "notifyError" /\ phase # "start6" => <<cur, "fail">> \in alerts
    /\ NoSilentEnd

\* Whatever is recorded was priced with a table of the anchor.
OfferInv ==
    /\ \A t \in Tx : store[t] \in Doc => Quoted(store[t]) \in OffersOf(t)
    /\ \A c \in Caller :
          call[c].pc = "insert" => Quoted(call[c].w) \in OffersOf(call[c].tx)

WalkInv == FormInv /\ ProcInv /\ HandledInv /\ PhaseInv
MoneyInv == AskedInv /\ AnswerInv /\ PayoutInv
FullInv == Inv /\ WalkInv /\ MoneyInv /\ AlertInv /\ OfferInv
-----------------------------------------------------------------------------
(* Who may do what.                                                        *)

\* The initial state satisfies the invariant.
LEMMA InitFull == Init => FullInv
<1> SUFFICES ASSUME Init PROVE FullInv
  OBVIOUS
<1>1. /\ \A c \in Caller : call[c].pc = "idle" /\ call[c].res = "none"
      /\ \A t \in Tx : /\ store[t] = NoDoc /\ core[t] = NoPayout
                       /\ sap[t].status = "incomplete" /\ sap[t].memo = NoMemo
                       /\ sap[t].askedIn = 0 /\ ~sap[t].byHand
      /\ step = "list" /\ queue = {}
  BY DEF Init, ServiceInit, PlatformInit, Idle
<1>2. WalkInv
  BY <1>1 DEF WalkInv, FormInv, ProcInv, HandledInv, PhaseInv, Caller
<1>3. MoneyInv
  BY <1>1 DEF MoneyInv, AskedInv, AnswerInv, PayoutInv, Answering,
              CompletedAsPromised, ErrorOnlyIfUnpaid
<1>4. AlertInv /\ OfferInv
  BY <1>1, ServiceAssumption DEF AlertInv, NoSilentEnd, OfferInv
<1>5. QED
  BY <1>2, <1>3, <1>4, InitInv DEF FullInv

\* What changes a withdrawal at SAP, and who does it; nothing else changes
\* in the store or at core with it.
SapCalls ==
    \/ \E c \in Caller :
          /\ StartRequest(c)
          /\ RequestOnchainFunds(call[c].tx, call[c].w.amountIn, call[c].w.amountOut)
    \/ \E t \in Tx : PaymentMatched(t) \/ OperatorResolves(t)
    \/ \E answered \in BOOLEAN : NotifyPending(answered)
    \/ NotifySent
    \/ NotifyError
    \/ NotifyHold

\* Every change at SAP is one of these.
LEMMA SapMoves ==
  ASSUME Inv, [Next]_vars
  PROVE  UNCHANGED sap \/ (SapCalls /\ UNCHANGED <<store, core>>)
<1>1. ASSUME NEW c \in Caller, StartStep(c), UNCHANGED outside
      PROVE  UNCHANGED sap \/ (SapCalls /\ UNCHANGED <<store, core>>)
  BY <1>1
     DEF StartStep, StartGet, StartCreate, StartInsert, StartReget, StartRequest,
         StartUpdate, SapCalls, At, outside
<1>2. CASE ServiceStep
  <2>1. CASE \E c \in Caller : StartStep(c)
    BY <1>1, <1>2, <2>1 DEF ServiceStep
  <2>2. CASE \E t \in Tx : PlatformStep(t)
    BY <1>2, <2>2 DEF ServiceStep, PlatformStep, SapCalls, outside
  <2>3. CASE UNCHANGED sap
    BY <2>3
  <2>4. QED
    BY <1>2, <2>1, <2>2, <2>3
       DEF ServiceStep, FormStep, FormOpen, FormPut, CustomerChanges, Caller
<1>3. CASE ProcessorStep
  <2>1. CASE NotifyHold \/ NotifyError \/ NotifySent \/ \E answered \in BOOLEAN : NotifyPending(answered)
    BY <2>1 DEF SapCalls, NotifyHold, NotifyError, NotifySent, NotifyPending, outside
  <2>2. CASE UNCHANGED sap
    BY <2>2
  <2>3. QED
    BY <1>3, <2>1, <2>2
       DEF ProcessorStep, List, Take, NextList, Started, Load, CheckFunds, PayRejected,
           Query, GetAnswer, Alert, Pay, Save, CallFails, serviceVars
<1>4. QED
  BY <1>2, <1>3 DEF Next, CoreUpdates, LedgerCloses, Crash, Restart, vars, serviceVars

\* What the calls make of the withdrawal t.
Promised(t) == <<sap[t].memo, sap[t].askedIn, sap[t].askedOut>>

AskEffect(t, in, out) ==
    /\ sap[t].status = "incomplete"
    /\ sap'[t].status = "pending_user_transfer_start"
    /\ sap'[t].memo = t /\ sap'[t].askedIn = in /\ sap'[t].askedOut = out
    /\ sap'[t].byHand = sap[t].byHand

MoveEffect(t) ==
    \/ /\ sap[t].status = "pending_user_transfer_start" /\ sap'[t].status = "pending_anchor"
       /\ sap'[t].byHand = sap[t].byHand
    \/ /\ sap[t].status = "on_hold" /\ sap'[t].status \in {"completed", "refunded"}
       /\ sap'[t].byHand
    \/ /\ t = cur /\ step' # step /\ sap'[t].byHand = sap[t].byHand
       /\ \/ /\ step = "notifyPending"
             /\ sap[t].status = "pending_anchor" /\ sap'[t].status = "pending_external"
          \/ /\ step = "notifySent" /\ sap[t].status \in {"pending_anchor", "pending_external"}
             /\ sap'[t].status = "completed" /\ sap'[t].ext = doc.payoutRef
          \/ /\ step = "notifyError" /\ sap[t].status \in Open \cup {"on_hold"}
             /\ sap'[t].status = "error"
          \/ /\ step = "notifyHold" /\ sap[t].status \in {"pending_anchor", "pending_external"}
             /\ sap'[t].status = "on_hold"

\* A step changes at most one withdrawal at SAP, in one of these ways.
LEMMA SapEffects ==
  ASSUME Inv, SapCalls
  PROVE  \E t \in Tx :
            /\ \A u \in Tx \ {t} : sap'[u] = sap[u]
            /\ \/ \E c \in Caller :
                     /\ StartRequest(c) /\ call[c].tx = t
                     /\ AskEffect(t, call[c].w.amountIn, call[c].w.amountOut)
               \/ MoveEffect(t) /\ Promised(t)' = Promised(t)
<1> USE DEF Inv, TypeOK, ServiceTypeOK, PlatformTypeOK
<1>0. sap \in [Tx -> SapTx] /\ cur \in Tx
  OBVIOUS
<1>1. ASSUME NEW c \in Caller, StartRequest(c),
             RequestOnchainFunds(call[c].tx, call[c].w.amountIn, call[c].w.amountOut)
      PROVE  /\ call[c].tx \in Tx
             /\ \A u \in Tx \ {call[c].tx} : sap'[u] = sap[u]
             /\ AskEffect(call[c].tx, call[c].w.amountIn, call[c].w.amountOut)
  <2>1. call[c].tx \in Tx /\ sap[call[c].tx] \in SapTx
    BY <1>0 DEF Frame
  <2>2. QED
    BY <1>0, <1>1, <2>1 DEF RequestOnchainFunds, Set, AskEffect, SapTx
<1>2. ASSUME NEW t \in Tx, PaymentMatched(t) \/ OperatorResolves(t)
      PROVE  /\ \A u \in Tx \ {t} : sap'[u] = sap[u]
             /\ MoveEffect(t) /\ Promised(t)' = Promised(t)
  <2>1. sap[t] \in SapTx
    BY <1>0
  <2>2. CASE PaymentMatched(t)
    BY <1>0, <2>1, <2>2 DEF PaymentMatched, Set, MoveEffect, Promised, SapTx
  <2>3. CASE OperatorResolves(t)
    <3>1. PICK s \in {"completed", "refunded"} :
             Set(t, [sap[t] EXCEPT !.status = s, !.byHand = TRUE])
      BY <2>3 DEF OperatorResolves
    <3>2. sap'[t] = [sap[t] EXCEPT !.status = s, !.byHand = TRUE]
      BY <1>0, <3>1 DEF Set
    <3>3. /\ sap'[t].status = s /\ sap'[t].byHand
          /\ Promised(t)' = Promised(t)
      BY <2>1, <3>2 DEF Promised, SapTx
    <3>4. QED
      BY <1>0, <2>3, <3>1, <3>3 DEF OperatorResolves, Set, MoveEffect
  <2>4. QED
    BY <1>2, <2>2, <2>3
<1>3. ASSUME NEW t \in Tx, t = cur,
             \/ \E answered \in BOOLEAN : NotifyPending(answered)
             \/ NotifySent \/ NotifyError \/ NotifyHold
      PROVE  /\ \A u \in Tx \ {t} : sap'[u] = sap[u]
             /\ MoveEffect(t) /\ Promised(t)' = Promised(t)
  <2>1. sap[t] \in SapTx
    BY <1>0
  <2>2. PICK s, ref :
           /\ step' # step
           /\ \/ /\ Set(t, [sap[t] EXCEPT !.status = s, !.ext = ref])
                 /\ ref = doc.payoutRef
                 /\ \/ step = "notifyPending" /\ sap[t].status = "pending_anchor"
                       /\ s = "pending_external"
                    \/ step = "notifySent" /\ s = "completed"
                       /\ sap[t].status \in {"pending_anchor", "pending_external"}
              \/ /\ Set(t, [sap[t] EXCEPT !.status = s])
                 /\ \/ step = "notifyError" /\ s = "error"
                       /\ sap[t].status \in Open \cup {"on_hold"}
                    \/ step = "notifyHold" /\ s = "on_hold"
                       /\ sap[t].status \in {"pending_anchor", "pending_external"}
    BY <1>3
       DEF NotifyPending, NotifySent, NotifyError, NotifyHold, NotifyOffchainFundsPending,
           NotifyOffchainFundsSent, NotifyTransactionError, NotifyTransactionOnHold,
           Done, Proceed
  <2>3. /\ \A u \in Tx \ {t} : sap'[u] = sap[u]
        /\ sap'[t].memo = sap[t].memo /\ sap'[t].askedIn = sap[t].askedIn
        /\ sap'[t].askedOut = sap[t].askedOut /\ sap'[t].byHand = sap[t].byHand
        /\ sap'[t].status = s
        /\ step = "notifySent" => sap'[t].ext = doc.payoutRef
    <3>1. CASE /\ sap' = [sap EXCEPT ![t] = [sap[t] EXCEPT !.status = s, !.ext = ref]]
               /\ ref = doc.payoutRef
      BY <1>0, <2>1, <3>1 DEF SapTx
    <3>2. CASE /\ sap' = [sap EXCEPT ![t] = [sap[t] EXCEPT !.status = s]]
               /\ step # "notifySent"
      BY <1>0, <2>1, <3>2 DEF SapTx
    <3>3. QED
      BY <2>2, <3>1, <3>2 DEF Set
  <2>4. QED
    BY <1>3, <2>2, <2>3 DEF Promised, MoveEffect
<1>4. CASE \E c \in Caller :
            /\ StartRequest(c)
            /\ RequestOnchainFunds(call[c].tx, call[c].w.amountIn, call[c].w.amountOut)
  BY <1>1, <1>4
<1>5. CASE \E t \in Tx : PaymentMatched(t) \/ OperatorResolves(t)
  BY <1>2, <1>5
<1>6. CASE \/ \E answered \in BOOLEAN : NotifyPending(answered)
           \/ NotifySent \/ NotifyError \/ NotifyHold
  BY <1>0, <1>3, <1>6
<1>7. QED
  BY <1>4, <1>5, <1>6 DEF SapCalls
-----------------------------------------------------------------------------
(* The walk: which withdrawal is whose.                                    *)

\* A form keeps its withdrawal until it returns, and takes SEP-24 ones only.
LEMMA FormInvStep ==
  ASSUME Inv, FormInv, [Next]_vars
  PROVE  FormInv'
<1> SUFFICES ASSUME NEW c \in Forms
             PROVE  \/ call'[c] = call[c] \/ call'[c].pc = "idle"
                    \/ call[c].pc # "idle" /\ call'[c].tx = call[c].tx
                    \/ call'[c].tx \in Tx \ Sep6
  BY DEF FormInv
<1> USE DEF Inv, TypeOK, ServiceTypeOK
<1>0. c \in Caller /\ call \in [Caller -> Frame] /\ c # Proc /\ call[c] \in Frame
  BY ServiceAssumption DEF Caller
<1>1. ASSUME NEW d \in Caller \ {c}, StartStep(d) \/ FormStep(d)
      PROVE  call'[c] = call[c]
  BY <1>0, <1>1, FrameMoves
     DEF StartStep, StartGet, StartCreate, StartInsert, StartReget, StartRequest,
         StartUpdate, FormStep, FormOpen, FormPut
<1>2. CASE StartStep(c)
  BY <1>0, <1>2, FrameMoves
     DEF StartStep, StartGet, StartCreate, StartInsert, StartReget, StartRequest,
         StartUpdate, At
<1>3. CASE FormStep(c)
  <2>1. CASE \E t \in Tx \ Sep6, amount \in Amounts : FormOpen(c, t, amount)
    BY <1>0, <2>1 DEF FormOpen, Enter
  <2>2. CASE \E k \in Customer : FormPut(c, k)
    BY <1>0, <2>2, FrameMoves DEF FormPut, At
  <2>3. QED
    BY <1>2, <1>3, <2>1, <2>2 DEF FormStep
<1>4. CASE ServiceStep
  <2>1. CASE StartStep(Proc)
    BY <1>0, <1>1, <2>1 DEF Caller
  <2>2. CASE \E d \in Forms : FormStep(d)
    BY <1>1, <1>3, <2>2 DEF Caller
  <2>3. CASE UNCHANGED call
    BY <2>3
  <2>4. QED
    BY <1>4, <2>1, <2>2, <2>3 DEF ServiceStep, CustomerChanges, PlatformStep
<1>5. CASE ProcessorStep
  <2>1. CASE Take \/ Started
    BY <1>0, <2>1, FrameMoves DEF Take, Started, Caller
  <2>2. CASE UNCHANGED call
    BY <2>2
  <2>3. QED
    BY <1>5, <2>1, <2>2
       DEF ProcessorStep, List, NextList, Load, CheckFunds, PayRejected, Query, GetAnswer,
           NotifyHold, NotifyError, NotifySent, Alert, Pay, Save, NotifyPending,
           CallFails, serviceVars
<1>6. CASE Crash
  BY <1>0, <1>6 DEF Crash, Restart, Idle
<1>7. QED
  BY <1>4, <1>5, <1>6 DEF Next, CoreUpdates, LedgerCloses, vars, serviceVars

\* The processor's frame moves by its own steps of Start, and when it enters
\* and leaves Start.
LEMMA ProcFrame ==
  ASSUME Inv, [Next]_vars
  PROVE  \/ call'[Proc] = call[Proc]
         \/ StartStep(Proc) /\ UNCHANGED <<outside, volatile>>
         \/ Take \/ Started \/ Crash
<1> USE DEF Inv, TypeOK, ServiceTypeOK
<1>0. Proc \in Caller /\ call \in [Caller -> Frame]
  BY DEF Caller
<1>1. ASSUME NEW d \in Forms, FormStep(d)
      PROVE  call'[Proc] = call[Proc]
  <2>1. d \in Caller /\ d # Proc
    BY ServiceAssumption DEF Caller
  <2>2. QED
    BY <1>0, <1>1, <2>1, FrameMoves
       DEF StartStep, StartGet, StartCreate, StartInsert, StartReget, StartRequest,
           StartUpdate, FormStep, FormOpen, FormPut
<1>2. CASE ServiceStep
  BY <1>1, <1>2 DEF ServiceStep, CustomerChanges, PlatformStep
<1>3. CASE ProcessorStep
  BY <1>3
     DEF ProcessorStep, List, NextList, Load, CheckFunds, PayRejected, Query, GetAnswer,
         NotifyHold, NotifyError, NotifySent, Alert, Pay, Save, NotifyPending,
         CallFails, serviceVars
<1>4. QED
  BY <1>2, <1>3 DEF Next, CoreUpdates, LedgerCloses, vars, serviceVars

\* Nobody else asks SAP for the payment of a withdrawal of the processor's:
\* forms have others, and the processor one at a time.
LEMMA OnlyAsker ==
  ASSUME FormInv, ProcInv, NEW c \in Caller, StartRequest(c), call[c].tx \in Sep6
  PROVE  c = Proc /\ step = "start" /\ call[c].tx = cur
<1>1. call[c].pc = "request"
  BY DEF StartRequest, At
<1>2. c \notin Forms
  BY <1>1 DEF FormInv
<1>3. c = Proc
  BY <1>2 DEF Caller
<1>4. QED
  BY <1>1, <1>3 DEF ProcInv

\* What SAP has of a withdrawal that is incomplete changes only by its
\* starter's request.
LEMMA IncompleteKept ==
  ASSUME Inv, FormInv, ProcInv, [Next]_vars, step = "start" \/ UNCHANGED step,
         NEW t \in Sep6, sap[t].status = "incomplete"
  PROVE  sap'[t] = sap[t] \/ StartRequest(Proc)
<1>1. t \in Tx
  BY PlatformAssumption
<1>2. CASE UNCHANGED sap
  BY <1>2
<1>3. CASE SapCalls
  <2>1. PICK u \in Tx :
            /\ \A v \in Tx \ {u} : sap'[v] = sap[v]
            /\ \/ \E c \in Caller : StartRequest(c) /\ call[c].tx = u
               \/ MoveEffect(u)
    BY <1>3, SapEffects
  <2>2. CASE u # t
    BY <1>1, <2>1, <2>2
  <2>3. CASE u = t /\ \E c \in Caller : StartRequest(c) /\ call[c].tx = u
    BY <2>3, OnlyAsker
  <2>4. ~MoveEffect(t)
    BY DEF MoveEffect
  <2>5. QED
    BY <2>1, <2>2, <2>3, <2>4
<1>4. QED
  BY <1>2, <1>3, SapMoves

\* The processor's place in Start.
LEMMA ProcInvStep ==
  ASSUME Inv, WalkInv, [Next]_vars
  PROVE  ProcInv'
<1> USE DEF Inv, WalkInv
<1>0. Proc \in Caller /\ call \in [Caller -> Frame] /\ call[Proc] \in Frame /\ cur \in Tx
  BY DEF Caller, TypeOK, ServiceTypeOK
<1>1. CASE call'[Proc] = call[Proc] /\ UNCHANGED <<step, phase, cur>>
  <2>1. step = "start" /\ sap[cur].status = "incomplete" /\ ~StartRequest(Proc) =>
           sap'[cur].status = "incomplete"
    BY IncompleteKept DEF ProcInv
  <2>2. ~StartRequest(Proc)
    BY <1>0, <1>1, FrameMoves DEF StartRequest, At
  <2>3. QED
    BY <1>1, <2>1, <2>2 DEF ProcInv
<1>2. CASE StartStep(Proc) /\ UNCHANGED <<outside, volatile>>
  <2>1. step = "start" /\ call[Proc].tx = cur
    BY <1>2
       DEF ProcInv, StartStep, StartGet, StartCreate, StartInsert, StartReget,
           StartRequest, StartUpdate, At
  <2>2. UNCHANGED <<step, phase, cur>>
    BY <1>2 DEF volatile
  <2>3. CASE StartRequest(Proc)
    <3>1. /\ call'[Proc].pc \in {"update", "idle"}
          /\ call'[Proc].pc = "idle" => call'[Proc].res = "err"
          /\ call'[Proc].pc # "idle" => call'[Proc].tx = cur
      BY <1>0, <2>1, <2>3, FrameMoves DEF StartRequest, Return, Idle
    <3>2. QED
      BY <2>1, <2>2, <3>1 DEF ProcInv, Starting
  <2>4. CASE StartUpdate(Proc)
    <3>1. call'[Proc].pc = "idle" /\ call'[Proc].res # "user"
      BY <1>0, <2>4 DEF StartUpdate, Return, Idle
    <3>2. QED
      BY <2>1, <2>2, <3>1 DEF ProcInv, Starting
  <2>5. CASE StartGet(Proc) \/ StartCreate(Proc) \/ StartInsert(Proc) \/ StartReget(Proc)
    <3>1. call[Proc].pc \in Starting /\ UNCHANGED sap
      BY <2>5 DEF StartGet, StartCreate, StartInsert, StartReget, At, Starting
    <3>2. /\ call'[Proc].pc \in Starting \cup {"idle"}
          /\ call'[Proc].pc # "idle" => call'[Proc].tx = cur
      BY <1>0, <2>1, <2>5, FrameMoves
         DEF StartGet, StartCreate, StartInsert, StartReget, Starting
    <3>3. QED
      BY <2>1, <2>2, <3>1, <3>2 DEF ProcInv
  <2>6. QED
    BY <1>2, <2>3, <2>4, <2>5 DEF StartStep
<1>3. CASE Take
  <2>1. PICK t \in queue :
           /\ cur' = t
           /\ \/ /\ phase = "start6" /\ step' = "start"
                 /\ Enter(Proc, "get", t, Expected[t])
              \/ step' \in {"notifyError", "load"} /\ UNCHANGED call
           /\ UNCHANGED <<phase, sap>>
    BY <1>3 DEF Take
  <2>2. CASE step' = "start"
    <3>1. /\ phase = "start6" /\ t \in Sep6 /\ sap[t].status = "incomplete"
      BY <2>1, <2>2 DEF QueueInv, HandledInv, ListedStatus
    <3>2. call'[Proc].pc = "get" /\ call'[Proc].tx = t
      BY <1>0, <2>1, <2>2 DEF Enter
    <3>3. QED
      BY <2>1, <2>2, <3>1, <3>2 DEF ProcInv, Starting
  <2>3. CASE step' # "start" /\ UNCHANGED call
    BY <1>3, <2>3 DEF Take, ProcInv
  <2>4. QED
    BY <2>1, <2>2, <2>3
<1>4. CASE Started
  BY <1>0, <1>4 DEF Started, Return, Idle, Proceed, Done, ProcInv
<1>5. CASE Crash
  BY <1>0, <1>5 DEF Crash, Restart, Idle, ProcInv
<1>6. CASE UNCHANGED call /\ step # "start" /\ step' # "start"
  BY <1>6 DEF ProcInv
<1>7. CASE ProcessorStep
  BY <1>3, <1>4, <1>6, <1>7
     DEF ProcessorStep, List, NextList, Load, CheckFunds, PayRejected, Query, GetAnswer,
         NotifyHold, NotifyError, NotifySent, Alert, Pay, PayAnswer, Save, AfterPaid,
         AfterChecked, NotifyPending, CallFails, Done, Hold, Fail, Proceed, serviceVars
<1>8. CASE ~ProcessorStep /\ ~Crash
  <2>1. UNCHANGED <<step, phase, cur>>
    BY <1>8 DEF Next, ServiceStep, CoreUpdates, LedgerCloses, volatile, vars
  <2>2. QED
    BY <1>1, <1>2, <1>8, <2>1, ProcFrame DEF ProcessorStep
<1>9. QED
  BY <1>5, <1>7, <1>8

\* Which handler goes on to which step.
LEMMA PhaseInvStep ==
  ASSUME Inv, WalkInv, [Next]_vars
  PROVE  PhaseInv'
<1> USE DEF Inv, WalkInv
<1>1. CASE UNCHANGED <<phase, step, cur>>
  BY <1>1 DEF PhaseInv, Checking
<1>2. CASE step' \in {"list", "next"}
  BY <1>2 DEF PhaseInv
<1>3. CASE Take
  <2>1. phase' = phase /\ cur' \in queue
    BY <1>3 DEF Take
  <2>2. \/ phase = "start6" /\ step' \in {"start", "notifyError"}
        \/ phase # "start6" /\ step' = "load"
    BY <1>3 DEF Take
  <2>3. QED
    BY <2>1, <2>2 DEF PhaseInv, QueueInv
<1>4. CASE Started
  BY <1>2, <1>4 DEF Started, Proceed, Done, PhaseInv, ProcInv, Checking
<1>5. CASE Load
  BY <1>2, <1>5 DEF Load, Hold, Proceed, Done, PhaseInv, Checking
<1>6. CASE ProcessorStep
  <2>1. CASE /\ UNCHANGED <<phase, cur>> /\ phase # "start6"
             /\ step' \notin {"funds", "query"}
             /\ step' \in {"pay", "savePaid", "notifyPending"} => step \in {"funds", "pay", "savePaid"}
             /\ step' = "saveChecked" => step = "query"
    BY <2>1 DEF PhaseInv, Checking
  <2>2. QED
    BY <1>2, <1>3, <1>4, <1>5, <1>6, <2>1
       DEF ProcessorStep, List, NextList, CheckFunds, PayRejected, Query, GetAnswer,
           NotifyHold, NotifyError, NotifySent, Alert, Pay, PayAnswer, Save, AfterPaid,
           AfterChecked, NotifyPending, CallFails, Done, Hold, Fail, Proceed, PhaseInv
<1>7. QED
  BY <1>1, <1>2, <1>6 DEF Next, ServiceStep, CoreUpdates, LedgerCloses, Crash, volatile, vars

\* A withdrawal on one of the processor's lists, or in its hands, is moved by
\* nobody else.
LEMMA OwnMoves ==
  ASSUME Inv, WalkInv, [Next]_vars, NEW t \in Tx, sap'[t].status # sap[t].status,
         \/ sap[t].status \in {"pending_anchor", "pending_external"}
         \/ sap[t].status = "incomplete" /\ t \in Sep6
  PROVE  t = cur /\ step \notin {"list", "next"} /\ (step = "start" \/ step' # step)
<1>1. SapCalls
  BY SapMoves
<1>2. PICK u \in Tx :
          /\ \A v \in Tx \ {u} : sap'[v] = sap[v]
          /\ \/ \E c \in Caller : /\ StartRequest(c) /\ call[c].tx = u
                                  /\ sap[u].status = "incomplete"
             \/ MoveEffect(u)
  BY <1>1, SapEffects DEF AskEffect
<1>3. u = t
  BY <1>2
<1>4. CASE \E c \in Caller : StartRequest(c) /\ call[c].tx = t /\ sap[t].status = "incomplete"
  BY <1>4, OnlyAsker DEF WalkInv
<1>5. CASE MoveEffect(t)
  BY <1>5 DEF MoveEffect
<1>6. QED
  BY <1>2, <1>3, <1>4, <1>5

\* How the list and the withdrawal in hand change.
LEMMA HandSteps ==
  ASSUME Inv, WalkInv, [Next]_vars
  PROVE  /\ \/ queue' = {}
            \/ phase' = phase /\ queue' \subseteq queue
            \/ phase' = phase /\ queue' \subseteq Listed /\ UNCHANGED sap
         /\ step' = "list" => queue' = {}
         /\ step' \notin {"list", "next"} => cur' \notin queue'
         /\ step' \notin {"list", "next", "start"} =>
               \/ /\ UNCHANGED <<phase, cur>> /\ step \notin {"list", "next", "start"}
                  /\ step' = "notifySent" <=> step = "notifySent"
                  /\ UNCHANGED sap \/ step' = step
               \/ /\ phase' = phase /\ UNCHANGED sap /\ cur' \in queue
                  /\ step' # "notifySent"
               \/ /\ UNCHANGED <<phase, cur, sap>> /\ step = "start" /\ phase = "start6"
                  /\ step' # "notifySent" /\ sap[cur].status = "incomplete"
               \/ /\ UNCHANGED <<phase, cur, sap>> /\ step = "saveChecked"
                  /\ step' = "notifySent"
               \/ /\ UNCHANGED <<phase, cur>> /\ step' = "notifySent"
                  /\ sap'[cur].status = "pending_external"
<1> DEFINE Walk ==
      /\ \/ queue' = {}
         \/ phase' = phase /\ queue' \subseteq queue
         \/ phase' = phase /\ queue' \subseteq Listed /\ UNCHANGED sap
      /\ step' = "list" => queue' = {}
      /\ step' \notin {"list", "next"} => cur' \notin queue'
    Hand ==
      step' \notin {"list", "next", "start"} =>
         \/ /\ UNCHANGED <<phase, cur>> /\ step \notin {"list", "next", "start"}
            /\ step' = "notifySent" <=> step = "notifySent"
            /\ UNCHANGED sap \/ step' = step
         \/ /\ phase' = phase /\ UNCHANGED sap /\ cur' \in queue
            /\ step' # "notifySent"
         \/ /\ UNCHANGED <<phase, cur, sap>> /\ step = "start" /\ phase = "start6"
            /\ step' # "notifySent" /\ sap[cur].status = "incomplete"
         \/ /\ UNCHANGED <<phase, cur, sap>> /\ step = "saveChecked"
            /\ step' = "notifySent"
         \/ /\ UNCHANGED <<phase, cur>> /\ step' = "notifySent"
            /\ sap'[cur].status = "pending_external"
<1> USE DEF WalkInv
<1>1. CASE UNCHANGED volatile
  BY <1>1 DEF volatile, HandledInv
<1>2. CASE Crash
  BY <1>2 DEF Crash
<1>3. CASE List
  BY <1>3 DEF List, Oldest, serviceVars
<1>4. CASE Take
  BY <1>4 DEF Take
<1>5. CASE NextList
  BY <1>5 DEF NextList
<1>6. CASE Started
  BY <1>6 DEF Started, Proceed, Done, ProcInv, HandledInv, At
<1>7. CASE \E answered \in BOOLEAN : Save(answered)
  BY <1>7 DEF Save, AfterPaid, AfterChecked, Hold, Fail, Proceed, Done, HandledInv
<1>8. CASE \E answered \in BOOLEAN : NotifyPending(answered)
  <2>1. sap \in [Tx -> SapTx] /\ cur \in Tx
    BY DEF Inv, TypeOK, ServiceTypeOK, PlatformTypeOK
  <2>2. sap'[cur].status = "pending_external"
    BY <1>8, <2>1 DEF NotifyPending, NotifyOffchainFundsPending, Set, SapTx
  <2>3. QED
    BY <1>8, <2>2 DEF NotifyPending, Proceed, Done, HandledInv
<1>9. CASE NotifyHold \/ NotifyError \/ NotifySent \/ CallFails
  BY <1>9 DEF NotifyHold, NotifyError, NotifySent, CallFails, Done
<1>10. CASE Load \/ CheckFunds \/ PayRejected \/ Query
            \/ (\E kind \in {"hold", "fail"} : Alert(kind))
            \/ (\E answered \in BOOLEAN : Pay(answered))
  <2>1. UNCHANGED sap /\ step \notin {"list", "next", "start"}
    BY <1>10 DEF Load, CheckFunds, PayRejected, Query, GetAnswer, Alert, Pay, serviceVars
  <2>2. \/ step' = "next" /\ UNCHANGED <<phase, queue>>
        \/ UNCHANGED <<phase, queue, cur>> /\ step # "notifySent"
           /\ step' \notin {"list", "next", "start", "notifySent"}
    BY <1>10 DEF Load, CheckFunds, PayRejected, Query, GetAnswer, Alert, Pay, PayAnswer, Hold, Fail,
                 Proceed, Done
  <2>3. QED
    BY <2>1, <2>2 DEF HandledInv
<1>11. CASE ProcessorStep
  BY <1>3, <1>4, <1>5, <1>6, <1>7, <1>8, <1>9, <1>10, <1>11 DEF ProcessorStep
<1>12. CASE ~ProcessorStep /\ ~Crash
  <2>1. UNCHANGED <<phase, queue, step, cur, doc, unclear>>
    BY <1>12, ZenonT(30)
       DEF Next, ServiceStep, CoreUpdates, LedgerCloses, vars, volatile
  <2>2. QED
    BY <1>1, <2>1 DEF volatile
<1>13. QED
  BY <1>2, <1>11, <1>12

\* The status of the withdrawals the processor works from is the listed one.
LEMMA HandledInvStep ==
  ASSUME Inv, WalkInv, [Next]_vars
  PROVE  HandledInv'
<1> USE DEF Inv, WalkInv
<1>0. queue \subseteq Tx /\ cur \in Tx /\ phase \in Phase /\ Sep6 \subseteq Tx
  BY PlatformAssumption DEF TypeOK
<1>1. ASSUME NEW t \in queue' PROVE  sap'[t].status = ListedStatus'
  <2>1. CASE phase' = phase /\ queue' \subseteq queue
    <3>1. t \in Tx /\ sap[t].status = ListedStatus /\ ListedStatus' = ListedStatus
      BY <1>0, <1>1, <2>1 DEF HandledInv, ListedStatus
    <3>2. ~(t = cur /\ step \notin {"list", "next"})
      BY <1>1, <2>1 DEF HandledInv
    <3>3. \/ sap[t].status \in {"pending_anchor", "pending_external"}
          \/ sap[t].status = "incomplete" /\ t \in Sep6
      BY <1>1, <2>1, <3>1 DEF ListedStatus, QueueInv
    <3>4. sap'[t].status = sap[t].status
      BY <3>1, <3>2, <3>3, OwnMoves
    <3>5. QED
      BY <3>1, <3>4
  <2>2. CASE phase' = phase /\ queue' \subseteq Listed /\ UNCHANGED sap
    BY <1>0, <1>1, <2>2 DEF Listed, Transactions, ListedStatus, Phase
  <2>3. QED
    BY <1>1, <2>1, <2>2, HandSteps
<1>2. (step' = "list" => queue' = {}) /\ (step' \notin {"list", "next"} => cur' \notin queue')
  BY HandSteps
<1>3. ASSUME step' \notin {"list", "next", "start"}
      PROVE  sap'[cur'].status = DueStatus'
  <2>1. CASE /\ UNCHANGED <<phase, cur>> /\ step \notin {"list", "next", "start"}
             /\ step' = "notifySent" <=> step = "notifySent"
             /\ UNCHANGED sap \/ step' = step
    <3>1. sap[cur].status = DueStatus /\ DueStatus' = DueStatus
      BY <2>1 DEF HandledInv, DueStatus, ListedStatus
    <3>2. \/ sap[cur].status \in {"pending_anchor", "pending_external"}
          \/ sap[cur].status = "incomplete" /\ cur \in Sep6
      BY <2>1, <3>1 DEF DueStatus, ListedStatus, PhaseInv
    <3>3. sap'[cur].status = sap[cur].status
      BY <1>0, <2>1, <3>2, OwnMoves
    <3>4. QED
      BY <2>1, <3>1, <3>3
  <2>2. CASE phase' = phase /\ UNCHANGED sap /\ cur' \in queue /\ step' # "notifySent"
    BY <2>2 DEF HandledInv, DueStatus, ListedStatus
  <2>3. CASE /\ UNCHANGED <<phase, cur, sap>> /\ step = "start" /\ phase = "start6"
             /\ step' # "notifySent" /\ sap[cur].status = "incomplete"
    BY <2>3 DEF DueStatus, ListedStatus
  <2>4. CASE /\ UNCHANGED <<phase, cur, sap>> /\ step = "saveChecked"
             /\ step' = "notifySent"
    BY <2>4 DEF HandledInv, DueStatus, ListedStatus, PhaseInv, Checking
  <2>5. CASE /\ UNCHANGED <<phase, cur>> /\ step' = "notifySent"
             /\ sap'[cur].status = "pending_external"
    BY <2>5 DEF DueStatus
  <2>6. QED
    BY <1>3, <2>1, <2>2, <2>3, <2>4, <2>5, HandSteps
<1>4. QED
  BY <1>1, <1>2, <1>3 DEF HandledInv
-----------------------------------------------------------------------------
(* The money: what SAP shows, what is recorded, what core paid.            *)

\* Core's payouts: a new one is the processor's, an open one may change in all
\* but its amount and bank account, and a decided one stays.
LEMMA CoreMoves ==
  ASSUME Inv, [Next]_vars, NEW t \in Tx
  PROVE  \/ core'[t] = core[t]
         \/ /\ core[t] = NoPayout /\ t = cur /\ step = "pay" /\ core'[t] \in Payout
            /\ UNCHANGED <<sap, store, alerts>>
            /\ \A u \in Tx \ {t} : core'[u] = core[u]
         \/ /\ core[t] \in Payout /\ core[t].status \notin {"completed", "failed"}
            /\ core'[t] \in Payout
            /\ core'[t].amount = core[t].amount /\ core'[t].bank = core[t].bank
            /\ UNCHANGED <<sap, store, alerts, volatile>>
            /\ \A u \in Tx \ {t} : core'[u] = core[u]
<1> USE DEF Inv, TypeOK
<1>1. ASSUME NEW answered \in BOOLEAN, Pay(answered), core'[t] # core[t]
      PROVE  /\ core[t] = NoPayout /\ t = cur /\ step = "pay" /\ core'[t] \in Payout
             /\ UNCHANGED <<sap, store, alerts>>
             /\ \A u \in Tx \ {t} : core'[u] = core[u]
  <2>1. doc \in Doc
    BY <1>1 DEF Pay, HandInv, InHand
  <2>2. NewPayout(cur, PayRequest(cur, doc)) /\ core[cur] = NoPayout
    BY <1>1 DEF Pay, NewPayout
  <2>3. QED
    BY <1>1, <2>1, <2>2, NewPayoutType DEF Pay, serviceVars
<1>2. ASSUME NEW u \in Tx, CoreUpdates(u), core'[t] # core[t]
      PROVE  /\ core[t] \in Payout /\ core[t].status \notin {"completed", "failed"}
             /\ core'[t] \in Payout
             /\ core'[t].amount = core[t].amount /\ core'[t].bank = core[t].bank
             /\ UNCHANGED <<sap, store, alerts, volatile>>
             /\ \A v \in Tx \ {t} : core'[v] = core[v]
  <2>1. PICK s \in PayoutStatus, r \in Ref, e \in BOOLEAN :
           core' = [core EXCEPT ![u] =
                       [core[u] EXCEPT !.status = s, !.ref = r, !.error = e]]
    BY <1>2, Zenon DEF CoreUpdates
  <2>2. u = t /\ core[t] \in Payout
    BY <1>2, <2>1 DEF CoreUpdates
  <2>3. core'[t] = [core[t] EXCEPT !.status = s, !.ref = r, !.error = e]
    BY <2>1, <2>2
  <2>4. /\ core'[t] \in Payout
        /\ core'[t].amount = core[t].amount /\ core'[t].bank = core[t].bank
    BY <2>1, <2>2, <2>3 DEF Payout
  <2>5. QED
    BY <1>2, <2>1, <2>2, <2>4 DEF CoreUpdates, serviceVars
<1>3. CASE ProcessorStep
  BY <1>1, <1>3
     DEF ProcessorStep, List, Take, NextList, Started, Load, CheckFunds, PayRejected,
         Query, GetAnswer, NotifyHold, NotifyError, NotifySent, Alert, Save, NotifyPending,
         CallFails, outside
<1>4. QED
  BY <1>2, <1>3 DEF Next, ServiceStep, LedgerCloses, Crash, outside, vars

\* What SAP shows is what is recorded, from the request on.
LEMMA AskedInvStep ==
  ASSUME Inv, AskedInv, [Next]_vars
  PROVE  AskedInv'
<1> DEFINE Asked(s, w) ==
      /\ s.byHand => s.status \in {"completed", "refunded"}
      /\ s.status = "incomplete" => s.memo = NoMemo
      /\ s.memo = NoMemo => s.askedIn = 0
      /\ s.memo # NoMemo => w \in Doc /\ s.askedIn = w.amountIn /\ s.askedOut = w.amountOut
      /\ s.status \notin {"incomplete", "error"} => s.memo # NoMemo
<1> SUFFICES ASSUME NEW t \in Tx PROVE Asked(sap'[t], store'[t])
  BY DEF AskedInv
<1>0. Asked(sap[t], store[t])
  BY DEF AskedInv
<1>1. CASE sap'[t] = sap[t]
  BY <1>0, <1>1, QuotesKept DEF Quoted
<1>2. CASE sap'[t] # sap[t]
  <2>1. SapCalls /\ UNCHANGED store
    BY <1>2, SapMoves
  <2>2. PICK u \in Tx :
            /\ \A v \in Tx \ {u} : sap'[v] = sap[v]
            /\ \/ \E c \in Caller :
                     /\ StartRequest(c) /\ call[c].tx = u
                     /\ AskEffect(u, call[c].w.amountIn, call[c].w.amountOut)
               \/ MoveEffect(u) /\ Promised(u)' = Promised(u)
    BY <2>1, SapEffects
  <2>3. u = t
    BY <1>2, <2>2
  <2>4. ASSUME NEW c \in Caller, StartRequest(c), call[c].tx = t,
               AskEffect(t, call[c].w.amountIn, call[c].w.amountOut)
        PROVE  Asked(sap'[t], store'[t])
    <3>1. /\ store[t] \in Doc /\ call[c].w.amountIn = store[t].amountIn
          /\ call[c].w.amountOut = store[t].amountOut
      BY <2>4 DEF StartRequest, At, Inv, CallInv, Held, Quoted
    <3>2. t # NoMemo
      BY PlatformAssumption
    <3>3. QED
      BY <1>0, <2>1, <2>4, <3>1, <3>2 DEF AskEffect
  <2>5. CASE MoveEffect(t) /\ Promised(t)' = Promised(t)
    BY <1>0, <2>1, <2>5 DEF MoveEffect, Promised, Open
  <2>6. QED
    BY <2>2, <2>3, <2>4, <2>5
<1>3. QED
  BY <1>1, <1>2

\* What the record says once core's answer is written into it.
LEMMA AnswerFields ==
  ASSUME NEW d \in Doc, NEW p \in Payout, NEW e,
         e = [d EXCEPT !.payoutRef = p.ref, !.payoutStatus = p.status]
  PROVE  e.payoutRef = p.ref /\ e.payoutStatus = p.status /\ e.amountOut = d.amountOut
  BY Zenon DEF Doc

\* Core's answer in the processor's memory stays true.
LEMMA AnswerInvStep ==
  ASSUME Inv, WalkInv, AnswerInv, [Next]_vars
  PROVE  AnswerInv'
<1> DEFINE Remembers(s, d, p) ==
      /\ s \in Answering =>
            /\ p # NoPayout
            /\ d.payoutStatus = "completed" => p.status = "completed" /\ p.ref = d.payoutRef
            /\ d.payoutStatus = "failed" => p.status = "failed"
      /\ s \in {"savePaid", "notifyPending"} => p.amount = d.amountOut
      /\ s = "notifySent" => d.payoutStatus = "completed"
<1> SUFFICES Remembers(step', doc', core'[cur'])
  BY DEF AnswerInv, Answering
<1>0. Remembers(step, doc, core[cur]) /\ cur \in Tx /\ core \in [Tx -> Payout \cup {NoPayout}]
  BY DEF AnswerInv, Answering, Inv, TypeOK
<1>1. CASE step' \notin Answering
  BY <1>1 DEF Answering
<1>2. CASE UNCHANGED volatile
  <2>1. UNCHANGED <<step, doc, cur>>
    BY <1>2 DEF volatile
  <2>2. \/ core'[cur] = core[cur]
        \/ step = "pay"
        \/ /\ core[cur].status \notin {"completed", "failed"}
           /\ core'[cur].amount = core[cur].amount /\ core'[cur] # NoPayout
    BY <1>0, CoreMoves, ProcessorAssumption
  <2>3. QED
    BY <1>0, <2>1, <2>2 DEF Answering
<1>3. CASE \E answered \in BOOLEAN : Pay(answered)
  <2>1. PICK answered \in BOOLEAN : Pay(answered)
    BY <1>3
  <2>2. core'[cur] # NoPayout
    <3>1. doc \in Doc
      BY <2>1 DEF Pay, Inv, HandInv, InHand
    <3>2. QED
      BY <1>0, <2>1, <3>1, NewPayoutType DEF Pay
  <2>3. CASE step' = "savePaid"
    <3>1. /\ core'[cur].amount = doc.amountOut /\ cur' = cur
          /\ doc' = [doc EXCEPT !.payoutRef = core'[cur].ref,
                                !.payoutStatus = core'[cur].status]
      BY <2>1, <2>3 DEF Pay, PayAnswer, Hold, Proceed, Done
    <3>2. doc \in Doc /\ core'[cur] \in Payout
      BY <2>1, <2>2, NextTypes DEF Pay, Inv, HandInv, InHand, TypeOK
    <3>3. /\ doc'.payoutRef = core'[cur].ref /\ doc'.payoutStatus = core'[cur].status
          /\ doc'.amountOut = doc.amountOut
      BY <3>1, <3>2, AnswerFields, Zenon
    <3>4. QED
      BY <2>2, <2>3, <3>1, <3>3 DEF Answering
  <2>4. step' \in Answering => step' = "savePaid"
    BY <2>1 DEF Pay, PayAnswer, Hold, Proceed, Done, Answering
  <2>5. QED
    BY <1>1, <2>3, <2>4
<1>4. CASE Query
  <2>1. CASE step' = "saveChecked"
    <3>1. /\ core[cur] # NoPayout /\ cur' = cur /\ core' = core
          /\ doc' = [doc EXCEPT !.payoutRef = core[cur].ref,
                                !.payoutStatus = core[cur].status]
      BY <1>4, <2>1 DEF Query, GetAnswer, Hold, Proceed, outside
    <3>2. doc \in Doc /\ core[cur] \in Payout
      BY <1>0, <1>4, <3>1 DEF Query, GetAnswer, Inv, HandInv, InHand
    <3>3. doc'.payoutRef = core[cur].ref /\ doc'.payoutStatus = core[cur].status
      BY <3>1, <3>2, AnswerFields, Zenon
    <3>4. QED
      BY <2>1, <3>1, <3>3 DEF Answering
  <2>2. step' \in Answering => step' = "saveChecked"
    BY <1>4 DEF Query, GetAnswer, Hold, Proceed, Answering
  <2>3. QED
    BY <1>1, <2>1, <2>2
<1>5. CASE \/ \E answered \in BOOLEAN : Save(answered)
           \/ \E answered \in BOOLEAN : NotifyPending(answered)
  <2>1. UNCHANGED core
    BY <1>5 DEF Save, NotifyPending, outside
  <2>2. CASE step' \in Answering
    <3>1. UNCHANGED <<doc, cur>>
      BY <1>5, <2>2
         DEF Save, AfterPaid, AfterChecked, NotifyPending, Hold, Fail, Proceed, Done, Answering
    <3>2. /\ step' \in {"notifyPending", "notifySent"} /\ step \in Answering
          /\ step' = "notifyPending" => step = "savePaid"
          /\ step' = "notifySent" => doc.payoutStatus = "completed"
      BY <1>5, <2>2
         DEF Save, AfterPaid, AfterChecked, NotifyPending, Hold, Fail, Proceed, Done, Answering
    <3>3. QED
      BY <1>0, <2>1, <3>1, <3>2 DEF Answering
  <2>3. QED
    BY <1>1, <2>2
<1>6. CASE ProcessorStep
  <2>1. \/ \E answered \in BOOLEAN : Pay(answered)
        \/ Query
        \/ \E answered \in BOOLEAN : Save(answered)
        \/ \E answered \in BOOLEAN : NotifyPending(answered)
        \/ step' \notin Answering
    BY <1>6
       DEF ProcessorStep, List, Take, NextList, Started, Load, CheckFunds, PayRejected,
           NotifyHold, NotifyError, NotifySent, Alert, CallFails, Done, Hold, Fail, Proceed,
           Answering
  <2>2. QED
    BY <1>1, <1>3, <1>4, <1>5, <2>1
<1>7. CASE Crash
  BY <1>1, <1>7 DEF Crash, Answering
<1>8. CASE ~ProcessorStep /\ ~Crash
  BY <1>2, <1>8, ZenonT(30) DEF Next, ServiceStep, CoreUpdates, LedgerCloses, vars, volatile
<1>9. QED
  BY <1>6, <1>7, <1>8

\* A withdrawal that is failed next, or for which that is said, has no naira
\* out.
LEMMA UnpaidStep ==
  ASSUME Inv, WalkInv, AnswerInv, PayoutInv, [Next]_vars,
         step' \in {"saveFail", "alertFail", "notifyError"}
  PROVE  Unpaid(cur)'
<1> DEFINE Failing == {"saveFail", "alertFail", "notifyError"}
<1>0. cur \in Tx /\ queue \subseteq Tx
  BY DEF Inv, TypeOK
<1>1. ASSUME NEW t \in Tx, Unpaid(t), UNCHANGED core \/ step # "pay", cur' = t
      PROVE  Unpaid(cur)'
  BY <1>1, CoreMoves, ProcessorAssumption DEF Unpaid
<1>2. ASSUME NEW t \in Tx, sap[t].status = "incomplete"
      PROVE  Unpaid(t)
  BY <1>2 DEF Unpaid, Inv, PastInv, Past
<1>3. CASE UNCHANGED volatile
  BY <1>0, <1>1, <1>3 DEF volatile, PayoutInv
<1>4. CASE Take
  <2>1. PICK t \in queue : cur' = t /\ step = "next" /\ phase = "start6"
    BY <1>4 DEF Take
  <2>2. sap[t].status = "incomplete"
    BY <2>1 DEF WalkInv, HandledInv, ListedStatus
  <2>3. QED
    BY <1>0, <1>1, <1>2, <2>1, <2>2
<1>5. CASE Started
  <2>1. cur' = cur /\ step = "start" /\ sap[cur].status = "incomplete"
    BY <1>5 DEF Started, At, Proceed, Done, WalkInv, ProcInv
  <2>2. QED
    BY <1>0, <1>1, <1>2, <2>1
<1>6. CASE PayRejected
  BY <1>0, <1>1, <1>6 DEF PayRejected, Fail, Proceed, outside, Unpaid
<1>7. CASE \E answered \in BOOLEAN : Save(answered)
  <2>1. /\ cur' = cur /\ UNCHANGED core
        /\ \/ step = "saveFail"
           \/ step \in Answering /\ doc.payoutStatus = "failed"
    BY <1>7 DEF Save, AfterPaid, AfterChecked, Hold, Fail, Proceed, Done, outside, Answering
  <2>2. Unpaid(cur)
    BY <2>1 DEF AnswerInv, PayoutInv, Unpaid
  <2>3. QED
    BY <1>0, <1>1, <2>1, <2>2
<1>8. CASE \E kind \in {"hold", "fail"} : Alert(kind)
  <2>1. cur' = cur /\ UNCHANGED core /\ step = "alertFail"
    BY <1>8 DEF Alert, Proceed
  <2>2. QED
    BY <1>0, <1>1, <2>1 DEF PayoutInv
<1>9. CASE ProcessorStep
  <2>1. Take \/ Started \/ PayRejected \/ (\E answered \in BOOLEAN : Save(answered))
        \/ (\E kind \in {"hold", "fail"} : Alert(kind))
    BY <1>9
       DEF ProcessorStep, List, NextList, Load, CheckFunds, Query, GetAnswer, NotifyHold,
           NotifyError, NotifySent, Pay, PayAnswer, NotifyPending, CallFails, Done, Hold,
           Proceed
  <2>2. QED
    BY <1>4, <1>5, <1>6, <1>7, <1>8, <2>1
<1>10. CASE ~ProcessorStep
  BY <1>3, <1>10, ZenonT(30)
     DEF Next, ServiceStep, CoreUpdates, LedgerCloses, Crash, vars, volatile
<1>11. QED
  BY <1>9, <1>10

\* What SAP says of a withdrawal is what became of its naira.
LEMMA PayoutInvStep ==
  ASSUME Inv, WalkInv, MoneyInv, [Next]_vars
  PROVE  PayoutInv'
<1> DEFINE Truth(t, s, w, p) ==
      /\ s.status = "pending_external" => p # NoPayout /\ p.amount = w.amountOut
      /\ s.status = "completed" /\ ~s.byHand =>
            /\ p # NoPayout /\ p.status = "completed"
            /\ p.amount = s.askedOut /\ p.ref = s.ext
      /\ s.status = "error" => p = NoPayout \/ p.status = "failed"
<1> USE DEF MoneyInv
<1>0. cur \in Tx /\ core \in [Tx -> Payout \cup {NoPayout}]
  BY DEF Inv, TypeOK
<1>1. ASSUME NEW t \in Tx
      PROVE  Truth(t, sap'[t], store'[t], core'[t])
  <2>0. Truth(t, sap[t], store[t], core[t])
    BY DEF PayoutInv, CompletedAsPromised, ErrorOnlyIfUnpaid
  <2>1. CASE sap'[t] = sap[t]
    <3>1. store[t] \in Doc => store'[t].amountOut = store[t].amountOut
      BY QuotesKept DEF Quoted
    <3>2. core[t] # NoPayout => store[t] \in Doc
      BY DEF Inv, FundsInv, Funded
    <3>3. t = cur /\ step = "pay" => sap[t].status = "pending_anchor"
      BY DEF WalkInv, HandledInv, PhaseInv, DueStatus, ListedStatus, Checking, Inv, TypeOK, Phase
    <3>4. CASE core'[t] = core[t]
      BY <2>0, <2>1, <3>1, <3>2, <3>4
    <3>5. CASE core'[t] # core[t]
      BY <2>0, <2>1, <3>1, <3>2, <3>3, <3>5, CoreMoves, ProcessorAssumption
    <3>6. QED
      BY <3>4, <3>5
  <2>2. CASE sap'[t] # sap[t]
    <3>1. SapCalls /\ UNCHANGED <<store, core>>
      BY <2>2, SapMoves
    <3>2. PICK u \in Tx :
              /\ \A v \in Tx \ {u} : sap'[v] = sap[v]
              /\ \/ \E c \in Caller : AskEffect(u, call[c].w.amountIn, call[c].w.amountOut)
                 \/ MoveEffect(u) /\ Promised(u)' = Promised(u)
      BY <3>1, SapEffects
    <3>3. u = t
      BY <2>2, <3>2
    <3>4. CASE \E c \in Caller : AskEffect(t, call[c].w.amountIn, call[c].w.amountOut)
      BY <3>4 DEF AskEffect
    <3>5. CASE /\ t = cur /\ step = "notifyPending" /\ sap'[t].status = "pending_external"
      <4>1. doc.amountOut = store[t].amountOut
        BY <3>5 DEF Inv, HandInv, InHand, Quoted
      <4>2. QED
        BY <3>1, <3>5, <4>1 DEF AnswerInv, Answering
    <3>6. CASE /\ t = cur /\ step = "notifySent" /\ sap'[t].status = "completed"
               /\ sap'[t].ext = doc.payoutRef /\ Promised(t)' = Promised(t)
      <4>1. sap[t].status = "pending_external"
        BY <3>6 DEF WalkInv, HandledInv, DueStatus
      <4>2. core[t] # NoPayout /\ core[t].amount = store[t].amountOut
        BY <2>0, <4>1
      <4>3. sap[t].askedOut = store[t].amountOut
        BY <4>1 DEF AskedInv
      <4>4. core[t].status = "completed" /\ core[t].ref = doc.payoutRef
        BY <3>6 DEF AnswerInv, Answering
      <4>5. QED
        BY <3>1, <3>6, <4>2, <4>3, <4>4 DEF Promised
    <3>7. CASE t = cur /\ step = "notifyError" /\ sap'[t].status = "error"
      BY <3>1, <3>7 DEF PayoutInv, Unpaid
    <3>8. CASE \/ sap'[t].status \notin {"pending_external", "completed", "error"}
               \/ sap'[t].status = "completed" /\ sap'[t].byHand
      BY <3>8
    <3>9. QED
      BY <3>2, <3>3, <3>4, <3>5, <3>6, <3>7, <3>8 DEF MoveEffect
  <2>3. QED
    BY <2>1, <2>2
<1>2. step' \in {"saveFail", "alertFail", "notifyError"} => Unpaid(cur)'
  BY UnpaidStep
<1>3. QED
  BY <1>1, <1>2 DEF PayoutInv, CompletedAsPromised, ErrorOnlyIfUnpaid
-----------------------------------------------------------------------------
(* The alerts and the offers.                                              *)

\* A hold, and a failure after the user was asked to pay, follow an alert.
LEMMA AlertInvStep ==
  ASSUME Inv, WalkInv, MoneyInv, AlertInv, [Next]_vars
  PROVE  AlertInv'
<1>0. cur \in Tx
  BY DEF Inv, TypeOK
<1>1. alerts \subseteq alerts'
  <2>1. CASE ProcessorStep
    BY <2>1
       DEF ProcessorStep, List, Take, NextList, Started, Load, CheckFunds, PayRejected,
           Query, GetAnswer, NotifyHold, NotifyError, NotifySent, Alert, Pay, Save, NotifyPending,
           CallFails, outside
  <2>2. CASE ~ProcessorStep
    BY <2>2, ZenonT(30) DEF Next, ServiceStep, CoreUpdates, LedgerCloses, Crash, vars, outside
  <2>3. QED
    BY <2>1, <2>2
<1>2. /\ step' = "notifyHold" => <<cur', "hold">> \in alerts'
      /\ step' = "notifyError" /\ phase' # "start6" => <<cur', "fail">> \in alerts'
  <2>1. CASE UNCHANGED volatile
    BY <1>1, <2>1 DEF volatile, AlertInv
  <2>2. CASE \E kind \in {"hold", "fail"} : Alert(kind)
    BY <2>2 DEF Alert, Proceed
  <2>3. CASE ProcessorStep
    <3>1. \/ step' \notin {"notifyHold", "notifyError"}
          \/ step' = "notifyError" /\ phase' = "start6"
          \/ \E kind \in {"hold", "fail"} : Alert(kind)
      BY <2>3
         DEF ProcessorStep, List, Take, NextList, Started, Load, CheckFunds, PayRejected,
             Query, GetAnswer, NotifyHold, NotifyError, NotifySent, Pay, PayAnswer, Save, AfterPaid,
             AfterChecked, NotifyPending, CallFails, Done, Hold, Fail, Proceed,
             WalkInv, ProcInv
    <3>2. QED
      BY <2>2, <3>1
  <2>4. CASE ~ProcessorStep /\ ~Crash
    BY <2>1, <2>4, ZenonT(30) DEF Next, ServiceStep, CoreUpdates, LedgerCloses, vars, volatile
  <2>5. CASE Crash
    BY <2>5 DEF Crash
  <2>6. QED
    BY <2>3, <2>4, <2>5
<1>3. ASSUME NEW t \in Tx
      PROVE  /\ sap'[t].status = "on_hold" => <<t, "hold">> \in alerts'
             /\ sap'[t].status = "error" /\ sap'[t].memo # NoMemo => <<t, "fail">> \in alerts'
  <2>1. CASE sap'[t] = sap[t]
    BY <1>1, <2>1 DEF AlertInv, NoSilentEnd
  <2>2. CASE sap'[t] # sap[t]
    <3>1. SapCalls
      BY <2>2, SapMoves
    <3>2. PICK u \in Tx :
              /\ \A v \in Tx \ {u} : sap'[v] = sap[v]
              /\ \/ \E c \in Caller : AskEffect(u, call[c].w.amountIn, call[c].w.amountOut)
                 \/ MoveEffect(u) /\ Promised(u)' = Promised(u)
      BY <3>1, SapEffects
    <3>3. u = t
      BY <2>2, <3>2
    <3>4. CASE sap'[t].status \notin {"on_hold", "error"}
      BY <3>4
    <3>5. CASE t = cur /\ step = "notifyHold" /\ sap'[t].status = "on_hold"
      BY <1>1, <3>5 DEF AlertInv
    <3>6. CASE /\ t = cur /\ step = "notifyError" /\ sap'[t].status = "error"
               /\ Promised(t)' = Promised(t)
      <4>1. phase = "start6" => sap[t].status = "incomplete"
        BY <3>6 DEF WalkInv, HandledInv, DueStatus, ListedStatus
      <4>2. phase = "start6" => sap'[t].memo = NoMemo
        BY <3>6, <4>1 DEF MoneyInv, AskedInv, Promised
      <4>3. QED
        BY <1>1, <3>6, <4>2 DEF AlertInv
    <3>7. QED
      BY <3>2, <3>3, <3>4, <3>5, <3>6 DEF AskEffect, MoveEffect
  <2>3. QED
    BY <2>1, <2>2
<1>4. QED
  BY <1>2, <1>3 DEF AlertInv, NoSilentEnd

\* A new document in the store is what a caller of Start priced.
LEMMA NewDocs ==
  ASSUME Inv, [Next]_vars, NEW t \in Tx, store[t] \notin Doc, store'[t] \in Doc
  PROVE  \E c \in Caller :
            call[c].pc = "insert" /\ call[c].tx = t /\ store'[t] = call[c].w
<1> USE DEF Inv, TypeOK, ServiceTypeOK
<1>1. ASSUME NEW c \in Caller, StartStep(c)
      PROVE  call[c].pc = "insert" /\ call[c].tx = t /\ store'[t] = call[c].w
  <2>1. CASE StartInsert(c)
    BY <2>1 DEF StartInsert, At, Write
  <2>2. CASE StartUpdate(c)
    BY <2>2 DEF StartUpdate, At, Write, CallInv, Held
  <2>3. QED
    BY <1>1, <2>1, <2>2 DEF StartStep, StartGet, StartCreate, StartReget, StartRequest
<1>2. CASE ServiceStep
  <2>1. CASE \E c \in Caller : StartStep(c)
    BY <1>1, <2>1
  <2>2. CASE UNCHANGED store
    BY <2>2
  <2>3. QED
    BY <1>2, <2>1, <2>2
       DEF ServiceStep, FormStep, FormOpen, FormPut, CustomerChanges, PlatformStep, Caller
<1>3. CASE ProcessorStep
  <2>1. CASE \E answered \in BOOLEAN : Save(answered)
    BY <2>1 DEF Save, HandInv, InHand, Write
  <2>2. CASE UNCHANGED store
    BY <2>2
  <2>3. QED
    BY <1>3, <2>1, <2>2
       DEF ProcessorStep, List, Take, NextList, Started, Load, CheckFunds, PayRejected,
           Query, GetAnswer, NotifyHold, NotifyError, NotifySent, Alert, Pay, NotifyPending,
           CallFails, serviceVars
<1>4. CASE ~ServiceStep /\ ~ProcessorStep
  BY <1>4, ZenonT(30)
     DEF Next, CoreUpdates, LedgerCloses, Crash, Restart, vars, serviceVars
<1>5. QED
  BY <1>2, <1>3, <1>4

\* A priced withdrawal is an offer of the rate table in force.
LEMMA PricedIsOffer ==
  ASSUME ServiceTypeOK, NEW t \in Tx, NEW amount \in Amounts, NEW bank \in Bank,
         Quotable(AssetOf[t], amount)
  PROVE  Quoted(NewDoc(AssetOf[t], amount, bank)) \in OffersOf(t)
<1>1. Quoted(NewDoc(AssetOf[t], amount, bank)) = <<amount, Payable(AssetOf[t], amount), bank>>
  BY DEF Quoted, NewDoc
<1>2. rate \in {x \in Rates : AssetOf[t] \in DOMAIN x}
  BY DEF Quotable, ServiceTypeOK
<1>3. amount \in {x \in Amounts :
                  x > 0 /\ AtLeast(Worth(rate, AssetOf[t], x), MinPayout, 1)}
  BY DEF Quotable
<1>4. <<amount, Payable(AssetOf[t], amount), bank>>
         \in {<<a, Format(Worth(rate, AssetOf[t], a), 1), b>> :
                 a \in {x \in Amounts :
                  x > 0 /\ AtLeast(Worth(rate, AssetOf[t], x), MinPayout, 1)},
                 b \in Bank}
  BY <1>3 DEF Payable
<1>5. QED
  BY <1>1, <1>2, <1>4 DEF OffersOf

\* What is recorded, or about to be, is one of the anchor's offers.
LEMMA OfferInvStep ==
  ASSUME Inv, OfferInv, [Next]_vars
  PROVE  OfferInv'
<1> USE DEF Inv, TypeOK, ServiceTypeOK
<1>1. ASSUME NEW t \in Tx, store'[t] \in Doc
      PROVE  Quoted(store'[t]) \in OffersOf(t)
  <2>1. CASE store[t] \in Doc
    BY <2>1, QuotesKept DEF OfferInv
  <2>2. CASE store[t] \notin Doc
    BY <1>1, <2>2, NewDocs DEF OfferInv
  <2>3. QED
    BY <2>1, <2>2
<1>2. ASSUME NEW c \in Caller, call'[c].pc = "insert"
      PROVE  Quoted(call'[c].w) \in OffersOf(call'[c].tx)
  <2>1. CASE call'[c] = call[c]
    BY <1>2, <2>1 DEF OfferInv
  <2>2. CASE StartStep(c) /\ call'[c] # call[c]
    <3>0. call \in [Caller -> Frame] /\ call[c] \in Frame
      OBVIOUS
    <3>1. StartCreate(c)
      BY <1>2, <2>2, <3>0, FrameMoves
         DEF StartStep, StartGet, StartInsert, StartReget, StartRequest, StartUpdate
    <3>2. /\ Quotable(AssetOf[call[c].tx], call[c].amount)
          /\ customer[Owner[call[c].tx]].bank \in Bank
          /\ call'[c].w = NewDoc(AssetOf[call[c].tx], call[c].amount,
                                 customer[Owner[call[c].tx]].bank)
          /\ call'[c].tx = call[c].tx
      BY <1>2, <3>0, <3>1, ServiceAssumption, FrameMoves
         DEF StartCreate, BankGiven, Customer, Frame
    <3>3. QED
      BY <3>0, <3>2, PricedIsOffer DEF Frame
  <2>3. QED
    BY <1>2, <2>1, <2>2, CallSteps
<1>3. QED
  BY <1>1, <1>2 DEF OfferInv, OffersOf
-----------------------------------------------------------------------------
(* The theorems.                                                           *)

\* Every step keeps the invariant.
LEMMA FullInvStep ==
  ASSUME FullInv, [Next]_vars
  PROVE  FullInv'
<1>1. Inv'
  BY NextTypes, CallInvStep, HandInvStep, QueueInvStep, PastInvStep, FundsInvStep
     DEF Inv, FullInv
<1>2. WalkInv'
  BY FormInvStep, ProcInvStep, HandledInvStep, PhaseInvStep DEF WalkInv, FullInv
<1>3. MoneyInv'
  BY AskedInvStep, AnswerInvStep, PayoutInvStep DEF MoneyInv, FullInv
<1>4. AlertInv' /\ OfferInv'
  BY AlertInvStep, OfferInvStep DEF FullInv
<1>5. QED
  BY <1>1, <1>2, <1>3, <1>4 DEF FullInv

\* The invariant holds in every reachable state.
LEMMA FullInvariance == Spec => []FullInv
  BY InitFull, FullInvStep, PTL DEF Spec

\* What the invariant says of a state, in the words of the specification.
LEMMA FullIsSafe ==
  ASSUME FullInv
  PROVE  /\ CompletedAsPromised /\ ErrorOnlyIfUnpaid /\ NoSilentEnd
         /\ PaidOnlyIfFunded /\ PaidWhereRecorded
         /\ QuoteAgreement /\ AboveMinimum
<1>1. CompletedAsPromised /\ ErrorOnlyIfUnpaid /\ NoSilentEnd
  BY DEF FullInv, MoneyInv, PayoutInv, AlertInv
<1>2. PaidOnlyIfFunded /\ PaidWhereRecorded
  BY ServiceAssumption
     DEF FullInv, Inv, FundsInv, Funded, PaidOnlyIfFunded, PaidWhereRecorded
<1>3. QuoteAgreement
  BY ServiceAssumption DEF FullInv, MoneyInv, AskedInv, QuoteAgreement
<1>4. AboveMinimum
  <2> SUFFICES ASSUME NEW t \in Tx, store[t] # NoDoc
               PROVE  store[t].amountOut >= MinPayout
    BY DEF AboveMinimum
  <2>1. store[t] \in Doc
    BY DEF FullInv, Inv, TypeOK, ServiceTypeOK
  <2>2. Quoted(store[t]) \in OffersOf(t)
    BY <2>1 DEF FullInv, OfferInv
  <2>3. PICK r \in Rates, x \in Amounts :
            /\ AssetOf[t] \in DOMAIN r
            /\ AtLeast(Worth(r, AssetOf[t], x), MinPayout, 1)
            /\ store[t].amountOut = Format(Worth(r, AssetOf[t], x), 1)
    BY <2>2 DEF OffersOf, Quoted
  <2>4. Worth(r, AssetOf[t], x) \in Rational
    <3>1. x \in Nat /\ r[AssetOf[t]] \in Nat /\ Scale \in Nat \ {0}
      BY <2>3, ServiceAssumption, PlatformAssumption
    <3>2. x * r[AssetOf[t]] \in Nat
      BY <3>1, Products
    <3> QED BY <3>1, <3>2 DEF Worth, Fixed, Rational
  <2>5. MinPayout \in Nat
    BY ServiceAssumption
  <2> QED BY <2>3, <2>4, <2>5, MinimumSurvives
<1>5. QED
  BY <1>1, <1>2, <1>3, <1>4

\* "completed" is only ever said of a withdrawal whose naira arrived, to the
\* kobo, under the reference that is shown.
THEOREM CompletedSafe == Spec => []CompletedAsPromised
  BY FullInvariance, FullIsSafe, PTL

\* "error" is only ever said of a withdrawal with no naira out, for ever.
THEOREM ErrorSafe == Spec => []ErrorOnlyIfUnpaid
  BY FullInvariance, FullIsSafe, PTL

\* No withdrawal is held, or failed once the user may have paid, unalerted.
THEOREM AlertSafe == Spec => []NoSilentEnd
  BY FullInvariance, FullIsSafe, PTL

\* What SAP told the wallet is what is recorded, with the processor running
\* next to the forms.
THEOREM QuoteTold == Spec => []QuoteAgreement
  BY FullInvariance, FullIsSafe, PTL

\* No record pays out less than the minimum: the minimum is compared with the
\* exact amount, whose whole kobo are what is recorded.
THEOREM MinimumSafe == Spec => []AboveMinimum
  BY FullInvariance, FullIsSafe, PTL

\* Core is asked for a new payout only while SAP has the withdrawal as
\* pending_anchor, although payOut never asks SAP.
THEOREM PendingSafe == Spec => PaysOnlyPending
<1>1. FullInv /\ [Next]_vars =>
        [\A t \in Tx :
            core[t] = NoPayout /\ core'[t] # NoPayout =>
                sap[t].status = "pending_anchor"]_vars
  <2> SUFFICES ASSUME FullInv, [Next]_vars, NEW t \in Tx,
                      core[t] = NoPayout, core'[t] # NoPayout
               PROVE  sap[t].status = "pending_anchor"
    OBVIOUS
  <2>1. t = cur /\ step = "pay"
    BY CoreMoves, ProcessorAssumption DEF FullInv
  <2>2. QED
    BY <2>1
       DEF FullInv, WalkInv, HandledInv, PhaseInv, DueStatus, ListedStatus, Checking,
           Inv, TypeOK, Phase
<1>2. QED
  BY FullInvariance, <1>1, PTL DEF Spec, PaysOnlyPending
-----------------------------------------------------------------------------
(* The memo, and the record of a SEP-6 withdrawal.                         *)

\* A memo on record is SAP's.
MemoInv ==
    /\ \A t \in Tx : store[t] \in Doc => store[t].memo \in {NoMemo, sap[t].memo}
    /\ \A c \in Caller :
          call[c].pc \in {"insert", "request", "update"} =>
              call[c].w.memo \in {NoMemo, sap[call[c].tx].memo}
    /\ step \in InHand => doc.memo \in {NoMemo, sap[cur].memo}

\* Nobody but the processor writes the record of a SEP-6 withdrawal, so until
\* it is saved the copy it has in hand differs in nothing but core's answer,
\* and afterwards in nothing.
Saved == {"notifyPending", "notifySent"}

CopyInv ==
    /\ step \in InHand /\ cur \in Sep6 =>
          /\ doc.memo = store[cur].memo
          /\ step \in Saved => store[cur] = doc
    /\ step = "start" =>
          /\ core[cur] = NoPayout
          /\ call[Proc].pc = "update" =>
                sap[cur].status \in {"pending_user_transfer_start", "pending_anchor"}

\* The payment carries the memo on record, when there is one.
MemoMatches(t) ==
    store[t].memo # NoMemo => \A h \in sap[t].stellar : Ledger[h].memo = store[t].memo

\* What is on record of a completed withdrawal is what SAP shows.
PaidOnRecord(t) ==
    sap[t].status = "completed" /\ ~sap[t].byHand =>
        store[t].payoutStatus = "completed" /\ store[t].payoutRef = sap[t].ext

Sep6Inv ==
    /\ step = "pay" /\ cur \in Sep6 => MemoMatches(cur)
    /\ \A t \in Sep6 : core[t] # NoPayout => MemoMatches(t)
    /\ \A t \in Sep6 : PaidOnRecord(t)

RecordInv == FullInv /\ InformedInv /\ MemoInv /\ CopyInv /\ Sep6Inv

\* Nothing SAP gave out is taken back.
LEMMA SapStandsStep ==
  ASSUME Inv, [Next]_vars
  PROVE  SapStands
<1>1. CASE UNCHANGED sap
  BY <1>1 DEF SapStands
<1>2. CASE SapCalls
  <2>1. PICK t \in Tx :
            /\ \A u \in Tx \ {t} : sap'[u] = sap[u]
            /\ \/ sap[t].status = "incomplete"
               \/ MoveEffect(t) /\ Promised(t)' = Promised(t)
    BY <1>2, SapEffects DEF AskEffect
  <2>2. QED
    BY <2>1 DEF SapStands, MoveEffect, Promised
<1>3. QED
  BY <1>1, <1>2, SapMoves

\* The memo and the amount a caller is about to save are SAP's.
LEMMA InformedStep ==
  ASSUME Inv, InformedInv, [Next]_vars
  PROVE  InformedInv'
<1>1. ASSUME NEW c \in Caller
      PROVE  Informed(c)'
  BY SapStandsStep, CallSteps, InformedKept DEF Inv, TypeOK
<1>2. QED
  BY <1>1 DEF InformedInv, Caller

\* A record is written by a caller of Start, or by the processor's Save.
LEMMA RecordWrites ==
  ASSUME Inv, [Next]_vars, NEW t \in Tx, store'[t] # store[t]
  PROVE  \/ \E c \in Caller :
               /\ (StartInsert(c) /\ Free(t)) \/ StartUpdate(c)
               /\ call[c].tx = t /\ call[c].pc \in {"insert", "update"}
               /\ store'[t] = call[c].w
               /\ UNCHANGED <<sap, outside, volatile>>
         \/ /\ t = cur /\ store'[t] = doc
            /\ \E answered \in BOOLEAN : Save(answered)
<1> USE DEF Inv, TypeOK, ServiceTypeOK
<1>1. ASSUME NEW c \in Caller, StartStep(c)
      PROVE  /\ (StartInsert(c) /\ Free(t)) \/ StartUpdate(c)
             /\ call[c].tx = t /\ call[c].pc \in {"insert", "update"}
             /\ store'[t] = call[c].w /\ UNCHANGED sap
  <2>1. CASE StartInsert(c)
    BY <2>1 DEF StartInsert, At, Write
  <2>2. CASE StartUpdate(c)
    BY <2>2 DEF StartUpdate, At, Write
  <2>3. QED
    BY <1>1, <2>1, <2>2 DEF StartStep, StartGet, StartCreate, StartReget, StartRequest
<1>2. CASE ServiceStep
  <2>1. CASE \E c \in Caller : StartStep(c)
    BY <1>1, <1>2, <2>1 DEF ServiceStep
  <2>2. CASE UNCHANGED store
    BY <2>2
  <2>3. QED
    BY <1>2, <2>1, <2>2
       DEF ServiceStep, FormStep, FormOpen, FormPut, CustomerChanges, PlatformStep, Caller
<1>3. CASE ProcessorStep
  <2>1. CASE \E answered \in BOOLEAN : Save(answered)
    BY <2>1 DEF Save, Write
  <2>2. CASE UNCHANGED store
    BY <2>2
  <2>3. QED
    BY <1>3, <2>1, <2>2
       DEF ProcessorStep, List, Take, NextList, Started, Load, CheckFunds, PayRejected,
           Query, GetAnswer, NotifyHold, NotifyError, NotifySent, Alert, Pay, NotifyPending,
           CallFails, serviceVars
<1>4. CASE ~ServiceStep /\ ~ProcessorStep
  BY <1>4, ZenonT(30)
     DEF Next, CoreUpdates, LedgerCloses, Crash, Restart, vars, serviceVars
<1>5. QED
  BY <1>2, <1>3, <1>4

\* Of a SEP-6 withdrawal that is the processor, starting it or saving core's
\* answer.
LEMMA SoleWriter ==
  ASSUME Inv, WalkInv, [Next]_vars, NEW t \in Sep6, store'[t] # store[t]
  PROVE  /\ t = cur
         /\ \/ /\ step = "start" /\ call[Proc].pc \in {"insert", "update"}
               /\ store'[t] = call[Proc].w /\ UNCHANGED <<sap, outside, volatile>>
            \/ store'[t] = doc /\ \E answered \in BOOLEAN : Save(answered)
<1>1. t \in Tx
  BY PlatformAssumption
<1>2. ASSUME NEW c \in Caller, call[c].tx = t, call[c].pc \in {"insert", "update"}
      PROVE  c = Proc /\ step = "start" /\ cur = t
  <2>1. c \notin Forms
    BY <1>2 DEF WalkInv, FormInv
  <2>2. c = Proc
    BY <2>1 DEF Caller
  <2>3. QED
    BY <1>2, <2>2 DEF WalkInv, ProcInv
<1>3. QED
  BY <1>1, <1>2, RecordWrites

\* The record in the processor's hands is the one it loaded, with core's
\* answer in it once there is one.
LEMMA HandMemory ==
  ASSUME Inv, [Next]_vars, step' \in InHand
  PROVE  /\ cur' = cur
         /\ \/ /\ step = "load" /\ step' \in {"funds", "query"}
               /\ doc' = store[cur] /\ UNCHANGED <<sap, store, core>>
            \/ /\ step \in InHand
               /\ doc'.memo = doc.memo
               /\ step' \in Saved =>
                     doc' = doc /\ (step \in Saved \/ store'[cur] = doc)
<1> DEFINE Kept ==
      /\ cur' = cur /\ step \in InHand /\ doc'.memo = doc.memo
      /\ step' \in Saved => doc' = doc /\ (step \in Saved \/ store'[cur] = doc)
<1> USE DEF Inv, TypeOK, ServiceTypeOK
<1>1. CASE UNCHANGED volatile
  BY <1>1 DEF volatile
<1>2. ASSUME NEW d \in Doc
      PROVE  /\ [d EXCEPT !.reconcile = "mismatch"].memo = d.memo
             /\ [d EXCEPT !.payoutStatus = "failed"].memo = d.memo
             /\ \A r, s : [d EXCEPT !.payoutRef = r, !.payoutStatus = s].memo = d.memo
  BY DEF Doc
<1>3. step \in InHand => doc \in Doc /\ doc # NoDoc
  BY ServiceAssumption DEF HandInv
<1>4. ASSUME step \in InHand, Hold(doc) \/ Fail(doc)
      PROVE  Kept
  BY <1>2, <1>3, <1>4 DEF Hold, Fail, Proceed, Saved
<1>5. ASSUME step \in InHand, NEW r, NEW s, cur' = cur, step' \notin Saved,
             doc' = [doc EXCEPT !.payoutRef = r, !.payoutStatus = s]
      PROVE  Kept
  BY <1>2, <1>3, <1>5
<1>6. CASE Load
  BY <1>6 DEF Load, Hold, Proceed, Done, InHand, serviceVars, outside
<1>7. CASE CheckFunds \/ PayRejected
  BY <1>4, <1>7 DEF CheckFunds, PayRejected, Proceed, InHand, Saved
<1>8. CASE Query
  BY <1>4, <1>5, <1>8 DEF Query, GetAnswer, InHand, Saved
<1>9. CASE \E answered \in BOOLEAN : Pay(answered)
  BY <1>4, <1>5, <1>9 DEF Pay, PayAnswer, Done, InHand, Saved
<1>10. CASE \E answered \in BOOLEAN : Save(answered)
  <2>1. step \in InHand /\ store'[cur] = doc
    BY <1>10 DEF Save, InHand, Write
  <2>2. Done \/ Hold(doc) \/ Fail(doc) \/ \E s : Proceed(s, doc)
    BY <1>10 DEF Save, AfterPaid, AfterChecked
  <2>3. QED
    BY <1>4, <2>1, <2>2 DEF Done, Proceed, InHand
<1>11. CASE \E answered \in BOOLEAN : NotifyPending(answered)
  BY <1>11 DEF NotifyPending, Proceed, Done, InHand, Saved
<1>12. CASE ProcessorStep
  BY <1>6, <1>7, <1>8, <1>9, <1>10, <1>11, <1>12
     DEF ProcessorStep, List, Take, NextList, Started, NotifyHold, NotifyError,
         NotifySent, Alert, CallFails, Done, Proceed, InHand
<1>13. CASE ~ProcessorStep /\ ~Crash
  BY <1>1, <1>13, ZenonT(30)
     DEF Next, ServiceStep, CoreUpdates, LedgerCloses, vars, volatile
<1>14. QED
  BY <1>12, <1>13 DEF Crash, InHand

\* The processor is in Start because it was, or because it took a withdrawal.
LEMMA StartWalk ==
  ASSUME Inv, [Next]_vars, step' = "start"
  PROVE  \/ Take
         \/ step = "start" /\ cur' = cur /\ (call'[Proc] = call[Proc] \/ StartStep(Proc))
<1>1. CASE ProcessorStep
  BY <1>1
     DEF ProcessorStep, List, NextList, Started, Load, CheckFunds, PayRejected,
         Query, GetAnswer, NotifyHold, NotifyError, NotifySent, Alert, Pay, PayAnswer, Save, AfterPaid,
         AfterChecked, NotifyPending, CallFails, Done, Hold, Fail, Proceed
<1>2. CASE ~ProcessorStep /\ ~Crash
  <2>1. UNCHANGED volatile
    BY <1>2, ZenonT(30) DEF Next, ServiceStep, CoreUpdates, LedgerCloses, vars, volatile
  <2>2. QED
    BY <1>2, <2>1, ProcFrame DEF ProcessorStep, volatile
<1>3. QED
  BY <1>1, <1>2 DEF Crash

\* A memo on record, or on its way there, is SAP's.
LEMMA MemoInvStep ==
  ASSUME Inv, AskedInv, MemoInv, [Next]_vars
  PROVE  MemoInv'
<1> USE DEF Inv, TypeOK, ServiceTypeOK
<1>0. call \in [Caller -> Frame] /\ \A c \in Caller : call[c] \in Frame /\ call[c].tx \in Tx
  BY DEF Frame
<1>1. ASSUME NEW t \in Tx
      PROVE  {NoMemo, sap[t].memo} \subseteq {NoMemo, sap'[t].memo}
  BY SapStandsStep DEF SapStands, AskedInv
<1>2. ASSUME NEW t \in Tx, store'[t] \in Doc
      PROVE  store'[t].memo \in {NoMemo, sap'[t].memo}
  <2>1. CASE store'[t] = store[t]
    BY <1>1, <1>2, <2>1 DEF MemoInv
  <2>2. CASE store'[t] # store[t]
    <3>1. CASE \E c \in Caller :
                  /\ call[c].tx = t /\ call[c].pc \in {"insert", "update"}
                  /\ store'[t] = call[c].w
      BY <1>1, <3>1 DEF MemoInv
    <3>2. CASE t = cur /\ store'[t] = doc /\ \E answered \in BOOLEAN : Save(answered)
      BY <1>1, <3>2 DEF MemoInv, Save, InHand
    <3>3. QED
      BY <2>2, <3>1, <3>2, RecordWrites
  <2>3. QED
    BY <2>1, <2>2
<1>3. ASSUME NEW c \in Caller, call'[c].pc \in {"insert", "request", "update"}
      PROVE  call'[c].w.memo \in {NoMemo, sap'[call'[c].tx].memo}
  <2>1. CASE call'[c] = call[c]
    BY <1>0, <1>1, <1>3, <2>1 DEF MemoInv
  <2>2. CASE StartRequest(c)
    <3>1. CASE RequestOnchainFunds(call[c].tx, call[c].w.amountIn, call[c].w.amountOut)
      <4>1. call[c].w \in Doc /\ sap'[call[c].tx].memo = call[c].tx
        BY <2>2, <3>1, AskedAnswer DEF StartRequest, At, CallInv, Held
      <4>2. [call[c].w EXCEPT !.memo = call[c].tx].memo = call[c].tx
        BY <4>1 DEF Doc
      <4>3. \/ call'[c].pc = "idle"
            \/ /\ call'[c].w = [call[c].w EXCEPT !.memo = call[c].tx]
               /\ call'[c].tx = call[c].tx
        BY <1>0, <2>2, FrameMoves DEF StartRequest
      <4>4. QED
        BY <1>3, <4>1, <4>2, <4>3
    <3>2. CASE ~RequestOnchainFunds(call[c].tx, call[c].w.amountIn, call[c].w.amountOut)
      BY <1>0, <1>3, <2>2, <3>2, FrameMoves DEF StartRequest
    <3>3. QED
      BY <3>1, <3>2
  <2>3. CASE StartGet(c) \/ StartReget(c)
    <3>1. /\ call'[c].tx = call[c].tx /\ call'[c].w = store[call[c].tx]
          /\ store[call[c].tx] \in Doc /\ UNCHANGED sap
      BY <1>0, <1>3, <2>3, FrameMoves DEF StartGet, StartReget, At, CallInv, Held
    <3>2. QED
      BY <1>0, <3>1 DEF MemoInv
  <2>4. CASE StartInsert(c)
    <3>1. /\ call'[c].tx = call[c].tx /\ call'[c].w = call[c].w
          /\ call[c].pc = "insert" /\ UNCHANGED sap
      BY <1>0, <1>3, <2>4, FrameMoves DEF StartInsert, At
    <3>2. QED
      BY <1>0, <3>1 DEF MemoInv
  <2>5. CASE StartCreate(c)
    <3>1. \E a, x, b : call'[c].w = NewDoc(a, x, b)
      BY <1>0, <1>3, <2>5, FrameMoves DEF StartCreate
    <3>2. \A a, x, b : NewDoc(a, x, b).memo = NoMemo
      BY DEF NewDoc
    <3>3. QED
      BY <3>1, <3>2
  <2>6. CASE StartUpdate(c)
    BY <1>0, <1>3, <2>6, FrameMoves DEF StartUpdate
  <2>7. QED
    BY <1>3, <2>1, <2>2, <2>3, <2>4, <2>5, <2>6, CallSteps DEF StartStep
<1>4. ASSUME step' \in InHand
      PROVE  doc'.memo \in {NoMemo, sap'[cur'].memo}
  <2>1. CASE cur' = cur /\ step \in InHand /\ doc'.memo = doc.memo
    BY <1>1, <2>1 DEF MemoInv
  <2>2. CASE cur' = cur /\ doc' = store[cur] /\ UNCHANGED <<sap, store>>
    BY <1>1, <1>4, <2>2, HandInvStep DEF HandInv, MemoInv
  <2>3. QED
    BY <1>4, <2>1, <2>2, HandMemory
<1>5. QED
  BY <1>2, <1>3, <1>4 DEF MemoInv, Caller

\* The processor's copy of a SEP-6 record, and its place in Start.
LEMMA CopyInvStep ==
  ASSUME Inv, WalkInv, CopyInv, [Next]_vars
  PROVE  CopyInv'
<1> USE DEF Inv, TypeOK, ServiceTypeOK
<1>0. Sep6 \subseteq Tx /\ cur \in Tx
  BY PlatformAssumption
<1>1. ASSUME step' \in InHand, cur' \in Sep6
      PROVE  doc'.memo = store'[cur'].memo /\ (step' \in Saved => store'[cur'] = doc')
  <2>1. CASE /\ step = "load" /\ step' \in {"funds", "query"} /\ cur' = cur
             /\ doc' = store[cur] /\ UNCHANGED store
    BY <2>1 DEF Saved
  <2>2. CASE /\ step \in InHand /\ cur' = cur /\ doc'.memo = doc.memo
             /\ step' \in Saved => doc' = doc /\ (step \in Saved \/ store'[cur] = doc)
    <3>1. step # "start"
      BY <2>2 DEF InHand
    <3>2. store'[cur] = store[cur] \/ store'[cur] = doc
      BY <1>1, <2>2, <3>1, SoleWriter
    <3>3. QED
      BY <1>1, <2>2, <3>2 DEF CopyInv
  <2>3. QED
    BY <1>1, <2>1, <2>2, HandMemory
<1>2. ASSUME step' = "start"
      PROVE  core'[cur'] = NoPayout
  <2>1. CASE step = "start" /\ cur' = cur
    BY <1>0, <2>1, CoreMoves, ProcessorAssumption DEF CopyInv
  <2>2. CASE Take
    <3>1. PICK t \in queue : cur' = t /\ phase = "start6" /\ UNCHANGED core
      BY <1>2, <2>2 DEF Take, outside
    <3>2. sap[t].status = "incomplete"
      BY <3>1 DEF WalkInv, HandledInv, ListedStatus
    <3>3. QED
      BY <3>1, <3>2 DEF PastInv, Past
  <2>3. QED
    BY <1>2, <2>1, <2>2, StartWalk
<1>3. ASSUME step' = "start", call'[Proc].pc = "update"
      PROVE  sap'[cur'].status \in {"pending_user_transfer_start", "pending_anchor"}
  <2>1. CASE step = "start" /\ cur' = cur /\ call'[Proc] = call[Proc]
    <3>1. sap[cur].status \in {"pending_user_transfer_start", "pending_anchor"}
      BY <1>3, <2>1 DEF CopyInv
    <3>2. CASE UNCHANGED sap
      BY <2>1, <3>1, <3>2
    <3>3. CASE SapCalls
      <4>1. PICK t \in Tx :
                /\ \A u \in Tx \ {t} : sap'[u] = sap[u]
                /\ sap[t].status = "incomplete" \/ MoveEffect(t)
        BY <3>3, SapEffects DEF AskEffect
      <4>2. QED
        BY <1>0, <1>3, <2>1, <3>1, <4>1 DEF MoveEffect
    <3>4. QED
      BY <3>2, <3>3, SapMoves
  <2>2. CASE step = "start" /\ cur' = cur /\ StartStep(Proc) /\ call'[Proc] # call[Proc]
    <3>1. Proc \in Caller /\ call \in [Caller -> Frame]
      BY DEF Caller
    <3>2. StartRequest(Proc)
      BY <1>3, <2>2, <3>1, FrameMoves
         DEF StartStep, StartGet, StartCreate, StartInsert, StartReget, StartUpdate
    <3>3. RequestOnchainFunds(call[Proc].tx, call[Proc].w.amountIn, call[Proc].w.amountOut)
      BY <1>3, <3>1, <3>2, FrameMoves DEF StartRequest
    <3>4. call[Proc].tx = cur
      BY <2>2, <3>2 DEF StartRequest, At, WalkInv, ProcInv
    <3>5. QED
      BY <2>2, <3>1, <3>2, <3>3, <3>4, AskedAnswer
  <2>3. CASE Take
    <3>1. call'[Proc].pc = "get" \/ UNCHANGED call
      <4>1. Proc \in Caller
        BY DEF Caller
      <4>2. QED
        BY <2>3, <4>1 DEF Take, Enter
    <3>2. call[Proc].pc = "idle"
      BY <2>3 DEF Take, WalkInv, ProcInv
    <3>3. QED
      BY <1>3, <3>1, <3>2
  <2>4. QED
    BY <1>3, <2>1, <2>2, <2>3, StartWalk
<1>4. QED
  BY <1>1, <1>2, <1>3 DEF CopyInv

\* A memo that was compared stays compared, and what is recorded of a
\* completed withdrawal stays recorded.
LEMMA Sep6InvStep ==
  ASSUME RecordInv, [Next]_vars
  PROVE  Sep6Inv'
<1> USE DEF RecordInv, FullInv
<1>0. /\ Sep6 \subseteq Tx /\ cur \in Tx /\ sap \in [Tx -> SapTx]
      /\ store \in [Tx -> Doc \cup {NoDoc}]
  BY PlatformAssumption DEF Inv, TypeOK, ServiceTypeOK, PlatformTypeOK
<1>1. ASSUME NEW t \in Sep6, Past(t), MemoMatches(t), step # "start" \/ t # cur
      PROVE  MemoMatches(t)'
  <2>1. sap'[t].stellar = sap[t].stellar
    BY <1>0, <1>1, PastKept
  <2>2. store'[t].memo = store[t].memo
    <3>1. CASE \E answered \in BOOLEAN : Save(answered)
      BY <1>1, <3>1, SoleWriter DEF Save, CopyInv, InHand
    <3>2. QED
      BY <1>1, <3>1, SoleWriter
  <2>3. QED
    BY <1>1, <2>1, <2>2 DEF MemoMatches
<1>2. ASSUME step' = "pay", cur' \in Sep6
      PROVE  MemoMatches(cur)'
  <2>1. cur' = cur /\ step \in {"funds", "pay"}
    BY <1>2, WalkSteps
  <2>2. MemoMatches(cur)
    <3>1. CASE step = "pay"
      BY <1>2, <2>1, <3>1 DEF Sep6Inv
    <3>2. CASE FundsMatch(cur, doc) /\ step = "funds"
      BY <1>2, <2>1, <3>2 DEF FundsMatch, Settled, MemoMatches, CopyInv, InHand
    <3>3. QED
      BY <1>2, <2>1, <3>1, <3>2, WalkSteps
  <2>3. MemoMatches(cur)' <=> 
           (store'[cur].memo # NoMemo =>
              \A h \in sap'[cur].stellar : Ledger[h].memo = store'[cur].memo)
    BY <2>1 DEF MemoMatches
  <2>4. Past(cur)
    BY <2>1 DEF Inv, PastInv
  <2>5. QED
    BY <1>1, <1>2, <2>1, <2>2, <2>3, <2>4 DEF MemoMatches
<1>3. ASSUME NEW t \in Sep6, core'[t] # NoPayout
      PROVE  MemoMatches(t)'
  <2>1. CASE core[t] # NoPayout
    <3>1. step # "start" \/ t # cur
      BY <2>1 DEF CopyInv
    <3>2. Past(t) /\ MemoMatches(t)
      BY <1>0, <2>1 DEF Inv, PastInv, Sep6Inv
    <3>3. QED
      BY <1>1, <3>1, <3>2
  <2>2. CASE core[t] = NoPayout
    <3>1. t = cur /\ step = "pay"
      BY <1>0, <1>3, <2>2, CoreMoves, ProcessorAssumption
    <3>2. Past(t) /\ MemoMatches(t)
      BY <3>1 DEF Inv, PastInv, Sep6Inv
    <3>3. QED
      BY <1>1, <3>1, <3>2
  <2>3. QED
    BY <2>1, <2>2
<1>4. ASSUME NEW t \in Sep6
      PROVE  PaidOnRecord(t)'
  <2>1. CASE sap'[t] = sap[t]
    <3>1. CASE store'[t] = store[t]
      BY <2>1, <3>1 DEF Sep6Inv, PaidOnRecord
    <3>2. CASE store'[t] # store[t]
      <4>1. t = cur
        BY <3>2, SoleWriter
      <4>2. CASE \E answered \in BOOLEAN : Save(answered)
        BY <2>1, <4>1, <4>2
           DEF Save, WalkInv, HandledInv, DueStatus, ListedStatus, PaidOnRecord
      <4>3. CASE step = "start" /\ call[Proc].pc \in {"insert", "update"}
        BY <2>1, <4>1, <4>3 DEF WalkInv, ProcInv, Starting, CopyInv, PaidOnRecord
      <4>4. QED
        BY <3>2, <4>2, <4>3, SoleWriter
    <3>3. QED
      BY <3>1, <3>2
  <2>2. CASE sap'[t] # sap[t]
    <3>1. SapCalls /\ UNCHANGED store
      BY <2>2, SapMoves
    <3>2. PICK u \in Tx :
              /\ \A v \in Tx \ {u} : sap'[v] = sap[v]
              /\ \/ \E c \in Caller : AskEffect(u, call[c].w.amountIn, call[c].w.amountOut)
                 \/ MoveEffect(u)
      BY <3>1, SapEffects
    <3>3. CASE /\ t = cur /\ step = "notifySent" /\ sap'[t].status = "completed"
               /\ sap'[t].ext = doc.payoutRef
      <4>1. store[t] = doc
        BY <3>3 DEF CopyInv, InHand, Saved
      <4>2. doc.payoutStatus = "completed"
        BY <3>3 DEF MoneyInv, AnswerInv
      <4>3. QED
        BY <3>1, <3>3, <4>1, <4>2 DEF PaidOnRecord
    <3>4. CASE sap'[t].status # "completed" \/ sap'[t].byHand
      BY <3>4 DEF PaidOnRecord
    <3>5. u = t
      BY <1>0, <2>2, <3>2
    <3>6. QED
      BY <3>2, <3>3, <3>4, <3>5 DEF AskEffect, MoveEffect
  <2>3. QED
    BY <2>1, <2>2
<1>5. QED
  BY <1>2, <1>3, <1>4 DEF Sep6Inv

\* It is so at the start.
LEMMA InitRecord == Init => RecordInv
<1> SUFFICES ASSUME Init PROVE RecordInv
  OBVIOUS
<1>1. /\ \A c \in Caller : call[c].pc = "idle"
      /\ \A t \in Tx : /\ store[t] = NoDoc /\ core[t] = NoPayout
                       /\ sap[t].status = "incomplete"
      /\ step = "list"
  BY DEF Init, ServiceInit, PlatformInit, Idle
<1>2. InformedInv /\ MemoInv /\ CopyInv
  BY <1>1, ServiceAssumption DEF InformedInv, Informed, MemoInv, CopyInv, InHand
<1>3. Sep6Inv
  BY <1>1, PlatformAssumption DEF Sep6Inv, PaidOnRecord
<1>4. QED
  BY <1>2, <1>3, InitFull DEF RecordInv

\* Every step keeps it.
LEMMA RecordInvStep ==
  ASSUME RecordInv, [Next]_vars
  PROVE  RecordInv'
<1> USE DEF RecordInv
<1>1. FullInv'
  BY FullInvStep
<1>2. InformedInv' /\ MemoInv' /\ CopyInv'
  BY InformedStep, MemoInvStep, CopyInvStep DEF FullInv, MoneyInv
<1>3. Sep6Inv'
  BY Sep6InvStep
<1>4. QED
  BY <1>1, <1>2, <1>3

\* The record and the memo, in every reachable state.
LEMMA RecordInvariance == Spec => []RecordInv
  BY InitRecord, RecordInvStep, PTL DEF Spec

\* A form comes to say "pay" in its own last step, with a saved copy that has
\* what SAP answered.
LEMMA StartedStep ==
  ASSUME RecordInv, [Next]_vars, NEW c \in Forms,
         call[c].res # "ok", call'[c].res = "ok"
  PROVE  LET t == call[c].tx
         IN  /\ sap[t].status # "incomplete"
             /\ store'[t].memo = sap[t].memo
             /\ store'[t].amountIn = sap[t].askedIn
<1>1. /\ c \in Caller /\ c # Proc /\ Proc \in Caller
      /\ ServiceTypeOK /\ InformedInv /\ Inv
  BY ServiceAssumption DEF Caller, RecordInv, FullInv, Inv, TypeOK
<1>2. FormStep(c)
  <2>1. ASSUME NEW d \in Forms \ {c}, FormStep(d) PROVE FALSE
    BY <1>1, <2>1, OthersResults
  <2>2. ~StartStep(Proc)
    BY <1>1, StartFrame
  <2>3. ~Take /\ ~Started
    BY <1>1, FrameMoves DEF Take, Started, ServiceTypeOK
  <2>4. ~Crash
    BY <1>1 DEF Crash, Restart, Idle
  <2>5. CASE ProcessorStep
    BY <2>3, <2>5
       DEF ProcessorStep, List, NextList, Load, CheckFunds, PayRejected, Query, GetAnswer,
           NotifyHold, NotifyError, NotifySent, Alert, Pay, Save, NotifyPending,
           CallFails, serviceVars
  <2>6. QED
    BY <2>1, <2>2, <2>4, <2>5
       DEF Next, ServiceStep, CustomerChanges, PlatformStep, CoreUpdates,
           LedgerCloses, vars, serviceVars
<1>3. QED
  BY <1>1, <1>2, Finishing

\* The form says "pay" only when SAP waits for the payment and the record
\* carries its memo, with the processor writing next to it.
THEOREM StartedSafeBesideProcessor == Spec => StartedIsRecorded
<1>1. RecordInv /\ [Next]_vars =>
        [\A c \in Forms :
            call[c].res # "ok" /\ call'[c].res = "ok" =>
                LET t == call[c].tx
                IN  /\ sap[t].status # "incomplete"
                    /\ store'[t].memo = sap[t].memo
                    /\ store'[t].amountIn = sap[t].askedIn]_serviceVars
  BY StartedStep
<1>2. QED
  BY RecordInvariance, <1>1, PTL DEF Spec, StartedIsRecorded

\* What is left of MemoCheckedBeforePaying: it holds where the record carries
\* the memo and no form writes it.
MemoChecked ==
    \A t \in Sep6 :
        core[t] # NoPayout /\ store[t].memo # NoMemo =>
            \A h \in sap[t].stellar : Ledger[h].memo = sap[t].memo

\* What the invariant says of a SEP-6 withdrawal.
LEMMA RecordIsKept ==
  ASSUME RecordInv
  PROVE  /\ \A t \in Sep6 : PaidOnRecord(t)
         /\ MemoChecked
<1>1. \A t \in Sep6 : PaidOnRecord(t)
  BY DEF RecordInv, Sep6Inv
<1>2. MemoChecked
  <2> SUFFICES ASSUME NEW t \in Sep6, core[t] # NoPayout, store[t].memo # NoMemo
               PROVE  \A h \in sap[t].stellar : Ledger[h].memo = sap[t].memo
    BY DEF MemoChecked
  <2>1. t \in Tx /\ MemoMatches(t)
    BY PlatformAssumption DEF RecordInv, Sep6Inv
  <2>2. store[t] \in Doc
    BY <2>1 DEF RecordInv, FullInv, Inv, FundsInv, Funded
  <2>3. QED
    BY <2>1, <2>2 DEF MemoMatches, RecordInv, MemoInv
<1>3. QED
  BY <1>1, <1>2

\* A SEP-6 withdrawal the anchor completed has core's reference and outcome
\* on record: nobody but the processor writes its record.
THEOREM Sep6OnRecord == Spec => [](\A t \in Sep6 : PaidOnRecord(t))
  BY RecordInvariance, RecordIsKept, PTL

\* What can still undo a SEP-24 record: once the withdrawal is completed, only
\* the late save of a form that was still in Start.
THEOREM OnlyFormsOverwrite ==
  Spec => [][\A t \in Tx :
                sap[t].status = "completed" /\ store'[t] # store[t] =>
                    \E c \in Forms : call[c].tx = t /\ StartUpdate(c)]_vars
<1>1. RecordInv /\ [Next]_vars =>
        [\A t \in Tx :
            sap[t].status = "completed" /\ store'[t] # store[t] =>
                \E c \in Forms : call[c].tx = t /\ StartUpdate(c)]_vars
  <2> SUFFICES ASSUME RecordInv, [Next]_vars, NEW t \in Tx,
                      sap[t].status = "completed", store'[t] # store[t]
               PROVE  \E c \in Forms : call[c].tx = t /\ StartUpdate(c)
    OBVIOUS
  <2> USE DEF RecordInv, FullInv
  <2>1. ~Free(t)
    BY ServiceAssumption DEF MoneyInv, AskedInv, Free
  <2>2. ~(t = cur /\ \E answered \in BOOLEAN : Save(answered))
    BY DEF Save, WalkInv, HandledInv, DueStatus, ListedStatus
  <2>3. PICK c \in Caller : StartUpdate(c) /\ call[c].tx = t /\ call[c].pc \in {"insert", "update"}
    BY <2>1, <2>2, RecordWrites
  <2>4. c # Proc
    BY <2>3 DEF StartUpdate, At, WalkInv, ProcInv, CopyInv
  <2>5. QED
    BY <2>3, <2>4 DEF Caller
<1>2. QED
  BY RecordInvariance, <1>1, PTL DEF Spec

\* A record as it is before core is asked.
Untouched(w) == w.payoutStatus = "" /\ w.payoutRef = NoRef
Outcome(w) == <<w.payoutStatus, w.payoutRef>>

\* What Start may still save comes from before SAP was asked, and so from
\* before core was; next to it, only the processor's own copy has an outcome.
OutcomeInv ==
    /\ \A t \in Tx :
          store[t] \in Doc /\ sap[t].status = "incomplete" => Untouched(store[t])
    /\ \A c \in Caller :
          \/ call[c].pc \in {"insert", "update"}
          \/ call[c].pc = "request" /\ sap[call[c].tx].status = "incomplete"
          => Untouched(call[c].w)
    /\ step \in Saved =>
          Outcome(store[cur]) = Outcome(doc) \/ Untouched(store[cur])
    /\ OutcomeNeverStale

\* A step of Start keeps to records without an outcome.
LEMMA OutcomeInStart ==
  ASSUME RecordInv, OutcomeInv, [Next]_vars, NEW c \in Caller,
         \/ call'[c].pc \in {"insert", "update"}
         \/ call'[c].pc = "request" /\ sap'[call'[c].tx].status = "incomplete"
  PROVE  Untouched(call'[c].w)
<1> USE DEF RecordInv, FullInv, Inv, TypeOK, ServiceTypeOK
<1>0. call \in [Caller -> Frame] /\ call[c].tx \in Tx
  BY DEF Frame
<1>1. sap'[call[c].tx].status = "incomplete" => sap[call[c].tx].status = "incomplete"
  BY <1>0, SapStandsStep DEF SapStands
<1>2. CASE call'[c] = call[c]
  BY <1>1, <1>2 DEF OutcomeInv
<1>3. CASE StartGet(c) \/ StartReget(c)
  <2>1. /\ call'[c].pc \in {"create", "request"} => call'[c].tx = call[c].tx
        /\ call'[c].pc = "request" =>
              call'[c].w = store[call[c].tx] /\ store[call[c].tx] \in Doc
    BY <1>0, <1>3, FrameMoves DEF StartGet, StartReget, At, CallInv, Held
  <2>2. call'[c].pc = "request"
    BY <1>0, <1>3, FrameMoves DEF StartGet, StartReget
  <2>3. QED
    BY <1>0, <1>1, <2>1, <2>2 DEF OutcomeInv
<1>4. CASE StartCreate(c)
  <2>1. \E a, x, b : call'[c].w = NewDoc(a, x, b)
    BY <1>0, <1>4, FrameMoves DEF StartCreate
  <2>2. \A a, x, b : Untouched(NewDoc(a, x, b))
    BY DEF NewDoc, Untouched
  <2>3. QED
    BY <2>1, <2>2
<1>5. CASE StartInsert(c)
  BY <1>0, <1>5, FrameMoves DEF StartInsert, At, OutcomeInv
<1>6. CASE StartRequest(c)
  <2>1. /\ call'[c].w = [call[c].w EXCEPT !.memo = call[c].tx]
        /\ RequestOnchainFunds(call[c].tx, call[c].w.amountIn, call[c].w.amountOut)
    BY <1>0, <1>6, FrameMoves DEF StartRequest
  <2>2. call[c].w \in Doc /\ Untouched(call[c].w)
    BY <1>6, <2>1 DEF StartRequest, At, RequestOnchainFunds, OutcomeInv, CallInv, Held
  <2>3. QED
    BY <2>1, <2>2 DEF Untouched, Doc
<1>7. CASE StartUpdate(c)
  BY <1>0, <1>7, FrameMoves DEF StartUpdate
<1>8. QED
  BY <1>2, <1>3, <1>4, <1>5, <1>6, <1>7, CallSteps DEF StartStep

\* Every step keeps the outcome on record, or loses all of it.
LEMMA OutcomeInvStep ==
  ASSUME RecordInv, OutcomeInv, [Next]_vars
  PROVE  OutcomeInv'
<1> USE DEF RecordInv, FullInv
<1>0. cur \in Tx /\ sap \in [Tx -> SapTx] /\ store \in [Tx -> Doc \cup {NoDoc}]
  BY DEF Inv, TypeOK, ServiceTypeOK, PlatformTypeOK
<1>1. ASSUME NEW t \in Tx, store'[t] # store[t]
      PROVE  \/ Untouched(store'[t]) /\ UNCHANGED <<sap, step, cur, doc>>
             \/ /\ t = cur /\ store'[t] = doc /\ UNCHANGED sap
                /\ step \notin Saved /\ sap[t].status \notin {"incomplete", "completed"}
  <2>1. CASE \E c \in Caller :
                /\ call[c].tx = t /\ call[c].pc \in {"insert", "update"}
                /\ store'[t] = call[c].w /\ UNCHANGED <<sap, outside, volatile>>
    BY <2>1 DEF OutcomeInv, volatile
  <2>2. CASE t = cur /\ store'[t] = doc /\ \E answered \in BOOLEAN : Save(answered)
    BY <2>2 DEF Save, Saved, WalkInv, HandledInv, PhaseInv, DueStatus, ListedStatus
  <2>3. QED
    BY <1>1, <2>1, <2>2, RecordWrites
<1>2. ASSUME NEW t \in Tx, store'[t] \in Doc, sap'[t].status = "incomplete"
      PROVE  Untouched(store'[t])
  <2>1. sap[t].status = "incomplete"
    BY <1>2, SapStandsStep DEF SapStands
  <2>2. QED
    BY <1>1, <1>2, <2>1 DEF OutcomeInv
<1>3. ASSUME step' \in Saved
      PROVE  Outcome(store'[cur']) = Outcome(doc') \/ Untouched(store'[cur'])
  <2>1. /\ cur' = cur /\ doc' = doc
        /\ step \in Saved \/ store'[cur] = doc
    BY <1>3, HandMemory DEF Saved, InHand
  <2>2. CASE step \in Saved
    BY <1>0, <1>1, <2>1, <2>2 DEF OutcomeInv
  <2>3. QED
    BY <2>1, <2>2
<1>4. ASSUME NEW t \in Tx, sap'[t].status = "completed", ~sap'[t].byHand
      PROVE  Outcome(store'[t]) \in {<<"completed", sap'[t].ext>>, <<"", NoRef>>}
  <2>1. CASE sap'[t] = sap[t]
    <3>1. CASE store'[t] = store[t]
      BY <1>4, <2>1, <3>1 DEF OutcomeInv, OutcomeNeverStale, Outcome
    <3>2. CASE Untouched(store'[t])
      BY <3>2 DEF Untouched, Outcome
    <3>3. QED
      BY <1>1, <1>4, <2>1, <3>1, <3>2
  <2>2. CASE sap'[t] # sap[t]
    <3>1. SapCalls /\ UNCHANGED store
      BY <2>2, SapMoves
    <3>2. PICK u \in Tx :
              /\ \A v \in Tx \ {u} : sap'[v] = sap[v]
              /\ \/ \E c \in Caller : AskEffect(u, call[c].w.amountIn, call[c].w.amountOut)
                 \/ MoveEffect(u)
      BY <3>1, SapEffects
    <3>3. u = t
      BY <2>2, <3>2
    <3>4. t = cur /\ step = "notifySent" /\ sap'[t].ext = doc.payoutRef
      BY <1>4, <3>2, <3>3 DEF AskEffect, MoveEffect
    <3>5. doc.payoutStatus = "completed"
      BY <3>4 DEF MoneyInv, AnswerInv
    <3>6. Outcome(store[t]) = Outcome(doc) \/ Untouched(store[t])
      BY <3>4 DEF OutcomeInv, Saved
    <3>7. QED
      BY <3>1, <3>4, <3>5, <3>6 DEF Untouched, Outcome
  <2>3. QED
    BY <2>1, <2>2
<1>5. OutcomeNeverStale'
  BY <1>4 DEF OutcomeNeverStale, Outcome
<1>6. QED
  BY <1>2, <1>3, <1>5, OutcomeInStart DEF OutcomeInv, Caller

\* What the record of a completed withdrawal says of the payout is what SAP was
\* told, or nothing: a form's late save may lose the outcome, and nothing
\* brings an earlier one back.
THEOREM OutcomeSafe == Spec => []OutcomeNeverStale
<1>1. Init => OutcomeInv
  <2> SUFFICES ASSUME Init PROVE OutcomeInv
    OBVIOUS
  <2>1. /\ \A c \in Caller : call[c].pc = "idle"
        /\ \A t \in Tx : store[t] = NoDoc /\ sap[t].status = "incomplete"
        /\ step = "list"
    BY DEF Init, ServiceInit, PlatformInit, Idle
  <2>2. QED
    BY <2>1, ServiceAssumption DEF OutcomeInv, OutcomeNeverStale, Saved
<1>2. RecordInv /\ OutcomeInv /\ [Next]_vars => OutcomeInv'
  BY OutcomeInvStep
<1>3. OutcomeInv => OutcomeNeverStale
  BY DEF OutcomeInv
<1>4. QED
  BY RecordInvariance, <1>1, <1>2, <1>3, PTL DEF Spec

\* No naira goes out for a SEP-6 withdrawal on a payment with another memo
\* than SAP's, unless the memo never got on record.
THEOREM MemoSafe == Spec => []MemoChecked
  BY RecordInvariance, RecordIsKept, PTL
-----------------------------------------------------------------------------
(* The form and the processor implement Lifecycle.                         *)

\* The stages, one status at a time.
LEMMA Stages ==
  ASSUME NEW r
  PROVE  /\ r.status = "incomplete" => StageOf(r) = "opened"
         /\ r.status = "pending_user_transfer_start" => StageOf(r) = "asked"
         /\ r.status = "pending_anchor" => StageOf(r) = "funded"
         /\ r.status = "pending_external" => StageOf(r) = "sending"
         /\ r.status = "on_hold" => StageOf(r) = "held"
         /\ r.status = "error" => StageOf(r) = "failed"
         /\ r.status = "completed" /\ r.byHand => StageOf(r) = "settled"
         /\ r.status = "completed" /\ ~r.byHand => StageOf(r) = "completed"
         /\ r.status = "refunded" => StageOf(r) = "refunded"
  BY DEF StageOf

\* The initial state is Lifecycle's.
LEMMA ContractInit == Init => Contract!Init
<1> SUFFICES ASSUME Init PROVE Contract!Init
  OBVIOUS
<1>1. \A t \in Tx : /\ store[t] = NoDoc /\ core[t] = NoPayout
                    /\ sap[t].status = "incomplete" /\ sap[t].memo = NoMemo
  BY DEF Init, ServiceInit, PlatformInit
<1>2. /\ Stage = [t \in Tx |-> "opened"]
      /\ Quotes = [t \in Tx |-> <<>>]
      /\ Told = [t \in Tx |-> <<>>]
      /\ Naira = [t \in Tx |-> NoNaira]
  BY <1>1, Stages DEF Stage, Quotes, Told, Naira, QuoteOf, ToldOf, NairaOf
<1>3. QED
  BY <1>2 DEF Contract!Init

\* A step at SAP is a step of the lifecycle.
LEMMA SapRefines ==
  ASSUME FullInv, [Next]_vars, ~UNCHANGED sap
  PROVE  Contract!Next
<1> USE DEF FullInv
<1>0. sap \in [Tx -> SapTx] /\ sap' \in [Tx -> SapTx]
  BY NextTypes DEF Inv, TypeOK, ServiceTypeOK, PlatformTypeOK
<1>1. SapCalls /\ UNCHANGED <<store, core>>
  BY SapMoves
<1>2. PICK t \in Tx :
          /\ \A v \in Tx \ {t} : sap'[v] = sap[v]
          /\ \/ \E c \in Caller :
                   /\ StartRequest(c) /\ call[c].tx = t
                   /\ AskEffect(t, call[c].w.amountIn, call[c].w.amountOut)
             \/ MoveEffect(t) /\ Promised(t)' = Promised(t)
  BY <1>1, SapEffects
<1>3. UNCHANGED <<Quotes, Naira>>
  BY <1>1 DEF Quotes, Naira
<1>4. /\ Stage[t] = StageOf(sap[t]) /\ Stage' = [Stage EXCEPT ![t] = StageOf(sap'[t])]
      /\ Told[t] = ToldOf(sap[t], store[t]) /\ Naira[t] = NairaOf(core[t], store[t])
      /\ Quotes[t] = QuoteOf(store[t])
  BY <1>2 DEF Stage, Told, Naira, Quotes
<1>5. ASSUME NEW c \in Caller, StartRequest(c), call[c].tx = t,
             AskEffect(t, call[c].w.amountIn, call[c].w.amountOut)
      PROVE  Contract!Ask(t)
  <2>1. /\ store[t] \in Doc /\ call[c].w.amountIn = store[t].amountIn
        /\ call[c].w.amountOut = store[t].amountOut
    BY <1>5 DEF StartRequest, At, Inv, CallInv, Held, Quoted
  <2>2. Quotes[t] = Quoted(store[t]) /\ Quotes[t] # <<>>
    <3>1. Quotes[t] = <<store[t].amountIn, store[t].amountOut, store[t].bank>>
      BY <1>4, <2>1, ServiceAssumption DEF QuoteOf, Quoted
    <3>2. Len(Quotes[t]) = 3 /\ Len(<<>>) = 0
      BY <3>1
    <3>3. QED
      BY <3>1, <3>2 DEF Quoted
  <2>3. ToldOf(sap'[t], store'[t]) = Quotes[t]
    BY <1>1, <1>5, <2>1, <2>2, PlatformAssumption DEF AskEffect, ToldOf, Quoted
  <2>4. Told' = [Told EXCEPT ![t] = Quotes[t]]
    BY <1>1, <1>2, <2>3 DEF Told
  <2>5. StageOf(sap[t]) = "opened" /\ StageOf(sap'[t]) = "asked"
    BY <1>5, Stages DEF AskEffect
  <2>6. QED
    BY <1>3, <1>4, <2>2, <2>4, <2>5 DEF Contract!Ask, Contract!Reach
<1>6. ASSUME MoveEffect(t), Promised(t)' = Promised(t)
      PROVE  \/ Contract!Fund(t) \/ Contract!Announce(t) \/ Contract!Complete(t)
             \/ Contract!Fail(t) \/ Contract!Hold(t) \/ Contract!Resolve(t)
  <2>1. ToldOf(sap'[t], store'[t]) = ToldOf(sap[t], store[t])
    BY <1>1, <1>6 DEF Promised, ToldOf
  <2>2. UNCHANGED Told
    BY <1>1, <1>2, <2>1 DEF Told
  <2>3. ASSUME NEW from, NEW to, Stage[t] \in from, StageOf(sap'[t]) = to
        PROVE  Contract!Go(t, from, to)
    BY <1>3, <1>4, <2>2, <2>3 DEF Contract!Go, Contract!Reach
  <2>4. ASSUME core[t] # NoPayout
        PROVE  /\ Naira[t] # NoNaira
               /\ Naira[t].state = NairaState(core[t].status)
               /\ core[t].amount = store[t].amountOut => Naira[t].amount = "quoted"
    <3>1. store[t] \in Doc /\ core[t].bank \in Bank
      BY <2>4 DEF Inv, FundsInv, Funded, Doc
    <3>2. Naira[t] = [state |-> NairaState(core[t].status),
                      amount |-> IF core[t].amount = store[t].amountOut
                                 THEN "quoted" ELSE "other",
                      bank |-> core[t].bank]
      BY <1>4, <2>4 DEF NairaOf
    <3>3. NairaState(core[t].status) # "none"
      BY DEF NairaState
    <3>4. QED
      BY <3>2, <3>3 DEF NoNaira
  <2>5. CASE /\ sap[t].status = "pending_user_transfer_start"
             /\ sap'[t].status = "pending_anchor"
    BY <1>4, <2>3, <2>5, Stages DEF Contract!Fund
  <2>6. CASE /\ sap[t].status = "on_hold" /\ sap'[t].status \in {"completed", "refunded"}
             /\ sap'[t].byHand
    <3>1. Stage[t] \in {"held"} /\ StageOf(sap'[t]) \in {"settled", "refunded"}
      BY <1>4, <2>6, Stages
    <3>2. QED
      BY <2>3, <3>1 DEF Contract!Resolve
  <2>7. CASE /\ t = cur /\ step = "notifyPending"
             /\ sap[t].status = "pending_anchor" /\ sap'[t].status = "pending_external"
    <3>1. core[t] # NoPayout /\ core[t].amount = store[t].amountOut
      BY <2>7 DEF MoneyInv, AnswerInv, Answering, Inv, HandInv, InHand, Quoted
    <3>2. Stage[t] \in {"funded"} /\ StageOf(sap'[t]) = "sending"
      BY <1>4, <2>7, Stages
    <3>3. QED
      BY <1>4, <2>3, <2>4, <3>1, <3>2 DEF Contract!Announce, Contract!Exact
  <2>8. CASE /\ t = cur /\ step = "notifySent"
             /\ sap[t].status \in {"pending_anchor", "pending_external"}
             /\ sap'[t].status = "completed" /\ sap'[t].byHand = sap[t].byHand
    <3>1. sap[t].status = "pending_external"
      BY <2>8 DEF WalkInv, HandledInv, DueStatus
    <3>2. ~sap[t].byHand /\ core[t] # NoPayout /\ core[t].amount = store[t].amountOut
      BY <3>1 DEF MoneyInv, AskedInv, PayoutInv
    <3>3. core[t].status = "completed"
      BY <2>8 DEF MoneyInv, AnswerInv, Answering
    <3>4. Stage[t] \in {"sending"} /\ StageOf(sap'[t]) = "completed"
      BY <1>4, <2>8, <3>1, <3>2, Stages
    <3>5. NairaState(core[t].status) = "sent"
      BY <3>3 DEF NairaState
    <3>6. QED
      BY <2>3, <2>4, <3>2, <3>4, <3>5 DEF Contract!Complete, Contract!Exact
  <2>9. CASE t = cur /\ step = "notifyError" /\ sap'[t].status = "error"
    <3>1. sap[t].status \in {"incomplete", "pending_anchor", "pending_external"}
      BY <2>9 DEF WalkInv, HandledInv, DueStatus, ListedStatus
    <3>2. Stage[t] \in {"opened", "funded", "sending"} /\ StageOf(sap'[t]) = "failed"
      BY <1>4, <2>9, <3>1, Stages
    <3>3. CASE core[t] = NoPayout
      BY <1>4, <2>3, <3>2, <3>3 DEF Contract!Fail, NairaOf
    <3>4. CASE core[t] # NoPayout /\ core[t].status = "failed"
      <4>1. NairaState(core[t].status) = "bounced"
        BY <3>4 DEF NairaState
      <4>2. QED
        BY <2>3, <2>4, <3>2, <3>4, <4>1 DEF Contract!Fail
    <3>5. QED
      BY <2>9, <3>3, <3>4 DEF MoneyInv, PayoutInv, Unpaid
  <2>10. CASE /\ t = cur /\ step = "notifyHold"
              /\ sap[t].status \in {"pending_anchor", "pending_external"}
              /\ sap'[t].status = "on_hold"
    <3>1. Stage[t] \in {"funded", "sending"} /\ StageOf(sap'[t]) = "held"
      BY <1>4, <2>10, Stages
    <3>2. QED
      BY <2>3, <3>1 DEF Contract!Hold
  <2>11. QED
    BY <1>6, <2>5, <2>6, <2>7, <2>8, <2>9, <2>10 DEF MoveEffect
<1>7. QED
  BY <1>2, <1>5, <1>6 DEF Contract!Next

\* A step of the store prices a withdrawal, or is invisible.
LEMMA StoreRefines ==
  ASSUME FullInv, FullInv', [Next]_vars, UNCHANGED sap, ~UNCHANGED store
  PROVE  Contract!Next \/ UNCHANGED Contract!vars
<1> USE DEF FullInv
<1>0. /\ store \in [Tx -> Doc \cup {NoDoc}] /\ core \in [Tx -> Payout \cup {NoPayout}]
      /\ core' \in [Tx -> Payout \cup {NoPayout}]
  BY DEF Inv, TypeOK, ServiceTypeOK
<1>1. UNCHANGED core
  BY <1>0, CoreMoves
<1>2. PICK t \in Tx, w \in Doc :
          Write(t, w) /\ (store[t] \in Doc => Quoted(w) = Quoted(store[t]))
  BY StoreSteps DEF QuotesStand
<1>3. store'[t] = w /\ (\A u \in Tx \ {t} : store'[u] = store[u]) /\ UNCHANGED Stage
  BY <1>0, <1>2 DEF Write, Stage
<1>4. CASE store[t] \in Doc
  <2>1. /\ w.amountOut = store[t].amountOut /\ w.bank = store[t].bank
        /\ QuoteOf(w) = QuoteOf(store[t])
    BY <1>2, <1>4, ServiceAssumption DEF Quoted, QuoteOf
  <2>2. /\ ToldOf(sap[t], w) = ToldOf(sap[t], store[t])
        /\ NairaOf(core[t], w) = NairaOf(core[t], store[t])
    BY <2>1 DEF ToldOf, NairaOf
  <2>3. UNCHANGED <<Quotes, Told, Naira>>
    BY <1>1, <1>3, <2>1, <2>2 DEF Quotes, Told, Naira
  <2>4. QED
    BY <1>3, <2>3 DEF Contract!vars
<1>5. CASE store[t] = NoDoc
  <2>1. sap[t].memo = NoMemo /\ core[t] = NoPayout
    BY <1>5, ServiceAssumption DEF MoneyInv, AskedInv, Inv, FundsInv, Funded
  <2>2. /\ ToldOf(sap[t], w) = ToldOf(sap[t], store[t])
        /\ NairaOf(core[t], w) = NairaOf(core[t], store[t])
    BY <2>1 DEF ToldOf, NairaOf
  <2>3. UNCHANGED <<Told, Naira>>
    BY <1>1, <1>3, <2>2 DEF Told, Naira
  <2>4. Quotes[t] = <<>> /\ Quotes' = [Quotes EXCEPT ![t] = Quoted(w)]
    <3>1. QuoteOf(w) = Quoted(w) /\ QuoteOf(store[t]) = <<>>
      BY <1>5, ServiceAssumption DEF QuoteOf
    <3>2. QED
      BY <1>3, <3>1 DEF Quotes
  <2>5. Quoted(w) \in OffersOf(t)
    BY <1>3 DEF OfferInv, OffersOf
  <2>6. Contract!Price(t)
    BY <1>3, <2>3, <2>4, <2>5 DEF Contract!Price
  <2>7. QED
    BY <2>6 DEF Contract!Next
<1>6. QED
  BY <1>0, <1>4, <1>5

\* A step of core sends naira, settles it, or leaves it on its way.
LEMMA CoreRefines ==
  ASSUME FullInv, FullInv', [Next]_vars, UNCHANGED <<sap, store>>, ~UNCHANGED core
  PROVE  Contract!Next \/ UNCHANGED Contract!vars
<1> USE DEF FullInv
<1>0. core \in [Tx -> Payout \cup {NoPayout}] /\ core' \in [Tx -> Payout \cup {NoPayout}]
  BY DEF Inv, TypeOK
<1>1. PICK t \in Tx : core'[t] # core[t]
  BY <1>0
<1>2. /\ core'[t] \in Payout /\ \A u \in Tx \ {t} : core'[u] = core[u]
      /\ \/ core[t] = NoPayout /\ t = cur /\ step = "pay"
         \/ /\ core[t] \in Payout /\ core[t].status \notin {"completed", "failed"}
            /\ core'[t].amount = core[t].amount /\ core'[t].bank = core[t].bank
  BY <1>1, CoreMoves
<1>3. UNCHANGED <<Stage, Quotes, Told>>
  BY DEF Stage, Quotes, Told
<1>4. Naira[t] = NairaOf(core[t], store[t]) /\ Stage[t] = StageOf(sap[t])
  BY DEF Naira, Stage
<1>5. Naira' = [Naira EXCEPT ![t] = NairaOf(core'[t], store[t])]
  BY <1>2 DEF Naira
<1>6. NairaOf(core'[t], store[t]) =
         [state |-> NairaState(core'[t].status),
          amount |-> IF core'[t].amount = store[t].amountOut THEN "quoted" ELSE "other",
          bank |-> core'[t].bank]
  BY <1>2, ProcessorAssumption DEF NairaOf
<1>7. CASE core[t] = NoPayout /\ t = cur /\ step = "pay"
  <2>1. store[t] \in Doc /\ core'[t].bank = store[t].bank
    BY <1>2, ProcessorAssumption DEF Inv, FundsInv, Funded
  <2>2. Quotes[t][3] = core'[t].bank
    BY <2>1, ServiceAssumption DEF Quotes, QuoteOf, Quoted
  <2>3. sap[t].status = "pending_anchor"
    BY <1>7
       DEF WalkInv, HandledInv, PhaseInv, DueStatus, ListedStatus, Checking, Inv, TypeOK, Phase
  <2>4. NairaOf(core'[t], store[t]) \in Contract!Naira
    <3>1. core'[t].bank \in Bank /\ NairaState(core'[t].status) \in {"open", "sent", "bounced"}
      BY <1>2 DEF Payout, NairaState
    <3>2. QED
      BY <1>6, <3>1 DEF Contract!Naira
  <2>5. NairaOf(core'[t], store[t]).bank = Quotes[t][3]
    BY <1>6, <2>2
  <2>6. Stage[t] = "funded" /\ Naira[t] = NoNaira
    BY <1>4, <1>7, <2>3, Stages DEF NairaOf
  <2>7. Contract!Send(t)
    BY <1>3, <1>5, <2>4, <2>5, <2>6 DEF Contract!Send
  <2>8. QED
    BY <2>7 DEF Contract!Next
<1>8. CASE /\ core[t] \in Payout /\ core[t].status \notin {"completed", "failed"}
           /\ core'[t].amount = core[t].amount /\ core'[t].bank = core[t].bank
  <2>1. Naira[t] =
           [state |-> NairaState(core[t].status),
            amount |-> IF core[t].amount = store[t].amountOut THEN "quoted" ELSE "other",
            bank |-> core[t].bank]
    BY <1>4, <1>8, ProcessorAssumption DEF NairaOf
  <2>2. /\ NairaState(core[t].status) = "open"
        /\ NairaState(core'[t].status) \in {"open", "sent", "bounced"}
    BY <1>8 DEF NairaState
  <2>3. Naira[t] # NoNaira /\ Naira[t].state = "open"
    BY <2>1, <2>2 DEF NoNaira
  <2>4. NairaOf(core'[t], store[t]) = [Naira[t] EXCEPT !.state = NairaState(core'[t].status)]
    BY <1>6, <1>8, <2>1
  <2>5. CASE NairaState(core'[t].status) = "open"
    <3>1. NairaOf(core'[t], store[t]) = Naira[t]
      BY <1>6, <1>8, <2>1, <2>2, <2>5
    <3>2. QED
      BY <1>3, <1>5, <3>1 DEF Contract!vars, Naira
  <2>6. CASE NairaState(core'[t].status) # "open"
    <3>1. Contract!Settle(t)
      BY <1>3, <1>5, <2>2, <2>3, <2>4, <2>6 DEF Contract!Settle
    <3>2. QED
      BY <3>1 DEF Contract!Next
  <2>7. QED
    BY <2>5, <2>6
<1>9. QED
  BY <1>2, <1>7, <1>8

\* A step of the form, the processor or their surroundings is one of
\* Lifecycle, or none.
LEMMA ContractStep ==
  ASSUME FullInv, FullInv', [Next]_vars
  PROVE  Contract!Next \/ UNCHANGED Contract!vars
<1>1. CASE UNCHANGED <<sap, store, core>>
  BY <1>1 DEF Contract!vars, Stage, Quotes, Told, Naira
<1>2. QED
  BY <1>1, SapRefines, StoreRefines, CoreRefines

\* Whatever the requests, ticks, retries, crashes and lost answers, what the
\* wallet, the user and the bank see is a behaviour of Lifecycle.
THEOREM Implementation == Spec => KeepsPromises
<1>1. FullInv /\ FullInv' /\ [Next]_vars => [Contract!Next]_(Contract!vars)
  BY ContractStep
<1>2. QED
  BY ContractInit, FullInvariance, <1>1, PTL DEF Spec, KeepsPromises, Contract!Spec
=============================================================================
