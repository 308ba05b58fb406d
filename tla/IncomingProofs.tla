---------------------------- MODULE IncomingProofs ----------------------------
(***************************************************************************)
(* Proofs about the scan of incoming payments, for every ledger, page      *)
(* size, page budget and set of withdrawals, next to any number of forms.  *)
(*                                                                         *)
(* The cursor saved at the end of a page is safe because of what the scan  *)
(* has seen since it read the old one: everything up to its position was   *)
(* passed by an earlier scan, whose save came last, or by this one.        *)
(***************************************************************************)
EXTENDS Incoming, ServiceProofs

\* Where the scan stands, and how much it has looked at before each step.
ScanInv ==
    /\ ledger \in Seq(Operation)
    /\ cursor \in Nat /\ pos \in Nat /\ upto \in Nat
    /\ cursor <= Len(ledger) /\ pos <= upto /\ upto <= Len(ledger)
    /\ scan \in {"cursor", "fetch", "look", "save"}
    /\ scanPage \in 0 .. MaxScanPages - 1
    /\ flagged \subseteq Operation
    /\ scan = "look" => pos < upto
    /\ scan \in {"fetch", "save"} => pos = upto

\* Nothing stray up to n went unreported.
SeenUpTo(n) == \A i \in 1 .. n : Stray(ledger[i]) => ledger[i] \in flagged

SeenInv == SeenUpTo(cursor) /\ SeenUpTo(pos)

IncomingInv == ServiceInv /\ ScanInv /\ SeenInv
-----------------------------------------------------------------------------
\* The steps of Incoming are steps of the service, or leave it alone.
LEMMA Neighbours ==
  ASSUME ServiceInv, [IncomingNext]_incomingVars
  PROVE  ServiceInv'
<1>1. \/ \E c \in Forms : FormStep(c)
      \/ \E a \in Account : CustomerChanges(a)
      \/ Restart
      \/ \E t \in Tx : PlatformStep(t)
      \/ UNCHANGED serviceVars
  BY DEF IncomingNext, ServiceRuns, IncomingCrash, ScanStep, ScanAnswered, ScanCursor,
         ScanFetch, ScanLook, ScanSave, ScanFails, Arrive, incomingVars
<1>2. QED
  BY <1>1, ServiceInvStep

\* What a scan that ends leaves behind.
LEMMA DoneInv ==
  ASSUME ScanInv, ScanDone, ledger' = ledger, flagged' = flagged,
         cursor' \in Nat, cursor' <= Len(ledger)
  PROVE  ScanInv'
<1>1. 0 \in 0 .. MaxScanPages - 1
  BY IncomingAssumption
<1>2. QED
  BY <1>1 DEF ScanInv, ScanDone

\* A stray payment that the scan looks at is always reported: no record can
\* carry its memo, because records only carry memos SAP gave.
LEMMA StrayIsUnmatched ==
  ASSUME ServiceInv, NEW o \in Operation, Stray(o)
  PROVE  Counted(o) /\ Unmatched(o)
<1>1. ASSUME Memo[o] # NoMemo, NEW t \in Tx, store[t] # NoDoc, store[t].memo = Memo[o]
      PROVE  FALSE
  <2>1. store[t] \in Doc
    BY <1>1 DEF ServiceInv, ServiceTypeOK
  <2>2. store[t].memo \in Tx \cup {NoMemo}
    BY <2>1 DEF Doc
  <2>3. QED
    BY <1>1, <2>2 DEF Stray
<1>2. QED
  BY <1>1 DEF Stray, Counted, Unmatched, Recorded

\* What was seen stays seen, as the ledger only grows and so do the reports.
LEMMA SeenKept ==
  ASSUME NEW n \in Nat, ledger \in Seq(Operation), n <= Len(ledger), SeenUpTo(n),
         flagged \subseteq flagged',
         ledger' = ledger \/ \E o \in Operation : ledger' = Append(ledger, o)
  PROVE  SeenUpTo(n)'
<1>1. \A i \in 1 .. n : ledger'[i] = ledger[i]
  OBVIOUS
<1>2. QED
  BY <1>1 DEF SeenUpTo, Stray

LEMMA LookStep ==
  ASSUME IncomingInv, ScanLook
  PROVE  ScanInv' /\ SeenInv'
<1> DEFINE o == ledger[pos + 1]
<1>1. /\ pos + 1 \in 1 .. Len(ledger) /\ o \in Operation
      /\ ledger' = ledger /\ cursor' = cursor /\ upto' = upto /\ scanPage' = scanPage
      /\ pos' = pos + 1
      /\ scan' = IF pos + 1 = upto THEN "save" ELSE "look"
  BY DEF IncomingInv, ScanInv, ScanLook
<1>2. /\ flagged' \subseteq Operation /\ flagged \subseteq flagged'
      /\ Stray(o) => o \in flagged'
  BY <1>1, StrayIsUnmatched DEF IncomingInv, ScanInv, ScanLook, Flag
<1>3. ScanInv'
  BY <1>1, <1>2 DEF IncomingInv, ScanInv, ScanLook
<1>4. SeenUpTo(cursor)' /\ \A i \in 1 .. pos : Stray(ledger[i]) => ledger[i] \in flagged'
  BY <1>1, <1>2 DEF IncomingInv, SeenInv, SeenUpTo, Stray
<1>5. SeenUpTo(pos)'
  <2>1. ASSUME NEW i \in 1 .. (pos + 1), Stray(ledger[i])
        PROVE  ledger[i] \in flagged'
    <3>1. i \in 1 .. pos \/ i = pos + 1
      BY DEF IncomingInv, ScanInv
    <3>2. QED
      BY <1>2, <1>4, <2>1, <3>1
  <2>2. QED
    BY <1>1, <2>1 DEF SeenUpTo, Stray
<1>6. QED
  BY <1>3, <1>4, <1>5 DEF SeenInv

\* Every step keeps the scan where it may be.
LEMMA ScanStays ==
  ASSUME IncomingInv, [IncomingNext]_incomingVars
  PROVE  ScanInv'
<1> USE DEF IncomingInv
<1>1. CASE ScanCursor
  BY <1>1 DEF ScanCursor, ScanInv
<1>2. CASE ScanFetch
  <2>1. /\ PageEnd \in Nat /\ PageEnd <= Len(ledger) /\ pos <= PageEnd
    BY IncomingAssumption DEF PageEnd, ScanInv
  <2>2. CASE PageEnd = pos
    BY <1>2, <2>2, DoneInv DEF ScanFetch, ScanInv
  <2>3. CASE PageEnd # pos
    BY <1>2, <2>1, <2>3 DEF ScanFetch, ScanInv
  <2>4. QED
    BY <2>2, <2>3
<1>3. CASE ScanLook
  BY <1>3, LookStep
<1>4. ASSUME NEW answered \in BOOLEAN, ScanSave(answered)
      PROVE  ScanInv'
  <2>1. CASE answered /\ scanPage + 1 < MaxScanPages
    BY <1>4, <2>1, IncomingAssumption DEF ScanSave, ScanInv
  <2>2. CASE ScanDone
    BY <1>4, <2>2, DoneInv DEF ScanSave, ScanInv
  <2>3. QED
    BY <1>4, <2>1, <2>2 DEF ScanSave
<1>5. CASE ScanFails
  BY <1>5, DoneInv DEF ScanFails, ScanInv
<1>6. ASSUME NEW o \in Operation, Arrive(o)
      PROVE  ScanInv'
  BY <1>6 DEF Arrive, ScanInv, scanVars
<1>7. CASE IncomingCrash
  BY <1>7, DoneInv DEF IncomingCrash, ScanInv
<1>8. CASE UNCHANGED <<ledger, cursor, scanVars, flagged>>
  BY <1>8 DEF scanVars, ScanInv
<1>9. QED
  BY <1>1, <1>2, <1>3, <1>4, <1>5, <1>6, <1>7, <1>8
     DEF IncomingNext, ScanStep, ScanAnswered, ServiceRuns, incomingVars

\* And nothing stray behind the cursor or the scan unreported.
LEMMA SeenStep ==
  ASSUME IncomingInv, [IncomingNext]_incomingVars
  PROVE  SeenInv'
<1> USE DEF IncomingInv
<1>0. /\ ledger \in Seq(Operation) /\ cursor \in Nat /\ pos \in Nat /\ upto \in Nat
      /\ cursor <= Len(ledger) /\ pos <= upto /\ upto <= Len(ledger)
      /\ scan \in {"fetch", "save"} => pos = upto
      /\ SeenUpTo(cursor) /\ SeenUpTo(pos) /\ SeenUpTo(0)
  BY DEF ScanInv, SeenInv, SeenUpTo
<1>1. CASE ScanLook
  BY <1>1, LookStep
<1>2. CASE /\ flagged' = flagged
           /\ ledger' = ledger \/ \E o \in Operation : ledger' = Append(ledger, o)
           /\ cursor' \in {cursor, pos} /\ pos' \in {0, cursor, pos}
  <2>1. SeenUpTo(cursor)'
    BY <1>0, <1>2, SeenKept DEF SeenUpTo, Stray
  <2>2. SeenUpTo(pos)'
    BY <1>0, <1>2, SeenKept DEF SeenUpTo, Stray
  <2>3. QED
    BY <2>1, <2>2 DEF SeenInv
<1>3. CASE ScanStep /\ ~ScanLook
  BY <1>0, <1>2, <1>3
     DEF ScanStep, ScanAnswered, ScanCursor, ScanFetch, ScanSave, ScanFails, ScanDone
<1>4. ASSUME NEW o \in Operation, Arrive(o)
      PROVE  SeenInv'
  BY <1>2, <1>4 DEF Arrive, scanVars
<1>5. CASE IncomingCrash \/ ServiceRuns \/ UNCHANGED incomingVars
  BY <1>2, <1>5 DEF IncomingCrash, ServiceRuns, ScanDone, incomingVars, scanVars
<1>6. QED
  BY <1>1, <1>3, <1>4, <1>5 DEF IncomingNext

LEMMA IncomingInvariance == IncomingSpec => []IncomingInv
<1>1. IncomingInit => IncomingInv
  <2> SUFFICES ASSUME IncomingInit PROVE IncomingInv
    OBVIOUS
  <2>1. ServiceInv
    BY ServiceInitInv DEF IncomingInit
  <2>2. ScanInv
    BY IncomingAssumption DEF IncomingInit, ScanInv
  <2>3. SeenInv
    BY DEF IncomingInit, SeenInv, SeenUpTo
  <2>4. QED
    BY <2>1, <2>2, <2>3 DEF IncomingInv
<1>2. IncomingInv /\ [IncomingNext]_incomingVars => IncomingInv'
  BY Neighbours, ScanStays, SeenStep DEF IncomingInv
<1>3. QED
  BY <1>1, <1>2, PTL DEF IncomingSpec
-----------------------------------------------------------------------------
\* The scan stays on the page it fetched and in its budget, and the saved
\* cursor on the ledger, wherever the scan is interrupted.
THEOREM IncomingTypeCorrect == IncomingSpec => []IncomingTypeOK
<1>1. IncomingInv => IncomingTypeOK
  BY DEF IncomingInv, ServiceInv, ScanInv, IncomingTypeOK
<1>2. QED
  BY IncomingInvariance, <1>1, PTL

\* No saved cursor ever passes a stray payment nobody was alerted to, for any
\* page size and budget, and whatever withdrawals are started meanwhile.
THEOREM StraySafe == IncomingSpec => []NoStrayPassed
<1>1. IncomingInv => NoStrayPassed
  BY DEF IncomingInv, SeenInv, SeenUpTo, NoStrayPassed
<1>2. QED
  BY IncomingInvariance, <1>1, PTL
=============================================================================
