------------------------- MODULE Remediation_proofs -------------------------
(***************************************************************************)
(* Proofs about Remediation: its invariants hold of every instance, and it *)
(* implements RemediationLifecycle, when an action has at most one         *)
(* reconciliation in flight; with prompt executors and truthful evidence,  *)
(* its work is done at most once.                                          *)
(***************************************************************************)
EXTENDS Remediation, TLAPS

\* An executor's memory is empty, or names an action and an attempt number.
ExecutorMemory ==
    \A e \in Executors :
        /\ ex[e].pc = "idle" => ex[e] = Idle
        /\ ex[e].pc # "idle" => ex[e].action \in Actions /\ ex[e].n \in AttemptNumbers
        /\ ex[e].pc = "returned" => ex[e].outcome \in ProviderOutcome

\* A claim spends from a budget that is not exhausted; an unknown row has the
\* attempt that made it so as its last one.
BudgetLeft ==
    \A a \in Actions :
        /\ status[a] = "executing" => attemptCount[a] < MaxAttempts
        /\ status[a] = "execution_unknown" =>
              attemptCount[a] > 0 /\ attempts[a][attemptCount[a]] = "unknown"

\* What a reconciler read is still so when it writes: nothing but another
\* reconciliation moves a row out of 'execution_unknown'.
ReadStillTrue ==
    \A r \in Reconcilers :
        rec[r] = NotReading \/
            /\ rec[r].action \in Actions
            /\ rec[r].outcome \in Verdict
            /\ status[rec[r].action] = "execution_unknown"
            /\ rec[r].seen = attemptCount[rec[r].action]
            /\ \A s \in Reconcilers : rec[s].action = rec[r].action => s = r

\* Nobody has judged an attempt that is not recorded.
VerdictsAreRecorded ==
    \A a \in Actions, n \in AttemptNumbers :
        verdict[a][n] # "none" => n <= attemptCount[a]

IInv ==
    /\ TypeOK
    /\ LedgerExact
    /\ ClaimsAreFenced
    /\ UncertaintyIsSettled
    /\ ExecutedIffEvidenced
    /\ ExecutorMemory
    /\ BudgetLeft
    /\ ReadStillTrue
    /\ VerdictsAreRecorded

-----------------------------------------------------------------------------
USE DEF Actors, AttemptNumbers, Status, Terminal, ProviderOutcome,
        AttemptOutcome, Verdict, Enough, ExecutorRecord

LEMMA InitHolds == Init => IInv
<1> USE ConstantsAssumption
<1> SUFFICES ASSUME Init PROVE IInv
  OBVIOUS
<1>1. TypeOK
  BY DEF Init, TypeOK, Idle, NotReading
<1>2. LedgerExact /\ UncertaintyIsSettled /\ ExecutedIffEvidenced
  BY DEF Init, LedgerExact, UncertaintyIsSettled, ExecutedIffEvidenced, Evidenced
<1>3. ClaimsAreFenced /\ ExecutorMemory
  BY DEF Init, ClaimsAreFenced, ExecutorMemory, InFlight, Idle
<1>4. BudgetLeft /\ ReadStillTrue /\ VerdictsAreRecorded
  BY DEF Init, BudgetLeft, ReadStillTrue, VerdictsAreRecorded
<1> QED
  BY <1>1, <1>2, <1>3, <1>4 DEF IInv

-----------------------------------------------------------------------------
(* Most steps leave the ledger alone and move a row, if at all, between    *)
(* statuses that claim nothing about it.                                   *)

LEMMA QuietLedger ==
  ASSUME IInv, UNCHANGED <<attemptCount, attempts, verdict>>,
         status' \in [Actions -> Status],
         \A a \in Actions :
            \/ status'[a] = status[a]
            \/ /\ status[a] \notin {"executed", "execution_unknown"}
               /\ status'[a] \notin {"executed", "execution_unknown"}
  PROVE  LedgerExact' /\ VerdictsAreRecorded' /\ UncertaintyIsSettled'
         /\ ExecutedIffEvidenced'
<1>1. LedgerExact' /\ VerdictsAreRecorded'
  BY DEF IInv, LedgerExact, VerdictsAreRecorded
<1>2. UncertaintyIsSettled'
  BY DEF IInv, UncertaintyIsSettled
<1>3. \A a \in Actions : Evidenced(a)' <=> Evidenced(a)
  BY DEF Evidenced
<1>4. ExecutedIffEvidenced'
  BY <1>3 DEF IInv, ExecutedIffEvidenced
<1> QED
  BY <1>1, <1>2, <1>4

\* Human operations and the timeout touch neither ledger nor memory.
LEMMA QuietStep ==
  ASSUME IInv, UNCHANGED <<attemptCount, attempts, verdict, ex, rec>>,
         TypeOK',
         \A a \in Actions :
            \/ status'[a] = status[a]
            \/ /\ status[a] \notin {"executed", "execution_unknown", "executing"}
               /\ status'[a] \notin {"executed", "execution_unknown", "executing"}
  PROVE  IInv'
<1> USE ConstantsAssumption
<1>1. LedgerExact' /\ VerdictsAreRecorded' /\ UncertaintyIsSettled'
      /\ ExecutedIffEvidenced'
  BY QuietLedger DEF TypeOK
<1>2. ClaimsAreFenced' /\ ExecutorMemory'
  BY DEF IInv, ClaimsAreFenced, ExecutorMemory, InFlight
<1>3. BudgetLeft'
  BY DEF IInv, BudgetLeft
<1>4. ReadStillTrue'
  BY DEF IInv, ReadStillTrue
<1> QED
  BY <1>1, <1>2, <1>3, <1>4 DEF IInv

LEMMA HumanStepHolds ==
  ASSUME IInv, NEW a \in Actions, HumanStep(a)
  PROVE  IInv'
<1> USE ConstantsAssumption DEF history
<1>1. CASE Propose(a)
  <2>1. TypeOK'
    BY <1>1 DEF Propose, TypeOK, IInv
  <2> QED
    BY <1>1, <2>1, QuietStep DEF Propose, TypeOK, IInv
<1>2. ASSUME NEW h \in Humans, Authorize(a, h)
      PROVE  IInv'
  <2>1. TypeOK'
    BY <1>2 DEF Authorize, Move, TypeOK, IInv
  <2> QED
    BY <1>2, <2>1, QuietStep DEF Authorize, Move, TypeOK, IInv
<1>3. ASSUME NEW h \in Humans, NEW to \in {"rejected", "cancelled"},
             NEW from \in SUBSET {"proposed", "approved", "failed"},
             Close(a, h, to, from)
      PROVE  IInv'
  <2>1. TypeOK'
    BY <1>3 DEF Close, Move, TypeOK, IInv
  <2> QED
    BY <1>3, <2>1, QuietStep DEF Close, Move, TypeOK, IInv
<1> QED
  BY <1>1, <1>2, <1>3 DEF HumanStep, Reject, Cancel

LEMMA TimeoutHolds ==
  ASSUME IInv, NEW a \in Actions, TimeoutPasses(a)
  PROVE  IInv'
<1>1. TypeOK'
  BY DEF TimeoutPasses, TypeOK, IInv, rows, history
<1> QED
  BY <1>1, QuietStep DEF TimeoutPasses, rows, history

-----------------------------------------------------------------------------
(* Executors.                                                              *)

LEMMA ClaimHolds ==
  ASSUME IInv, NEW e \in Executors, NEW a \in Actions, Claim(e, a)
  PROVE  IInv'
<1> USE ConstantsAssumption
<1>1. TypeOK'
  BY DEF Claim, TypeOK, IInv, Move, Claimable, rows, history
<1>2. LedgerExact' /\ VerdictsAreRecorded' /\ UncertaintyIsSettled'
      /\ ExecutedIffEvidenced'
  BY <1>1, QuietLedger DEF Claim, TypeOK, IInv, Move, Claimable, history
<1>3. ClaimsAreFenced'
  BY DEF Claim, TypeOK, IInv, ClaimsAreFenced, ExecutorMemory, InFlight, Move,
     Claimable, Idle
<1>4. ExecutorMemory' /\ BudgetLeft'
  BY DEF Claim, TypeOK, IInv, ExecutorMemory, BudgetLeft, Move, Claimable, Idle
<1>5. ReadStillTrue'
  BY DEF Claim, TypeOK, IInv, ReadStillTrue, Move, Claimable
<1> QED
  BY <1>1, <1>2, <1>3, <1>4, <1>5 DEF IInv

\* The provider's answer, a refused record and a crash change only the memory
\* of one executor, which keeps its claim or forgets it.
LEMMA MemoryHolds ==
  ASSUME IInv, NEW e \in Executors, TypeOK',
         UNCHANGED <<rows, overdue, rec, verdict>>,
         \/ ex' = [ex EXCEPT ![e] = Idle]
         \/ \E o \in ProviderOutcome :
               /\ ex[e].pc = "claimed"
               /\ ex' = [ex EXCEPT ![e].pc = "returned", ![e].outcome = o]
  PROVE  IInv'
<1> USE ConstantsAssumption DEF rows
<1>1. LedgerExact' /\ VerdictsAreRecorded' /\ UncertaintyIsSettled'
      /\ ExecutedIffEvidenced'
  BY QuietLedger DEF TypeOK
<1>2. /\ \A f \in Executors : f # e => ex'[f] = ex[f]
      /\ \/ ex'[e] = Idle
         \/ /\ ex[e].pc = "claimed" /\ ex'[e].pc = "returned"
            /\ ex'[e].action = ex[e].action /\ ex'[e].n = ex[e].n
            /\ ex'[e].outcome \in ProviderOutcome
  BY DEF TypeOK, IInv
<1>3. ExecutorMemory' /\ ClaimsAreFenced'
  <2>1. ExecutorMemory'
    BY <1>2 DEF IInv, ExecutorMemory, Idle
  <2>2. \A f \in Executors, a \in Actions : InFlight(f, a)' =>
           InFlight(f, a) /\ ex'[f].n = ex[f].n
    BY <1>2 DEF InFlight, Idle
  <2> QED
    BY <2>1, <2>2 DEF IInv, ClaimsAreFenced
<1>4. BudgetLeft' /\ ReadStillTrue'
  BY DEF IInv, BudgetLeft, ReadStillTrue
<1> QED
  BY <1>1, <1>3, <1>4 DEF IInv

\* The one transaction that writes the ledger on an executor's behalf: an
\* attempt that can still be inserted belongs to the current claim.
Settles(e, a, n, o) ==
    /\ InFlight(e, a) /\ ex[e].n = n /\ ex[e].outcome = o
    /\ status[a] = "executing" /\ n = attemptCount[a] + 1
    /\ status' = [status EXCEPT ![a] = IF o = "success" THEN "executed" ELSE "failed"]
    /\ attemptCount' = [attemptCount EXCEPT ![a] = n]
    /\ attempts' = [attempts EXCEPT ![a][n] = o]
    /\ executedBy' = [executedBy EXCEPT ![a] = IF o = "success" THEN e ELSE NoOne]
    /\ overdue' = [overdue EXCEPT ![a] = FALSE]
    /\ ex' = [ex EXCEPT ![e] = Idle]
    /\ UNCHANGED <<rec, verdict, authorizedBy, performed>>

LEMMA RecordSettles ==
  ASSUME IInv, NEW e \in Executors, Record(e)
  PROVE  \E a \in Actions, n \in AttemptNumbers, o \in ProviderOutcome :
            Settles(e, a, n, o)
<1>0. ex[e].action \in Actions /\ ex[e].n \in AttemptNumbers
      /\ ex[e].outcome \in ProviderOutcome
  BY DEF Record, IInv, ExecutorMemory
<1> PICK a \in Actions, n \in AttemptNumbers, o \in ProviderOutcome :
           a = ex[e].action /\ n = ex[e].n /\ o = ex[e].outcome
  BY <1>0
<1>1. InFlight(e, a)
  BY DEF Record, InFlight
<1>2. status[a] = "executing" /\ n = attemptCount[a] + 1
  <2>1. n > attemptCount[a]
    BY DEF Record, IInv, LedgerExact, TypeOK
  <2> QED
    BY <1>1, <2>1 DEF IInv, ClaimsAreFenced
<1>3. /\ status' = [status EXCEPT ![a] = IF o = "success" THEN "executed" ELSE "failed"]
      /\ attemptCount' = [attemptCount EXCEPT ![a] = n]
      /\ attempts' = [attempts EXCEPT ![a][n] = o]
      /\ executedBy' = [executedBy EXCEPT ![a] = IF o = "success" THEN e ELSE NoOne]
      /\ overdue' = [overdue EXCEPT ![a] = FALSE]
      /\ ex' = [ex EXCEPT ![e] = Idle]
      /\ UNCHANGED <<rec, verdict, authorizedBy, performed>>
  BY <1>2 DEF Record, SettledStatus, Move, history
<1> QED
  BY <1>1, <1>2, <1>3 DEF Settles

LEMMA RecordHolds ==
  ASSUME IInv, NEW e \in Executors, Record(e)
  PROVE  IInv'
<1> USE ConstantsAssumption
<1>0. PICK a \in Actions, n \in AttemptNumbers, o \in ProviderOutcome :
         Settles(e, a, n, o)
  BY RecordSettles
<1> DEFINE to == IF o = "success" THEN "executed" ELSE "failed"
<1>1. a \in Actions /\ n \in AttemptNumbers /\ o \in ProviderOutcome
  OBVIOUS
<1>2. status[a] = "executing" /\ n = attemptCount[a] + 1
  BY <1>0 DEF Settles
<1>3. /\ status' = [status EXCEPT ![a] = to]
      /\ attemptCount' = [attemptCount EXCEPT ![a] = n]
      /\ attempts' = [attempts EXCEPT ![a][n] = o]
      /\ executedBy' = [executedBy EXCEPT ![a] = IF to = "executed" THEN e ELSE NoOne]
      /\ overdue' = [overdue EXCEPT ![a] = FALSE]
      /\ ex' = [ex EXCEPT ![e] = Idle]
      /\ UNCHANGED <<rec, verdict, authorizedBy, performed>>
  BY <1>0 DEF Settles
<1>4. TypeOK'
  <2>1. /\ status' \in [Actions -> Status]
        /\ attemptCount' \in [Actions -> 0 .. MaxAttempts]
        /\ attempts' \in [Actions -> [AttemptNumbers -> AttemptOutcome \cup {"none"}]]
    BY <1>1, <1>3 DEF TypeOK, IInv
  <2>2. /\ executedBy' \in [Actions -> Actors \cup {NoOne}]
        /\ overdue' \in [Actions -> BOOLEAN]
    BY <1>1, <1>3 DEF TypeOK, IInv
  <2>3. Idle \in ExecutorRecord
    BY DEF Idle, ExecutorRecord
  <2>4. ex' \in [Executors -> ExecutorRecord]
    BY <1>3, <2>3 DEF TypeOK, IInv
  <2> QED
    BY <1>3, <2>1, <2>2, <2>4 DEF TypeOK, IInv
<1>5. LedgerExact' /\ VerdictsAreRecorded'
  BY <1>1, <1>2, <1>3 DEF IInv, TypeOK, LedgerExact, VerdictsAreRecorded
<1>6. UncertaintyIsSettled'
  BY <1>1, <1>2, <1>3 DEF IInv, TypeOK, UncertaintyIsSettled
<1>7. ExecutedIffEvidenced'
  <2>1. \A b \in Actions : b # a => (Evidenced(b)' <=> Evidenced(b))
    BY <1>1, <1>3 DEF Evidenced, IInv, TypeOK
  <2>2. Evidenced(a)' <=> o = "success"
    <3>1. ~Evidenced(a)
      BY <1>1, <1>2 DEF IInv, ExecutedIffEvidenced
    <3> QED
      BY <1>1, <1>3, <3>1 DEF Evidenced, IInv, TypeOK
  <2> QED
    BY <1>1, <1>2, <1>3, <2>1, <2>2 DEF IInv, TypeOK, ExecutedIffEvidenced
<1>8. ExecutorMemory'
  BY <1>1, <1>3 DEF IInv, TypeOK, ExecutorMemory, Idle
<1>9. ClaimsAreFenced'
  <2>1. \A f \in Executors, b \in Actions : InFlight(f, b)' =>
           InFlight(f, b) /\ f # e /\ ex'[f] = ex[f]
    BY <1>3 DEF InFlight, Idle, IInv, TypeOK
  <2>2. InFlight(e, a) /\ ex[e].n = n
    BY <1>0 DEF Settles
  <2>3. \A f \in Executors : InFlight(f, a) /\ f # e => ex[f].n <= attemptCount[a]
    <3> SUFFICES ASSUME NEW f \in Executors, InFlight(f, a), f # e
                 PROVE  ex[f].n <= attemptCount[a]
      OBVIOUS
    <3>1. ex[f].n # n
      BY <2>2 DEF IInv, ClaimsAreFenced
    <3>2. ex[f].n > attemptCount[a] => ex[f].n = attemptCount[a] + 1
      BY DEF IInv, ClaimsAreFenced
    <3>3. ex[f].n \in Int /\ attemptCount[a] \in Int
      BY DEF IInv, TypeOK
    <3> QED
      BY <1>2, <3>1, <3>2, <3>3
  <2> QED
    BY <1>1, <1>2, <1>3, <2>1, <2>3 DEF IInv, ClaimsAreFenced, TypeOK
<1>10. BudgetLeft'
  BY <1>1, <1>2, <1>3 DEF IInv, TypeOK, BudgetLeft
<1>11. ReadStillTrue'
  BY <1>1, <1>2, <1>3 DEF IInv, TypeOK, ReadStillTrue
<1> QED
  BY <1>4, <1>5, <1>6, <1>7, <1>8, <1>9, <1>10, <1>11 DEF IInv

LEMMA ExecutorStepHolds ==
  ASSUME IInv, NEW e \in Executors, ExecutorStep(e)
  PROVE  IInv'
<1>1. ASSUME NEW a \in Actions, Claim(e, a) PROVE IInv'
  BY <1>1, ClaimHolds
<1>2. ASSUME ProviderStep(e) PROVE IInv'
  <2>1. PICK o \in ProviderOutcome :
           /\ ProviderAnswers(e, o)
           /\ Perform(e) \/ UNCHANGED performed
    BY <1>2 DEF ProviderStep, ProviderReturns, ProviderRaises
  <2>2. PICK a \in Actions, n \in AttemptNumbers : a = ex[e].action /\ n = ex[e].n
    BY <2>1 DEF ProviderAnswers, IInv, ExecutorMemory
  <2>3. performed' \in [Actions -> [AttemptNumbers -> 0 .. Enough]]
    <3>1. /\ performed[a] \in [AttemptNumbers -> 0 .. Enough]
          /\ performed \in [Actions -> [AttemptNumbers -> 0 .. Enough]]
      BY DEF TypeOK, IInv
    <3>2. \A k \in 0 .. Enough : (IF k < Enough THEN k + 1 ELSE k) \in 0 .. Enough
      OBVIOUS
    <3> DEFINE more == IF performed[a][n] < Enough THEN performed[a][n] + 1
                                                    ELSE performed[a][n]
    <3>3. more \in 0 .. Enough
      BY <3>1, <3>2
    <3>4. performed' = performed
          \/ performed' = [performed EXCEPT ![a] = [performed[a] EXCEPT ![n] = more]]
      BY <2>1, <2>2, <3>1 DEF Perform
    <3>5. [performed[a] EXCEPT ![n] = more] \in [AttemptNumbers -> 0 .. Enough]
      BY <3>1, <3>3
    <3> HIDE DEF more
    <3> QED
      BY <3>1, <3>4, <3>5
  <2>4. ex' \in [Executors -> ExecutorRecord]
    <3>1. ex[e] \in ExecutorRecord /\ ex \in [Executors -> ExecutorRecord]
      BY DEF TypeOK, IInv
    <3>2. [ex[e] EXCEPT !.pc = "returned", !.outcome = o] \in ExecutorRecord
      BY <3>1
    <3> HIDE DEF ExecutorRecord
    <3> QED
      BY <2>1, <3>1, <3>2 DEF ProviderAnswers
  <2>5. TypeOK'
    BY <2>1, <2>3, <2>4 DEF ProviderAnswers, TypeOK, IInv, rows
  <2> QED
    BY <2>1, <2>5, MemoryHolds DEF ProviderAnswers, rows
<1>3. ASSUME Record(e) PROVE IInv'
  BY <1>3, RecordHolds
<1>4. ASSUME RecordRefused(e) \/ Crash(e) PROVE IInv'
  <2>1. Idle \in ExecutorRecord
    BY ConstantsAssumption DEF Idle, ExecutorRecord
  <2>2. ex' \in [Executors -> ExecutorRecord]
    BY <1>4, <2>1 DEF RecordRefused, Crash, TypeOK, IInv
  <2>3. TypeOK'
    BY <1>4, <2>2 DEF RecordRefused, Crash, TypeOK, IInv, rows, history
  <2> QED
    BY <1>4, <2>3, MemoryHolds DEF RecordRefused, Crash, history
<1> QED
  BY <1>1, <1>2, <1>3, <1>4 DEF ExecutorStep

-----------------------------------------------------------------------------
(* Recovery and reconciliation.                                            *)

\* Recovery takes every stranded row at once: the attempt it writes is the
\* one the lost claim would have written, so that claim is fenced off.
LEMMA RecoverHolds ==
  ASSUME IInv, RecoverStale
  PROVE  IInv'
<1> USE ConstantsAssumption
<1>1. \A a \in Stranded : /\ a \in Actions /\ status[a] = "executing"
                          /\ attemptCount[a] + 1 \in AttemptNumbers
                          /\ attempts[a][attemptCount[a] + 1] = "none"
  BY DEF Stranded, IInv, TypeOK, BudgetLeft, LedgerExact
<1>2. \A a \in Stranded : /\ status'[a] = "execution_unknown"
                          /\ attemptCount'[a] = attemptCount[a] + 1
                          /\ attempts'[a] = [attempts[a] EXCEPT ![attemptCount[a] + 1] = "unknown"]
  BY <1>1 DEF RecoverStale, RecoveredCount
<1>3. \A a \in Actions \ Stranded : /\ status'[a] = status[a]
                                    /\ attemptCount'[a] = attemptCount[a]
                                    /\ attempts'[a] = attempts[a]
  BY DEF RecoverStale, RecoveredCount
<1>4. UNCHANGED <<ex, rec, verdict, performed, authorizedBy>>
  BY DEF RecoverStale, RecoveredCount, history
<1>5. TypeOK'
  <2>1. status' \in [Actions -> Status]
    BY <1>1 DEF RecoverStale, RecoveredCount, TypeOK, IInv
  <2>2. attemptCount' \in [Actions -> 0 .. MaxAttempts]
    BY <1>1 DEF RecoverStale, RecoveredCount, TypeOK, IInv
  <2>3. attempts' \in [Actions -> [AttemptNumbers -> AttemptOutcome \cup {"none"}]]
    BY <1>1 DEF RecoverStale, RecoveredCount, TypeOK, IInv
  <2>4. /\ executedBy' \in [Actions -> Actors \cup {NoOne}]
        /\ overdue' \in [Actions -> BOOLEAN]
    BY DEF RecoverStale, RecoveredCount, TypeOK, IInv
  <2> QED
    BY <1>4, <2>1, <2>2, <2>3, <2>4 DEF TypeOK, IInv
<1>6. \A a \in Actions : /\ attemptCount[a] \in Nat
                         /\ attempts[a] \in [AttemptNumbers -> AttemptOutcome \cup {"none"}]
  BY DEF TypeOK, IInv
<1>7. \A a \in Stranded, n \in AttemptNumbers :
         attempts'[a][n] = IF n = attemptCount[a] + 1 THEN "unknown" ELSE attempts[a][n]
  <2> SUFFICES ASSUME NEW a \in Stranded, NEW n \in AttemptNumbers
               PROVE  attempts'[a][n] = IF n = attemptCount[a] + 1 THEN "unknown"
                                                                  ELSE attempts[a][n]
    OBVIOUS
  <2>1. attempts[a] \in [AttemptNumbers -> AttemptOutcome \cup {"none"}]
    BY <1>1, <1>6
  <2>2. attempts'[a] = [attempts[a] EXCEPT ![attemptCount[a] + 1] = "unknown"]
    BY <1>2
  <2> QED
    BY <2>1, <2>2
<1>7b. ASSUME NEW a \in Actions, a \in Stranded
       PROVE  /\ status[a] = "executing" /\ status'[a] = "execution_unknown"
              /\ attemptCount[a] \in Nat /\ attemptCount[a] + 1 \in AttemptNumbers
              /\ attemptCount'[a] = attemptCount[a] + 1
              /\ attempts[a][attemptCount[a] + 1] = "none"
              /\ \A n \in AttemptNumbers : attempts'[a][n] =
                    IF n = attemptCount[a] + 1 THEN "unknown" ELSE attempts[a][n]
  <2>1. /\ status[a] = "executing" /\ attemptCount[a] + 1 \in AttemptNumbers
        /\ attempts[a][attemptCount[a] + 1] = "none"
    BY <1>7b, <1>1
  <2>2. status'[a] = "execution_unknown" /\ attemptCount'[a] = attemptCount[a] + 1
    BY <1>7b, <1>2
  <2> QED
    BY <1>7b, <1>6, <1>7, <2>1, <2>2
<1>8. LedgerExact' /\ VerdictsAreRecorded'
  <2> SUFFICES ASSUME NEW a \in Actions, NEW n \in AttemptNumbers
               PROVE  /\ attempts'[a][n] # "none" <=> n <= attemptCount'[a]
                      /\ verdict[a][n] # "none" => n <= attemptCount'[a]
    BY <1>4 DEF LedgerExact, VerdictsAreRecorded
  <2>1. /\ attempts[a][n] # "none" <=> n <= attemptCount[a]
        /\ verdict[a][n] # "none" => n <= attemptCount[a]
    BY DEF IInv, LedgerExact, VerdictsAreRecorded
  <2>2. CASE a \in Stranded
    BY <1>7b, <2>1, <2>2
  <2>3. CASE a \notin Stranded
    BY <1>3, <2>1, <2>3
  <2> QED
    BY <2>2, <2>3
<1>9. UncertaintyIsSettled'
  <2> SUFFICES ASSUME NEW a \in Actions, NEW n \in AttemptNumbers,
                      attempts'[a][n] = "unknown"
               PROVE  \/ verdict[a][n] = "confirmed_not_executed"
                      \/ n = attemptCount'[a] /\ status'[a] = "execution_unknown"
                      \/ /\ n = attemptCount'[a] /\ status'[a] = "executed"
                         /\ verdict[a][n] = "confirmed_executed"
    BY <1>4 DEF UncertaintyIsSettled
  <2>1. CASE a \in Stranded
    BY <1>7b, <2>1 DEF IInv, UncertaintyIsSettled
  <2>2. CASE a \notin Stranded
    BY <1>3, <2>2 DEF IInv, UncertaintyIsSettled
  <2> QED
    BY <2>1, <2>2
<1>10. ExecutedIffEvidenced'
  <2>1. \A a \in Actions \ Stranded : Evidenced(a)' <=> Evidenced(a)
    BY <1>3, <1>4 DEF Evidenced
  <2>2. \A a \in Stranded : ~Evidenced(a)
    BY <1>1 DEF IInv, ExecutedIffEvidenced
  <2>3. \A a \in Stranded : verdict[a][attemptCount[a] + 1] = "none"
    BY <1>1, <1>6 DEF IInv, VerdictsAreRecorded
  <2>4. \A a \in Stranded : ~Evidenced(a)'
    BY <1>4, <1>7, <2>2, <2>3 DEF Evidenced
  <2> QED
    BY <1>2, <1>3, <2>1, <2>4 DEF IInv, ExecutedIffEvidenced
<1>11. ExecutorMemory' /\ ClaimsAreFenced'
  <2> SUFFICES ASSUME NEW a \in Actions, NEW e \in Executors, InFlight(e, a),
                      ex[e].n > attemptCount'[a]
               PROVE  status'[a] = "executing" /\ ex[e].n = attemptCount'[a] + 1
    BY <1>4 DEF IInv, ExecutorMemory, ClaimsAreFenced, InFlight
  <2>1. ex[e].n > attemptCount[a] =>
           status[a] = "executing" /\ ex[e].n = attemptCount[a] + 1
    BY DEF IInv, ClaimsAreFenced
  <2>2. ex[e].n \in Int
    BY DEF IInv, ExecutorMemory, InFlight
  <2>3. CASE a \in Stranded
    BY <1>7b, <2>1, <2>2, <2>3
  <2>4. CASE a \notin Stranded
    BY <1>3, <2>1, <2>4
  <2> QED
    BY <2>3, <2>4
<1>12. BudgetLeft'
  <2> SUFFICES ASSUME NEW a \in Actions
               PROVE  /\ status'[a] = "executing" => attemptCount'[a] < MaxAttempts
                      /\ status'[a] = "execution_unknown" =>
                            /\ attemptCount'[a] > 0
                            /\ attempts'[a][attemptCount'[a]] = "unknown"
    BY DEF BudgetLeft
  <2>1. CASE a \in Stranded
    BY <1>7b, <2>1
  <2>2. CASE a \notin Stranded
    BY <1>3, <2>2 DEF IInv, BudgetLeft
  <2> QED
    BY <2>1, <2>2
<1>13. ReadStillTrue'
  BY <1>1, <1>2, <1>3, <1>4 DEF IInv, TypeOK, ReadStillTrue
<1> QED
  BY <1>5, <1>8, <1>9, <1>10, <1>11, <1>12, <1>13 DEF IInv

LEMMA ReconcileReadHolds ==
  ASSUME IInv, SerialReconcile, NEW r \in Reconcilers, NEW a \in Actions,
         NEW v \in Verdict, ReconcileRead(r, a, v)
  PROVE  IInv'
<1> USE ConstantsAssumption DEF rows, history
<1>1. TypeOK'
  BY DEF ReconcileRead, TypeOK, IInv
<1>2. LedgerExact' /\ VerdictsAreRecorded' /\ UncertaintyIsSettled'
      /\ ExecutedIffEvidenced'
  BY QuietLedger DEF ReconcileRead, TypeOK, IInv
<1>3. ClaimsAreFenced' /\ ExecutorMemory' /\ BudgetLeft'
  BY DEF ReconcileRead, IInv, ClaimsAreFenced, ExecutorMemory, InFlight, BudgetLeft
<1>4. ReadStillTrue'
  BY DEF ReconcileRead, TypeOK, IInv, ReadStillTrue, NotReading
<1> QED
  BY <1>1, <1>2, <1>3, <1>4 DEF IInv

LEMMA ReconcileFailsHolds ==
  ASSUME IInv, NEW r \in Reconcilers, ReconcileFails(r)
  PROVE  IInv'
<1> USE ConstantsAssumption DEF rows, history
<1>1. TypeOK'
  BY DEF ReconcileFails, TypeOK, IInv, NotReading
<1>2. LedgerExact' /\ VerdictsAreRecorded' /\ UncertaintyIsSettled'
      /\ ExecutedIffEvidenced'
  BY QuietLedger DEF ReconcileFails, TypeOK, IInv
<1>3. ClaimsAreFenced' /\ ExecutorMemory' /\ BudgetLeft'
  BY DEF ReconcileFails, IInv, ClaimsAreFenced, ExecutorMemory, InFlight, BudgetLeft
<1>4. ReadStillTrue'
  BY DEF ReconcileFails, TypeOK, IInv, ReadStillTrue, NotReading
<1> QED
  BY <1>1, <1>2, <1>3, <1>4 DEF IInv

\* The late UPDATE finds what the SELECT found, so the judgement lands on the
\* attempt it is about.
Judges(r, a, v) ==
    /\ rec[r].action = a /\ rec[r] # NotReading
    /\ status[a] = "execution_unknown" /\ attemptCount[a] \in AttemptNumbers
    /\ attempts[a][attemptCount[a]] = "unknown"
    /\ status' = [status EXCEPT ![a] =
                     IF v = "confirmed_executed" THEN "executed" ELSE "failed"]
    /\ attemptCount' = attemptCount
    /\ executedBy' \in {executedBy, [executedBy EXCEPT ![a] = r]}
    /\ overdue' = [overdue EXCEPT ![a] = FALSE]
    /\ verdict' = [verdict EXCEPT ![a] = [verdict[a] EXCEPT ![attemptCount[a]] = v]]
    /\ rec' = [rec EXCEPT ![r] = NotReading]
    /\ UNCHANGED <<authorizedBy, attempts, ex, performed>>

LEMMA ReconcileJudges ==
  ASSUME IInv, NEW r \in Reconcilers, ReconcileWrite(r)
  PROVE  \E a \in Actions, v \in Verdict :
            Judges(r, a, v)
<1> USE ConstantsAssumption
<1>0. /\ rec[r].action \in Actions /\ rec[r].outcome \in Verdict
      /\ rec[r] # NotReading
      /\ status[rec[r].action] = "execution_unknown"
      /\ rec[r].seen = attemptCount[rec[r].action]
  BY DEF ReconcileWrite, IInv, ReadStillTrue
<1> PICK a \in Actions, v \in Verdict : a = rec[r].action /\ v = rec[r].outcome
  BY <1>0
<1>1. /\ status[a] = "execution_unknown" /\ rec[r].seen = attemptCount[a]
      /\ attemptCount[a] \in AttemptNumbers
      /\ attempts[a][attemptCount[a]] = "unknown"
  BY <1>0 DEF IInv, TypeOK, BudgetLeft
<1>2. /\ status' = [status EXCEPT ![a] =
                       IF v = "confirmed_executed" THEN "executed" ELSE "failed"]
      /\ attemptCount' = attemptCount
      /\ executedBy' \in {executedBy, [executedBy EXCEPT ![a] = r]}
      /\ overdue' = [overdue EXCEPT ![a] = FALSE]
      /\ verdict' = [verdict EXCEPT ![a] = [verdict[a] EXCEPT ![attemptCount[a]] = v]]
      /\ rec' = [rec EXCEPT ![r] = NotReading]
      /\ UNCHANGED <<authorizedBy, attempts, ex, performed>>
  BY <1>0, <1>1 DEF ReconcileWrite, JudgedCount, Move, IInv, TypeOK
<1> QED
  BY <1>0, <1>1, <1>2 DEF Judges

LEMMA ReconcileWriteHolds ==
  ASSUME IInv, NEW r \in Reconcilers, ReconcileWrite(r)
  PROVE  IInv'
<1> USE ConstantsAssumption
<1>0. PICK a \in Actions, v \in Verdict : Judges(r, a, v)
  BY ReconcileJudges
<1> DEFINE to == IF v = "confirmed_executed" THEN "executed" ELSE "failed"
<1>1. /\ status[a] = "execution_unknown"
      /\ attemptCount[a] \in AttemptNumbers
      /\ attempts[a][attemptCount[a]] = "unknown"
  BY <1>0 DEF Judges
<1>2. /\ status' = [status EXCEPT ![a] = to]
      /\ attemptCount' = attemptCount
      /\ executedBy' \in {executedBy, [executedBy EXCEPT ![a] = r]}
      /\ overdue' = [overdue EXCEPT ![a] = FALSE]
      /\ verdict' = [verdict EXCEPT ![a] = [verdict[a] EXCEPT ![attemptCount[a]] = v]]
      /\ rec' = [rec EXCEPT ![r] = NotReading]
      /\ UNCHANGED <<authorizedBy, attempts, ex, performed>>
  BY <1>0 DEF Judges
<1>3. /\ verdict[a] \in [AttemptNumbers -> Verdict \cup {"none"}]
      /\ \A n \in AttemptNumbers : verdict'[a][n] =
            IF n = attemptCount[a] THEN v ELSE verdict[a][n]
      /\ \A b \in Actions : b # a => verdict'[b] = verdict[b] /\ status'[b] = status[b]
      /\ status'[a] = to
  BY <1>1, <1>2 DEF IInv, TypeOK
<1>4. TypeOK'
  <2>1. [verdict[a] EXCEPT ![attemptCount[a]] = v] \in [AttemptNumbers -> Verdict \cup {"none"}]
    BY <1>1, <1>3
  <2>2. verdict' \in [Actions -> [AttemptNumbers -> Verdict \cup {"none"}]]
    BY <1>2, <2>1 DEF IInv, TypeOK
  <2>3. rec' \in [Reconcilers -> [action : Actions \cup {NoOne},
                                  outcome : Verdict \cup {"none"},
                                  seen : 0 .. MaxAttempts]]
    BY <1>2 DEF IInv, TypeOK, NotReading
  <2>4. status' \in [Actions -> Status]
    BY <1>2 DEF IInv, TypeOK
  <2>5. executedBy' \in [Actions -> Actors \cup {NoOne}]
    BY <1>2 DEF IInv, TypeOK
  <2>6. /\ attemptCount' \in [Actions -> 0 .. MaxAttempts]
        /\ overdue' \in [Actions -> BOOLEAN]
    BY <1>2 DEF IInv, TypeOK
  <2> QED
    BY <1>2, <2>2, <2>3, <2>4, <2>5, <2>6 DEF IInv, TypeOK
<1>5. LedgerExact' /\ VerdictsAreRecorded'
  BY <1>1, <1>2, <1>3 DEF IInv, LedgerExact, VerdictsAreRecorded
<1>6. UncertaintyIsSettled'
  BY <1>1, <1>2, <1>3 DEF IInv, UncertaintyIsSettled
<1>7. ExecutedIffEvidenced'
  <2>1. \A b \in Actions : b # a => (Evidenced(b)' <=> Evidenced(b))
    BY <1>2, <1>3 DEF Evidenced
  <2>2. ~Evidenced(a)
    BY <1>1 DEF IInv, ExecutedIffEvidenced
  <2>3. Evidenced(a)' <=> v = "confirmed_executed"
    BY <1>1, <1>2, <1>3, <2>2 DEF Evidenced
  <2> QED
    BY <1>3, <2>1, <2>3 DEF IInv, ExecutedIffEvidenced
<1>8. ExecutorMemory' /\ ClaimsAreFenced'
  BY <1>1, <1>2, <1>3 DEF IInv, ExecutorMemory, ClaimsAreFenced, InFlight
<1>9. BudgetLeft'
  BY <1>2, <1>3 DEF IInv, BudgetLeft
<1>10. ReadStillTrue'
  <2> SUFFICES ASSUME NEW s \in Reconcilers, rec'[s] # NotReading
               PROVE  /\ rec'[s].action \in Actions /\ rec'[s].outcome \in Verdict
                      /\ status'[rec'[s].action] = "execution_unknown"
                      /\ rec'[s].seen = attemptCount'[rec'[s].action]
                      /\ \A q \in Reconcilers :
                            rec'[q].action = rec'[s].action => q = s
    BY DEF ReadStillTrue
  <2>1. s # r /\ rec'[s] = rec[s]
    BY <1>2 DEF IInv, TypeOK
  <2>2. rec[s].action # a
    BY <1>0, <2>1 DEF IInv, ReadStillTrue, Judges
  <2>3. \A q \in Reconcilers : rec'[q] = rec[q] \/ rec'[q].action = NoOne
    BY <1>2 DEF IInv, TypeOK, NotReading
  <2> QED
    BY <1>2, <1>3, <2>1, <2>2, <2>3 DEF IInv, ReadStillTrue
<1> QED
  BY <1>4, <1>5, <1>6, <1>7, <1>8, <1>9, <1>10 DEF IInv

-----------------------------------------------------------------------------
LEMMA NextHolds ==
  ASSUME IInv, SerialReconcile, [Next]_vars
  PROVE  IInv'
<1>1. ASSUME NEW a \in Actions, HumanStep(a) PROVE IInv'
  BY <1>1, HumanStepHolds
<1>2. ASSUME NEW a \in Actions, TimeoutPasses(a) PROVE IInv'
  BY <1>2, TimeoutHolds
<1>3. ASSUME NEW e \in Executors, ExecutorStep(e) PROVE IInv'
  BY <1>3, ExecutorStepHolds
<1>4. CASE RecoverStale
  BY <1>4, RecoverHolds
<1>5. ASSUME NEW r \in Reconcilers, ReconcilerStep(r) PROVE IInv'
  BY <1>5, ReconcileReadHolds, ReconcileWriteHolds, ReconcileFailsHolds
     DEF ReconcilerStep
<1>6. CASE UNCHANGED vars
  BY <1>6 DEF vars, IInv, TypeOK, LedgerExact, ClaimsAreFenced, InFlight,
     UncertaintyIsSettled, ExecutedIffEvidenced, Evidenced, ExecutorMemory,
     BudgetLeft, ReadStillTrue, VerdictsAreRecorded
<1> QED
  BY <1>1, <1>2, <1>3, <1>4, <1>5, <1>6 DEF Next

\* Every reachable state satisfies the inductive invariant, when nobody
\* reconciles an action that somebody else is reconciling.
THEOREM Inductive ==
  ASSUME SerialReconcile
  PROVE  Spec => []IInv
<1>1. Init => IInv
  BY InitHolds
<1>2. IInv /\ [Next]_vars => IInv'
  BY NextHolds
<1> QED
  BY <1>1, <1>2, PTL DEF Spec

\* Every variable keeps its type: in particular an attempt is never numbered
\* past the retry budget, although recovery increments the counter blindly.
THEOREM TypeCorrect ==
  ASSUME SerialReconcile
  PROVE  Spec => []TypeOK
<1>1. IInv => TypeOK
  BY DEF IInv
<1> QED
  BY <1>1, Inductive, PTL

\* The attempt rows of an action are exactly those its counter says it has.
THEOREM LedgerIsExact ==
  ASSUME SerialReconcile
  PROVE  Spec => []LedgerExact
<1>1. IInv => LedgerExact
  BY DEF IInv
<1> QED
  BY <1>1, Inductive, PTL

\* The attempt number fences off every executor whose claim was taken away,
\* for any number of executors and any retry budget.
THEOREM ClaimsFenced ==
  ASSUME SerialReconcile
  PROVE  Spec => []ClaimsAreFenced
<1>1. IInv => ClaimsAreFenced
  BY DEF IInv
<1> QED
  BY <1>1, Inductive, PTL

\* No action leaves uncertainty behind without a human's judgement on the
\* attempt that was uncertain.
THEOREM UncertaintySettled ==
  ASSUME SerialReconcile
  PROVE  Spec => []UncertaintyIsSettled
<1>1. IInv => UncertaintyIsSettled
  BY DEF IInv
<1> QED
  BY <1>1, Inductive, PTL

\* An action is executed exactly when its ledger holds evidence of it.
THEOREM ExecutedHasEvidence ==
  ASSUME SerialReconcile
  PROVE  Spec => []ExecutedIffEvidenced
<1>1. IInv => ExecutedIffEvidenced
  BY DEF IInv
<1> QED
  BY <1>1, Inductive, PTL

-----------------------------------------------------------------------------
(* What a step may do to a claimed action.                                 *)

\* A claimed action is settled only by the executor that holds the claim, and
\* by the attempt row that executor writes.
THEOREM OnlyClaimantSettles ==
  ASSUME SerialReconcile
  PROVE  Spec => ClaimantSettles
<1> DEFINE Justified(a) ==
       status[a] = "executing" /\ status'[a] \in {"executed", "failed"} =>
          \E e \in Executors :
              /\ InFlight(e, a) /\ ex'[e] = Idle
              /\ attempts'[a][attemptCount'[a]] = ex[e].outcome
              /\ attemptCount'[a] = attemptCount[a] + 1
<1>1. ASSUME IInv, [Next]_vars, NEW a \in Actions
      PROVE  Justified(a)
  <2>1. ASSUME NEW b \in Actions, HumanStep(b) \/ TimeoutPasses(b)
        PROVE  Justified(a)
    BY <1>1, <2>1 DEF IInv, TypeOK, HumanStep, Propose, Authorize, Reject,
       Cancel, Close, Move, TimeoutPasses, rows
  <2>2. ASSUME NEW e \in Executors, ExecutorStep(e)
        PROVE  Justified(a)
    <3>1. CASE Record(e)
      <4>1. PICK b \in Actions, n \in AttemptNumbers, o \in ProviderOutcome :
               Settles(e, b, n, o)
        BY <1>1, <3>1, RecordSettles
      <4>2. CASE a = b
        <5>1. attemptCount'[a] = n /\ attempts'[a][n] = o /\ ex'[e] = Idle
          BY <1>1, <4>1, <4>2 DEF IInv, TypeOK, Settles
        <5> QED
          BY <4>1, <4>2, <5>1 DEF Settles
      <4>3. CASE a # b
        BY <1>1, <4>1, <4>3 DEF IInv, TypeOK, Settles
      <4> QED
        BY <4>2, <4>3
    <3>2. CASE ~Record(e)
      BY <1>1, <2>2, <3>2 DEF IInv, TypeOK, ExecutorStep, Claim, Move,
         ProviderStep, ProviderReturns, ProviderRaises, ProviderAnswers,
         RecordRefused, Crash, rows
    <3> QED
      BY <3>1, <3>2
  <2>3. ASSUME RecoverStale
        PROVE  Justified(a)
    BY <1>1, <2>3 DEF RecoverStale, RecoveredCount
  <2>4. ASSUME NEW r \in Reconcilers, ReconcilerStep(r)
        PROVE  Justified(a)
    <3>1. CASE ReconcileWrite(r)
      BY <1>1, <3>1, ReconcileJudges DEF IInv, TypeOK, Judges
    <3>2. CASE ~ReconcileWrite(r)
      BY <1>1, <2>4, <3>2 DEF ReconcilerStep, ReconcileRead, ReconcileFails, rows
    <3> QED
      BY <3>1, <3>2
  <2>5. CASE UNCHANGED vars
    BY <2>5 DEF vars
  <2> QED
    BY <1>1, <2>1, <2>2, <2>3, <2>4, <2>5 DEF Next
<1>2. IInv /\ [Next]_vars => [\A a \in Actions : Justified(a)]_vars
  BY <1>1
<1> QED
  BY <1>2, Inductive, PTL DEF Spec, ClaimantSettles

-----------------------------------------------------------------------------
(* Refinement of the abstract lifecycle.                                   *)

phaseBar == [a \in Actions |-> PhaseOf(status[a])]

\* A row that moves alone moves its phase alone.
LEMMA PhaseMoves ==
  ASSUME TypeOK, NEW a \in Actions, NEW to, status' = [status EXCEPT ![a] = to]
  PROVE  phaseBar' = [phaseBar EXCEPT ![a] = PhaseOf(to)]
  BY DEF TypeOK, phaseBar

\* Every step, read through status and attempt_count, is one of the
\* lifecycle's or leaves it where it is.
LEMMA StepRefines ==
  ASSUME IInv, [Next]_vars
  PROVE  [Lifecycle!Next]_<<phaseBar, attemptCount>>
<1> USE DEF Lifecycle!Next, Lifecycle!Become, PhaseOf
<1>0. TypeOK
  BY DEF IInv
<1>1. ASSUME NEW a \in Actions, HumanStep(a)
      PROVE  Lifecycle!Propose(a) \/ Lifecycle!Authorise(a) \/ Lifecycle!Close(a)
  <2>1. CASE Propose(a)
    BY <1>0, <2>1, PhaseMoves DEF Propose, Lifecycle!Propose, phaseBar
  <2>2. ASSUME NEW h \in Humans, Authorize(a, h)
        PROVE  Lifecycle!Authorise(a)
    BY <1>0, <2>2, PhaseMoves DEF Authorize, Move, Lifecycle!Authorise, phaseBar
  <2>3. ASSUME NEW h \in Humans, Reject(a, h) \/ Cancel(a, h)
        PROVE  Lifecycle!Close(a)
    BY <1>0, <2>3, PhaseMoves DEF Reject, Cancel, Close, Move, Lifecycle!Close, phaseBar
  <2> QED
    BY <1>1, <2>1, <2>2, <2>3 DEF HumanStep
<1>2. ASSUME NEW e \in Executors, NEW a \in Actions, Claim(e, a)
      PROVE  Lifecycle!Start(a)
  BY <1>0, <1>2, PhaseMoves DEF Claim, Claimable, Move, Lifecycle!Start, phaseBar
<1>3. ASSUME NEW e \in Executors, Record(e)
      PROVE  \E a \in Actions : Lifecycle!Settle(a)
  <2>1. PICK a \in Actions, to \in {"executed", "failed"} :
           /\ status[a] = "executing"
           /\ status' = [status EXCEPT ![a] = to]
           /\ attemptCount' = [attemptCount EXCEPT ![a] = attemptCount[a] + 1]
    BY <1>3, RecordSettles DEF Settles
  <2> QED
    BY <1>0, <2>1, PhaseMoves DEF Lifecycle!Settle, phaseBar
<1>4. ASSUME RecoverStale
      PROVE  \E lost \in SUBSET Actions : Lifecycle!LoseTrack(lost)
  <2>1. Lifecycle!LoseTrack(Stranded)
    <3>1. \A a \in Stranded : a \in Actions /\ status[a] = "executing"
      BY DEF Stranded
    <3>2. phaseBar' = [a \in Actions |-> IF a \in Stranded THEN "uncertain" ELSE phaseBar[a]]
      BY <1>4 DEF RecoverStale, RecoveredCount, phaseBar
    <3> QED
      BY <1>4, <3>1, <3>2 DEF RecoverStale, RecoveredCount, Lifecycle!LoseTrack, phaseBar
  <2>2. Stranded \in SUBSET Actions
    BY DEF Stranded
  <2> QED
    BY <2>1, <2>2 DEF Lifecycle!LoseTrack
<1>5. ASSUME NEW r \in Reconcilers, ReconcileWrite(r)
      PROVE  \E a \in Actions : Lifecycle!Judge(a)
  <2>1. PICK a \in Actions, to \in {"executed", "failed"} :
           /\ status[a] = "execution_unknown"
           /\ status' = [status EXCEPT ![a] = to]
           /\ attemptCount' = attemptCount
    BY <1>5, ReconcileJudges DEF Judges
  <2> QED
    BY <1>0, <2>1, PhaseMoves DEF Lifecycle!Judge, phaseBar
<1>6. ASSUME UNCHANGED <<status, attemptCount>>
      PROVE  UNCHANGED <<phaseBar, attemptCount>>
  BY <1>6 DEF phaseBar
<1>7. ASSUME NEW e \in Executors, ProviderStep(e) \/ RecordRefused(e) \/ Crash(e)
      PROVE  UNCHANGED <<status, attemptCount>>
  BY <1>7 DEF ProviderStep, ProviderReturns, ProviderRaises, ProviderAnswers,
     RecordRefused, Crash, rows
<1>9. UNCHANGED vars => UNCHANGED <<status, attemptCount>>
  BY DEF vars
<1>10. (\E a \in Actions : TimeoutPasses(a)) => UNCHANGED <<status, attemptCount>>
  BY DEF TimeoutPasses, rows
<1> HIDE DEF Lifecycle!Become, PhaseOf, Lifecycle!Next
<1>11. ASSUME NEW a \in Actions, HumanStep(a)
       PROVE  Lifecycle!Next
  BY <1>1, <1>11 DEF Lifecycle!Next
<1>12. ASSUME NEW e \in Executors, ExecutorStep(e)
       PROVE  Lifecycle!Next \/ UNCHANGED <<phaseBar, attemptCount>>
  BY <1>2, <1>3, <1>6, <1>7, <1>12 DEF ExecutorStep, Lifecycle!Next
<1>13. RecoverStale => Lifecycle!Next
  BY <1>4 DEF Lifecycle!Next
<1>14. ASSUME NEW r \in Reconcilers, ReconcilerStep(r)
       PROVE  Lifecycle!Next \/ UNCHANGED <<phaseBar, attemptCount>>
  <2>1. ReconcileWrite(r) => Lifecycle!Next
    BY <1>5 DEF Lifecycle!Next
  <2>2. ReconcileFails(r) \/ (\E a \in Actions, v \in Verdict : ReconcileRead(r, a, v))
           => UNCHANGED <<status, attemptCount>>
    BY DEF ReconcileFails, ReconcileRead, rows
  <2> QED
    BY <1>6, <1>14, <2>1, <2>2 DEF ReconcilerStep
<1> QED
  BY <1>6, <1>9, <1>10, <1>11, <1>12, <1>13, <1>14 DEF Next

\* The concurrent system implements the abstract lifecycle: attempts settled
\* and counted once, never restarted from uncertainty without a judgement.
THEOREM Refinement ==
  ASSUME SerialReconcile
  PROVE  Spec => ImplementsLifecycle
<1>1. Init => Lifecycle!Init
  BY DEF Init, Lifecycle!Init, PhaseOf
<1>2. IInv /\ [Next]_vars => [Lifecycle!Next]_<<[a \in Actions |-> PhaseOf(status[a])], attemptCount>>
  BY StepRefines DEF phaseBar
<1> QED
  BY <1>1, <1>2, Inductive, PTL DEF Spec, ImplementsLifecycle, Lifecycle!Spec
-----------------------------------------------------------------------------
(* The guarantee of the remediation stage: when executions end before the   *)
(* timeout, whoever reconciles says what is true, and an action has one      *)
(* reconciliation at a time, no work is done twice and none is done for an   *)
(* action that was closed.                                                   *)

\* Without late executors a claim is always the current one, and what its holder
\* has not done, or has reported as not done, is not done.
ClaimsAreCurrent ==
    \A a \in Actions, e \in Executors : InFlight(e, a) =>
        /\ status[a] = "executing" /\ ~overdue[a]
        /\ ex[e].n = attemptCount[a] + 1
        /\ ex[e].pc = "claimed" => performed[a][ex[e].n] = 0
        /\ ex[e].pc = "returned" /\ ex[e].outcome = "retryable_failure" =>
              performed[a][ex[e].n] = 0

\* What is done is done under the number of the last attempt or of the one that
\* executes, and what is recorded as not done is not done.
WorkIsAccounted ==
    \A a \in Actions, n \in AttemptNumbers :
        /\ performed[a][n] <= 1
        /\ n > attemptCount[a] /\ performed[a][n] > 0 =>
              n = attemptCount[a] + 1 /\ status[a] = "executing"
        /\ attempts[a][n] = "retryable_failure" => performed[a][n] = 0
        /\ attempts[a][n] = "success" => n = attemptCount[a]
        /\ verdict[a][n] = "confirmed_not_executed" => performed[a][n] = 0

\* So is what a human is about to say.
EvidenceIsTrue ==
    \A r \in Reconcilers :
        rec[r] # NotReading /\ rec[r].outcome = "confirmed_not_executed" =>
            performed[rec[r].action][rec[r].seen] = 0

Once == ClaimsAreCurrent /\ WorkIsAccounted /\ EvidenceIsTrue

USE ConstantsAssumption

-----------------------------------------------------------------------------
LEMMA Counts ==
  ASSUME IInv, NEW a \in Actions
  PROVE  /\ MaxAttempts \in Nat \ {0} /\ \A m \in AttemptNumbers : m \in Nat
         /\ attemptCount[a] \in 0 .. MaxAttempts /\ attemptCount[a] \in Nat
         /\ \A m \in AttemptNumbers :
               /\ attempts[a][m] \in AttemptOutcome \cup {"none"}
               /\ performed[a][m] \in 0 .. Enough
               /\ attempts[a][m] # "none" <=> m <= attemptCount[a]
<1>1. MaxAttempts \in Nat \ {0}
  BY ConstantsAssumption
<1>2. attemptCount[a] \in 0 .. MaxAttempts
  BY DEF IInv, TypeOK
<1>3. \A m \in AttemptNumbers : /\ attempts[a][m] \in AttemptOutcome \cup {"none"}
                                /\ performed[a][m] \in 0 .. Enough
  BY DEF IInv, TypeOK
<1>4. \A m \in AttemptNumbers : attempts[a][m] # "none" <=> m <= attemptCount[a]
  BY DEF IInv, LedgerExact
<1> QED
  BY <1>1, <1>2, <1>3, <1>4

\* Where a reconciler's memory points.
LEMMA Reading ==
  ASSUME IInv, NEW r \in Reconcilers, rec[r] # NotReading
  PROVE  /\ rec[r].action \in Actions /\ status[rec[r].action] = "execution_unknown"
         /\ rec[r].seen = attemptCount[rec[r].action] /\ rec[r].seen \in AttemptNumbers
         /\ rec[r].seen \in Nat /\ rec[r].outcome \in Verdict
<1>1. /\ rec[r].action \in Actions /\ status[rec[r].action] = "execution_unknown"
      /\ rec[r].seen = attemptCount[rec[r].action] /\ rec[r].outcome \in Verdict
  BY DEF IInv, ReadStillTrue
<1>2. attemptCount[rec[r].action] > 0
  BY <1>1 DEF IInv, BudgetLeft
<1> QED
  BY <1>1, <1>2, Counts

LEMMA InitOnce == Init => Once
BY DEF Init, Once, ClaimsAreCurrent, WorkIsAccounted, EvidenceIsTrue, InFlight, Idle

\* Two executors are never in flight for one action.
LEMMA OneInFlight ==
  ASSUME IInv, Once, NEW a \in Actions, NEW e \in Executors, NEW f \in Executors,
         InFlight(e, a), InFlight(f, a)
  PROVE  e = f
BY DEF IInv, ClaimsAreFenced, Once, ClaimsAreCurrent

\* Facts of an executor that is not idle.
LEMMA Holder ==
  ASSUME IInv, Once, NEW e \in Executors, ex[e].pc # "idle"
  PROVE  /\ ex[e].action \in Actions /\ ex[e].n \in AttemptNumbers
         /\ InFlight(e, ex[e].action) /\ status[ex[e].action] = "executing"
         /\ ex[e].n = attemptCount[ex[e].action] + 1
         /\ ~overdue[ex[e].action]
BY DEF IInv, ExecutorMemory, InFlight, Once, ClaimsAreCurrent

LEMMA HumanOnce ==
  ASSUME IInv, Once, NEW a \in Actions, HumanStep(a)
  PROVE  Once'
<1>1. /\ UNCHANGED <<attemptCount, attempts, overdue, ex, rec, performed, verdict>>
      /\ status[a] # "executing"
      /\ \A b \in Actions \ {a} : status'[b] = status[b]
  BY DEF HumanStep, Propose, Authorize, Reject, Cancel, Close, Move, history, IInv, TypeOK
<1>2. ClaimsAreCurrent'
  BY <1>1 DEF Once, ClaimsAreCurrent, InFlight
<1>3. WorkIsAccounted'
  BY <1>1 DEF Once, WorkIsAccounted
<1>4. EvidenceIsTrue'
  BY <1>1 DEF Once, EvidenceIsTrue
<1> QED
  BY <1>2, <1>3, <1>4 DEF Once

LEMMA TimeoutOnce ==
  ASSUME IInv, Once, PromptExecutors, NEW a \in Actions, TimeoutPasses(a)
  PROVE  Once'
<1>1. /\ UNCHANGED <<status, attemptCount, attempts, ex, rec, performed, verdict>>
      /\ \A e \in Executors : ~InFlight(e, a)
      /\ \A b \in Actions \ {a} : overdue'[b] = overdue[b]
  BY DEF TimeoutPasses, rows, history, IInv, TypeOK
<1>2. ClaimsAreCurrent'
  BY <1>1 DEF Once, ClaimsAreCurrent, InFlight
<1>3. WorkIsAccounted' /\ EvidenceIsTrue'
  BY <1>1 DEF Once, WorkIsAccounted, EvidenceIsTrue
<1> QED
  BY <1>2, <1>3 DEF Once

LEMMA ClaimOnce ==
  ASSUME IInv, Once, NEW e \in Executors, NEW a \in Actions, Claim(e, a)
  PROVE  Once'
<1>1. /\ UNCHANGED <<attemptCount, attempts, rec, performed, verdict>>
      /\ status[a] # "executing" /\ attemptCount[a] < MaxAttempts
      /\ status' = [status EXCEPT ![a] = "executing"]
      /\ overdue' = [overdue EXCEPT ![a] = FALSE]
      /\ ex' = [ex EXCEPT ![e] = [pc |-> "claimed", action |-> a,
                                  n |-> attemptCount[a] + 1, outcome |-> "none"]]
  BY DEF Claim, Claimable, Move, history
<1>2. attemptCount[a] + 1 \in AttemptNumbers /\ attemptCount[a] \in Nat
  BY <1>1, Counts
<1>3. performed[a][attemptCount[a] + 1] = 0
  <2>1. performed[a][attemptCount[a] + 1] \in 0 .. Enough
    BY <1>2, Counts
  <2>2. ~(performed[a][attemptCount[a] + 1] > 0)
    BY <1>1, <1>2 DEF Once, WorkIsAccounted
  <2> QED
    BY <2>1, <2>2
<1>4. \A f \in Executors : ~InFlight(f, a)
  BY <1>1 DEF Once, ClaimsAreCurrent
<1>5. ClaimsAreCurrent'
  <2> SUFFICES ASSUME NEW b \in Actions, NEW f \in Executors, InFlight(f, b)'
               PROVE  /\ status'[b] = "executing" /\ ~overdue'[b]
                      /\ ex'[f].n = attemptCount'[b] + 1
                      /\ ex'[f].pc = "claimed" => performed'[b][ex'[f].n] = 0
                      /\ ex'[f].pc = "returned" /\ ex'[f].outcome = "retryable_failure" =>
                            performed'[b][ex'[f].n] = 0
    BY DEF ClaimsAreCurrent
  <2>1. CASE f = e
    BY <1>1, <1>3, <2>1 DEF InFlight, IInv, TypeOK
  <2>2. CASE f # e
    <3>1. ex'[f] = ex[f] /\ InFlight(f, b) /\ b # a
      BY <1>1, <1>4, <2>2 DEF InFlight, IInv, TypeOK
    <3> QED
      BY <1>1, <3>1 DEF IInv, TypeOK, Once, ClaimsAreCurrent
  <2> QED
    BY <2>1, <2>2
<1>6. WorkIsAccounted' /\ EvidenceIsTrue'
  BY <1>1 DEF IInv, TypeOK, Once, WorkIsAccounted, EvidenceIsTrue
<1> QED
  BY <1>5, <1>6 DEF Once

\* Whatever the provider answers, and whether or not it has done the work.
LEMMA ProviderOnce ==
  ASSUME IInv, Once, NEW e \in Executors, ProviderStep(e)
  PROVE  Once'
<1> DEFINE a == ex[e].action
           n == ex[e].n
<1>1. PICK o \in ProviderOutcome :
         /\ ProviderAnswers(e, o)
         /\ \/ o # "success" /\ UNCHANGED performed
            \/ o # "retryable_failure" /\ Perform(e)
  <2>1. ASSUME NEW o \in ProviderOutcome, ProviderReturns(e, o)
        PROVE  /\ ProviderAnswers(e, o)
               /\ \/ o # "success" /\ UNCHANGED performed
                  \/ o # "retryable_failure" /\ Perform(e)
    BY <2>1 DEF ProviderReturns
  <2>2. CASE ProviderRaises(e)
    BY <2>2 DEF ProviderRaises
  <2> QED
    BY <2>1, <2>2 DEF ProviderStep
<1>2. /\ ex[e].pc = "claimed" /\ UNCHANGED <<status, attemptCount, attempts, overdue, rec, verdict>>
      /\ ex' = [ex EXCEPT ![e].pc = "returned", ![e].outcome = o]
  BY <1>1 DEF ProviderAnswers, rows
<1>3. /\ a \in Actions /\ n \in AttemptNumbers /\ status[a] = "executing"
      /\ n = attemptCount[a] + 1 /\ attemptCount[a] \in Nat /\ performed[a][n] = 0
      /\ InFlight(e, a)
  BY <1>2, Holder DEF Once, ClaimsAreCurrent, IInv, TypeOK
<1>4. /\ ex'[e].pc = "returned" /\ ex'[e].action = a /\ ex'[e].n = n /\ ex'[e].outcome = o
      /\ \A f \in Executors \ {e} : ex'[f] = ex[f]
  BY <1>2 DEF IInv, TypeOK
<1>5. /\ performed'[a][n] \in 0 .. 1
      /\ o = "retryable_failure" => performed'[a][n] = 0
      /\ \A b \in Actions, m \in AttemptNumbers :
            (b # a \/ m # n) => performed'[b][m] = performed[b][m]
  BY <1>1, <1>3 DEF Perform, IInv, TypeOK
<1>6. ClaimsAreCurrent'
  <2> SUFFICES ASSUME NEW b \in Actions, NEW f \in Executors, InFlight(f, b)'
               PROVE  /\ status'[b] = "executing" /\ ~overdue'[b]
                      /\ ex'[f].n = attemptCount'[b] + 1
                      /\ ex'[f].pc = "claimed" => performed'[b][ex'[f].n] = 0
                      /\ ex'[f].pc = "returned" /\ ex'[f].outcome = "retryable_failure" =>
                            performed'[b][ex'[f].n] = 0
    BY DEF ClaimsAreCurrent
  <2>1. CASE f = e
    BY <1>2, <1>3, <1>4, <1>5, <2>1, Holder DEF InFlight
  <2>2. CASE f # e
    <3>1. ex'[f] = ex[f] /\ InFlight(f, b)
      BY <1>4, <2>2 DEF InFlight
    <3>2. b # a
      BY <1>3, <2>2, <3>1, OneInFlight
    <3>3. ex[f].n \in AttemptNumbers
      BY <3>1, Holder DEF InFlight
    <3> QED
      BY <1>2, <1>5, <3>1, <3>2, <3>3 DEF Once, ClaimsAreCurrent
  <2> QED
    BY <2>1, <2>2
<1>7. WorkIsAccounted'
  <2>1. verdict[a][n] = "none" /\ attempts[a][n] = "none"
    BY <1>3 DEF IInv, TypeOK, VerdictsAreRecorded, LedgerExact
  <2> QED
    BY <1>2, <1>3, <1>5, <2>1 DEF Once, WorkIsAccounted
<1>8. EvidenceIsTrue'
  <2>1. \A r \in Reconcilers : rec[r] # NotReading =>
           rec[r].action \in Actions /\ rec[r].action # a /\ rec[r].seen \in AttemptNumbers
    BY <1>3, Reading
  <2> QED
    BY <1>2, <1>5, <2>1 DEF Once, EvidenceIsTrue
<1> QED
  BY <1>6, <1>7, <1>8 DEF Once

LEMMA LeavesOnce ==
  ASSUME IInv, Once, NEW e \in Executors, RecordRefused(e) \/ Crash(e)
  PROVE  Once'
<1>1. /\ UNCHANGED <<status, attemptCount, attempts, overdue, rec, performed, verdict>>
      /\ ex'[e].pc = "idle" /\ \A f \in Executors \ {e} : ex'[f] = ex[f]
  BY DEF RecordRefused, Crash, rows, history, Idle, IInv, TypeOK
<1>2. ClaimsAreCurrent'
  BY <1>1 DEF Once, ClaimsAreCurrent, InFlight
<1>3. WorkIsAccounted' /\ EvidenceIsTrue'
  BY <1>1 DEF Once, WorkIsAccounted, EvidenceIsTrue
<1> QED
  BY <1>2, <1>3 DEF Once

LEMMA RecordOnce ==
  ASSUME IInv, Once, NEW e \in Executors, Record(e)
  PROVE  Once'
<1> DEFINE a == ex[e].action
           n == ex[e].n
<1>1. /\ ex[e].pc = "returned" /\ UNCHANGED <<rec, performed, verdict>>
      /\ attempts' = [attempts EXCEPT ![a][n] = ex[e].outcome]
      /\ ex' = [ex EXCEPT ![e] = Idle]
  BY DEF Record, history
<1>2. /\ a \in Actions /\ n \in AttemptNumbers /\ status[a] = "executing"
      /\ n = attemptCount[a] + 1 /\ attemptCount[a] \in Nat /\ InFlight(e, a)
      /\ ex[e].outcome = "retryable_failure" => performed[a][n] = 0
  BY <1>1, Holder DEF Once, ClaimsAreCurrent, IInv, TypeOK
<1>3. /\ attemptCount' = [attemptCount EXCEPT ![a] = n]
      /\ overdue' = [overdue EXCEPT ![a] = FALSE]
      /\ status' = [status EXCEPT ![a] = SettledStatus(ex[e].outcome)]
  BY <1>2 DEF Record, Move
<1>4. /\ attemptCount'[a] = n
      /\ \A b \in Actions \ {a} : /\ attemptCount'[b] = attemptCount[b] /\ status'[b] = status[b]
                                  /\ overdue'[b] = overdue[b] /\ attempts'[b] = attempts[b]
      /\ \A m \in AttemptNumbers : attempts'[a][m] = IF m = n THEN ex[e].outcome ELSE attempts[a][m]
  BY <1>1, <1>2, <1>3 DEF IInv, TypeOK
<1>5. ClaimsAreCurrent'
  <2>1. \A f \in Executors, b \in Actions : InFlight(f, b)' =>
           f # e /\ ex'[f] = ex[f] /\ InFlight(f, b) /\ b # a
    BY <1>1, <1>2, OneInFlight DEF InFlight, Idle, IInv, TypeOK
  <2> QED
    BY <1>1, <1>4, <2>1 DEF Once, ClaimsAreCurrent
<1>6. WorkIsAccounted'
  <2> SUFFICES ASSUME NEW b \in Actions, NEW m \in AttemptNumbers
               PROVE  /\ performed'[b][m] <= 1
                      /\ m > attemptCount'[b] /\ performed'[b][m] > 0 =>
                            m = attemptCount'[b] + 1 /\ status'[b] = "executing"
                      /\ attempts'[b][m] = "retryable_failure" => performed'[b][m] = 0
                      /\ attempts'[b][m] = "success" => m = attemptCount'[b]
                      /\ verdict'[b][m] = "confirmed_not_executed" => performed'[b][m] = 0
    BY DEF WorkIsAccounted
  <2>1. CASE b # a
    BY <1>1, <1>4, <2>1 DEF Once, WorkIsAccounted
  <2>2. CASE b = a
    <3>1. attempts[a][m] # "success"
      BY <1>2 DEF IInv, ExecutedIffEvidenced, Evidenced
    <3>2. /\ performed[a][m] <= 1
          /\ m > attemptCount[a] /\ performed[a][m] > 0 => m = n
          /\ attempts[a][m] = "retryable_failure" => performed[a][m] = 0
          /\ verdict[a][m] = "confirmed_not_executed" => performed[a][m] = 0
      BY <1>2 DEF Once, WorkIsAccounted
    <3>3. attempts'[a][m] = IF m = n THEN ex[e].outcome ELSE attempts[a][m]
      BY <1>4
    <3>4. m \in Nat /\ n \in Nat /\ performed[a][m] \in 0 .. Enough
      BY <1>2, Counts
    <3> QED
      BY <1>1, <1>2, <1>4, <2>2, <3>1, <3>2, <3>3, <3>4
  <2> QED
    BY <2>1, <2>2
<1>7. EvidenceIsTrue'
  BY <1>1 DEF Once, EvidenceIsTrue
<1> QED
  BY <1>5, <1>6, <1>7 DEF Once

LEMMA RecoverOnce ==
  ASSUME IInv, Once, RecoverStale
  PROVE  Once'
<1>1. /\ UNCHANGED <<ex, rec, performed, verdict>>
      /\ \A b \in Actions \ Stranded :
            /\ status'[b] = status[b] /\ attempts'[b] = attempts[b]
            /\ attemptCount'[b] = attemptCount[b] /\ overdue'[b] = overdue[b]
      /\ \A b \in Stranded : attemptCount'[b] = attemptCount[b] + 1
  BY DEF RecoverStale, RecoveredCount, history, IInv, TypeOK, Stranded
<1>2. ASSUME NEW b \in Stranded, NEW m \in AttemptNumbers
      PROVE  attempts'[b][m] = IF m = attemptCount[b] + 1 THEN "unknown" ELSE attempts[b][m]
  <2>1. b \in Actions /\ attemptCount[b] < MaxAttempts
    BY DEF Stranded, IInv, BudgetLeft
  <2>2. attemptCount[b] + 1 \in AttemptNumbers
    BY <2>1, Counts
  <2>3. attempts[b][attemptCount[b] + 1] = "none"
    BY <2>1, <2>2, Counts
  <2>4. attempts'[b] = [attempts[b] EXCEPT ![attemptCount[b] + 1] = "unknown"]
    BY <2>1, <2>3 DEF RecoverStale
  <2>5. attempts[b] \in [AttemptNumbers -> AttemptOutcome \cup {"none"}]
    BY <2>1 DEF IInv, TypeOK
  <2> QED
    BY <2>2, <2>4, <2>5
<1>3. \A b \in Stranded, e \in Executors : b \in Actions /\ ~InFlight(e, b) /\ status[b] = "executing"
  BY DEF Stranded, Once, ClaimsAreCurrent
<1>4. ClaimsAreCurrent'
  BY <1>1, <1>3 DEF Once, ClaimsAreCurrent, InFlight
<1>5. WorkIsAccounted'
  <2> SUFFICES ASSUME NEW b \in Actions, NEW m \in AttemptNumbers
               PROVE  /\ performed'[b][m] <= 1
                      /\ m > attemptCount'[b] /\ performed'[b][m] > 0 =>
                            m = attemptCount'[b] + 1 /\ status'[b] = "executing"
                      /\ attempts'[b][m] = "retryable_failure" => performed'[b][m] = 0
                      /\ attempts'[b][m] = "success" => m = attemptCount'[b]
                      /\ verdict'[b][m] = "confirmed_not_executed" => performed'[b][m] = 0
    BY DEF WorkIsAccounted
  <2>1. CASE b \notin Stranded
    BY <1>1, <2>1 DEF Once, WorkIsAccounted
  <2>2. CASE b \in Stranded
    <3>1. attempts[b][m] # "success"
      BY <2>2 DEF Stranded, IInv, ExecutedIffEvidenced, Evidenced
    <3>2. /\ performed[b][m] <= 1
          /\ m > attemptCount[b] /\ performed[b][m] > 0 => m = attemptCount[b] + 1
          /\ attempts[b][m] = "retryable_failure" => performed[b][m] = 0
          /\ verdict[b][m] = "confirmed_not_executed" => performed[b][m] = 0
      BY DEF Once, WorkIsAccounted
    <3>3. m \in Nat /\ attemptCount[b] \in Nat
      BY Counts
    <3>4. attempts'[b][m] \in {"unknown", attempts[b][m]} /\ attemptCount'[b] = attemptCount[b] + 1
      BY <1>1, <1>2, <2>2
    <3> QED
      BY <1>1, <3>1, <3>2, <3>3, <3>4
  <2> QED
    BY <2>1, <2>2
<1>6. EvidenceIsTrue'
  BY <1>1 DEF Once, EvidenceIsTrue
<1> QED
  BY <1>4, <1>5, <1>6 DEF Once

LEMMA ReconcileOnce ==
  ASSUME IInv, Once, TruthfulEvidence, NEW r \in Reconcilers, ReconcilerStep(r)
  PROVE  Once'
<1>1. ASSUME NEW a \in Actions, NEW v \in Verdict, ReconcileRead(r, a, v) PROVE Once'
  <2>1. /\ UNCHANGED <<status, attemptCount, attempts, overdue, ex, performed, verdict>>
        /\ status[a] = "execution_unknown"
        /\ v = "confirmed_executed" <=> performed[a][attemptCount[a]] > 0
        /\ \A s \in Reconcilers : rec'[s] =
              IF s = r THEN [action |-> a, outcome |-> v, seen |-> attemptCount[a]] ELSE rec[s]
    BY <1>1 DEF ReconcileRead, rows, history, IInv, TypeOK
  <2>2. attemptCount[a] \in AttemptNumbers
    <3>1. attemptCount[a] > 0
      BY <2>1 DEF IInv, BudgetLeft
    <3> QED
      BY <3>1, Counts
  <2>3. v = "confirmed_not_executed" => performed[a][attemptCount[a]] = 0
    <3>1. performed[a][attemptCount[a]] \in 0 .. Enough
      BY <2>2, Counts
    <3> QED
      BY <2>1, <3>1
  <2>4. EvidenceIsTrue'
    BY <2>1, <2>3 DEF Once, EvidenceIsTrue
  <2>5. ClaimsAreCurrent' /\ WorkIsAccounted'
    BY <2>1 DEF Once, ClaimsAreCurrent, WorkIsAccounted, InFlight
  <2> QED
    BY <2>4, <2>5 DEF Once
<1>2. ASSUME ReconcileWrite(r) PROVE Once'
  <2> DEFINE a == rec[r].action
             n == rec[r].seen
  <2>1. /\ a \in Actions /\ status[a] = "execution_unknown" /\ n = attemptCount[a]
        /\ rec[r] # NotReading /\ n \in AttemptNumbers /\ n \in Nat
    BY <1>2, Reading DEF ReconcileWrite
  <2>2. /\ UNCHANGED <<attempts, ex, performed>> /\ attemptCount' = attemptCount
        /\ \A b \in Actions \ {a} : status'[b] = status[b] /\ overdue'[b] = overdue[b]
        /\ rec' = [rec EXCEPT ![r] = NotReading]
        /\ verdict' = [verdict EXCEPT ![a][n] = rec[r].outcome]
    BY <1>2, <2>1 DEF ReconcileWrite, JudgedCount, Move, IInv, TypeOK
  <2>3. ClaimsAreCurrent'
    BY <2>1, <2>2 DEF Once, ClaimsAreCurrent, InFlight
  <2>4. WorkIsAccounted'
    <3>1. \A b \in Actions, m \in AttemptNumbers :
             verdict'[b][m] = IF b = a /\ m = n THEN rec[r].outcome ELSE verdict[b][m]
      BY <2>1, <2>2 DEF IInv, TypeOK
    <3>2. rec[r].outcome = "confirmed_not_executed" => performed[a][n] = 0
      BY <2>1 DEF Once, EvidenceIsTrue
    <3> QED
      BY <2>1, <2>2, <3>1, <3>2 DEF Once, WorkIsAccounted
  <2>5. EvidenceIsTrue'
    BY <2>2 DEF Once, EvidenceIsTrue, IInv, TypeOK
  <2> QED
    BY <2>3, <2>4, <2>5 DEF Once
<1>3. ASSUME ReconcileFails(r) PROVE Once'
  <2>1. /\ UNCHANGED <<status, attemptCount, attempts, overdue, ex, performed, verdict>>
        /\ rec' = [rec EXCEPT ![r] = NotReading]
    BY <1>3 DEF ReconcileFails, rows, history
  <2>2. ClaimsAreCurrent' /\ WorkIsAccounted'
    BY <2>1 DEF Once, ClaimsAreCurrent, WorkIsAccounted, InFlight
  <2>3. EvidenceIsTrue'
    BY <2>1 DEF Once, EvidenceIsTrue, IInv, TypeOK
  <2> QED
    BY <2>2, <2>3 DEF Once
<1> QED
  BY <1>1, <1>2, <1>3 DEF ReconcilerStep

LEMMA NextOnce ==
  ASSUME IInv, Once, PromptExecutors, TruthfulEvidence, [Next]_vars
  PROVE  Once'
<1>1. CASE UNCHANGED vars
  BY <1>1 DEF vars, Once, ClaimsAreCurrent, WorkIsAccounted, EvidenceIsTrue, InFlight
<1>2. ASSUME NEW e \in Executors, ExecutorStep(e) PROVE Once'
  BY <1>2, ClaimOnce, ProviderOnce, RecordOnce, LeavesOnce DEF ExecutorStep
<1> QED
  BY <1>1, <1>2, HumanOnce, TimeoutOnce, RecoverOnce, ReconcileOnce DEF Next

\* What the invariants say of work that is done: it is the last attempt's, or a
\* provider that raised hid it.
LEMMA DoneOnceOrHidden ==
  ASSUME IInv, Once, NEW a \in Actions, NEW m \in AttemptNumbers, performed[a][m] > 0,
         attempts[a][m] # "permanent_failure"
  PROVE  /\ m >= attemptCount[a] /\ status[a] \in {"executing", "executed", "execution_unknown"}
         /\ m > attemptCount[a] => m = attemptCount[a] + 1 /\ status[a] = "executing"
         /\ m = attemptCount[a] => status[a] # "executing"
<1>0. attemptCount[a] \in Nat /\ m \in Nat
  BY Counts
<1>1. CASE m > attemptCount[a]
  BY <1>0, <1>1 DEF Once, WorkIsAccounted
<1>2. CASE m <= attemptCount[a]
  <2>1. attempts[a][m] \in {"success", "unknown"}
    <3>1. attempts[a][m] # "none" /\ attempts[a][m] \in AttemptOutcome \cup {"none"}
      BY <1>2, Counts
    <3>2. attempts[a][m] # "retryable_failure"
      BY DEF Once, WorkIsAccounted
    <3> QED
      BY <3>1, <3>2
  <2>2. CASE attempts[a][m] = "success"
    BY <1>0, <2>2 DEF IInv, ExecutedIffEvidenced, Evidenced, Once, WorkIsAccounted
  <2>3. CASE attempts[a][m] = "unknown"
    <3>1. verdict[a][m] # "confirmed_not_executed"
      BY <1>0 DEF Once, WorkIsAccounted
    <3> QED
      BY <1>0, <2>3, <3>1 DEF IInv, UncertaintyIsSettled
  <2> QED
    BY <2>1, <2>2, <2>3
<1> QED
  BY <1>0, <1>1, <1>2

LEMMA OnceInvariant ==
  ASSUME SerialReconcile, PromptExecutors, TruthfulEvidence
  PROVE  Spec => [](IInv /\ Once)
<1>1. Init => IInv /\ Once
  BY InitHolds, InitOnce
<1>2. IInv /\ Once /\ [Next]_vars => IInv' /\ Once'
  BY NextHolds, NextOnce
<1> QED
  BY <1>1, <1>2, PTL DEF Spec

\* The work of a remediation action is done at most once, whatever executors crash
\* and recovery and humans do in between, unless a provider hid it by raising.
THEOREM DoneAtMostOnce ==
  ASSUME SerialReconcile, PromptExecutors, TruthfulEvidence
  PROVE  Spec => []PerformedAtMostOnce
<1>1. IInv /\ Once => PerformedAtMostOnce
  <2> SUFFICES ASSUME IInv, Once, NEW a \in Actions, NEW n \in AttemptNumbers, performed[a][n] > 0
               PROVE  /\ performed[a][n] = 1
                      /\ \A m \in 1 .. n - 1 :
                            performed[a][m] > 0 => attempts[a][m] = "permanent_failure"
    BY DEF PerformedAtMostOnce
  <2>1. performed[a][n] = 1
    <3>1. performed[a][n] \in 0 .. Enough
      BY Counts
    <3>2. performed[a][n] <= 1
      BY DEF Once, WorkIsAccounted
    <3> QED
      BY <3>1, <3>2
  <2>2. ASSUME NEW m \in 1 .. n - 1, performed[a][m] > 0
        PROVE  attempts[a][m] = "permanent_failure"
    <3>1. m \in AttemptNumbers /\ attemptCount[a] \in Nat /\ n \in Nat /\ m \in Nat /\ m < n
      BY Counts
    <3>2. n > attemptCount[a] => n = attemptCount[a] + 1 /\ status[a] = "executing"
      BY DEF Once, WorkIsAccounted
    <3> QED
      BY <2>2, <3>1, <3>2, DoneOnceOrHidden
  <2> QED
    BY <2>1, <2>2
<1> QED
  BY <1>1, OnceInvariant, PTL

\* An action that was rejected or cancelled has not been done, and nobody is about
\* to do it.
THEOREM ClosedIsUndone ==
  ASSUME SerialReconcile, PromptExecutors, TruthfulEvidence
  PROVE  Spec => []ClosedMeansUndone
<1>1. IInv /\ Once => ClosedMeansUndone
  <2> SUFFICES ASSUME IInv, Once, NEW a \in Actions, status[a] \in {"rejected", "cancelled"}
               PROVE  /\ \A n \in AttemptNumbers :
                            performed[a][n] > 0 => attempts[a][n] = "permanent_failure"
                      /\ \A e \in Executors : ~InFlight(e, a)
    BY DEF ClosedMeansUndone
  <2>1. \A n \in AttemptNumbers : performed[a][n] > 0 => attempts[a][n] = "permanent_failure"
    BY DoneOnceOrHidden
  <2>2. \A e \in Executors : ~InFlight(e, a)
    BY DEF Once, ClaimsAreCurrent
  <2> QED
    BY <2>1, <2>2
<1> QED
  BY <1>1, OnceInvariant, PTL
=============================================================================
