----------------------------- MODULE Remediation -----------------------------
(***************************************************************************)
(* Stage 9 remediation: the life of the rows of remediation_actions and    *)
(* remediation_attempts under concurrent executors (the scheduled          *)
(* workflow, its HTTP retries, an operator pressing "execute"), the        *)
(* Stage 10 recovery of stranded executions, and humans who authorise,     *)
(* close and reconcile.                                                    *)
(*                                                                         *)
(* One action of this module is one database transaction, or one provider  *)
(* call: PostgreSQL runs at READ COMMITTED, so every conditional UPDATE is *)
(* atomic and nothing is locked between two statements' transactions.      *)
(***************************************************************************)
EXTENDS Integers, FiniteSets

CONSTANTS
    Actions,          \* rows of remediation_actions, one per idempotency key
    Executors,        \* callers of execute_action / execute_approved
    Humans,           \* who authorises, rejects and cancels
    Reconcilers,      \* who calls reconcile_remediation
    NoOne,            \* SQL NULL in an actor column
    MaxAttempts,      \* MAX_EXECUTION_ATTEMPTS, and max_attempts of the trigger
    SerialReconcile,  \* at most one reconciliation of an action is in flight
    PromptExecutors,  \* an execution still alive is never past the timeout
    TruthfulEvidence  \* a reconciler states what the provider really did

ASSUME ConstantsAssumption ==
    /\ MaxAttempts \in Nat \ {0}
    /\ NoOne \notin Actions \cup Executors \cup Humans \cup Reconcilers
    /\ SerialReconcile \in BOOLEAN
    /\ PromptExecutors \in BOOLEAN
    /\ TruthfulEvidence \in BOOLEAN

Actors == Humans \cup Executors \cup Reconcilers
AttemptNumbers == 1 .. MaxAttempts

Status == {"absent", "proposed", "approved", "executing", "executed",
           "rejected", "failed", "cancelled", "execution_unknown"}
Terminal == {"executed", "rejected", "cancelled"}

\* ExecutionOutcome, and the 'unknown' that recovery writes.
ProviderOutcome == {"success", "retryable_failure", "permanent_failure"}
AttemptOutcome == ProviderOutcome \cup {"unknown"}
Verdict == {"confirmed_executed", "confirmed_not_executed"}

VARIABLES
    status,        \* remediation_actions.status; "absent" before the INSERT
    attemptCount,  \* remediation_actions.attempt_count
    authorizedBy,  \* remediation_actions.authorized_by
    executedBy,    \* remediation_actions.executed_by
    attempts,      \* remediation_attempts: outcome by attempt number
    overdue,       \* stale_remediation_timeout_minutes passed since the claim
    ex,            \* what each executor is doing, in its own memory
    rec,           \* what each reconciler read before it writes
    performed,     \* history: how often the work was done, by attempt number
    verdict        \* history: what a human said of an uncertain attempt

rows == <<status, attemptCount, authorizedBy, executedBy, attempts>>
history == <<performed, verdict>>
vars == <<status, attemptCount, authorizedBy, executedBy, attempts, overdue,
          ex, rec, performed, verdict>>

Idle == [pc |-> "idle", action |-> NoOne, n |-> 0, outcome |-> "none"]
NotReading == [action |-> NoOne, outcome |-> "none", seen |-> 0]

Init ==
    /\ status = [a \in Actions |-> "absent"]
    /\ attemptCount = [a \in Actions |-> 0]
    /\ authorizedBy = [a \in Actions |-> NoOne]
    /\ executedBy = [a \in Actions |-> NoOne]
    /\ attempts = [a \in Actions |-> [n \in AttemptNumbers |-> "none"]]
    /\ overdue = [a \in Actions |-> FALSE]
    /\ ex = [e \in Executors |-> Idle]
    /\ rec = [r \in Reconcilers |-> NotReading]
    /\ performed = [a \in Actions |-> [n \in AttemptNumbers |-> 0]]
    /\ verdict = [a \in Actions |-> [n \in AttemptNumbers |-> "none"]]

-----------------------------------------------------------------------------
(* The BEFORE UPDATE trigger: which status changes the table accepts.      *)
(* A same-status UPDATE of an open row passes; the retry budget is checked *)
(* on failed -> executing.                                                 *)

AllowedTransitions ==
    { <<"proposed", "approved">>, <<"proposed", "rejected">>,
      <<"proposed", "cancelled">>, <<"approved", "executing">>,
      <<"approved", "cancelled">>, <<"executing", "executed">>,
      <<"executing", "failed">>, <<"failed", "executing">>,
      <<"failed", "cancelled">>, <<"executing", "execution_unknown">>,
      <<"execution_unknown", "executed">>, <<"execution_unknown", "failed">>,
      <<"execution_unknown", "cancelled">> }

GuardTransition(a, to) ==
    \/ status[a] = to /\ to \notin Terminal
    \/ /\ <<status[a], to>> \in AllowedTransitions
       /\ status[a] = "failed" /\ to = "executing"
             => attemptCount[a] < MaxAttempts

Move(a, to) ==
    /\ GuardTransition(a, to)
    /\ status' = [status EXCEPT ![a] = to]

-----------------------------------------------------------------------------
(* Human operations.                                                       *)

\* approve_review_for_remediation inserts the row (module ReviewQueue models the
\* review side); a repeated approval finds the row and leaves it alone.
Propose(a) ==
    /\ status[a] = "absent"
    /\ status' = [status EXCEPT ![a] = "proposed"]
    /\ UNCHANGED <<attemptCount, authorizedBy, executedBy, attempts, overdue,
                   ex, rec, history>>

Authorize(a, h) ==
    /\ status[a] = "proposed"
    /\ Move(a, "approved")
    /\ authorizedBy' = [authorizedBy EXCEPT ![a] = h]
    /\ UNCHANGED <<attemptCount, executedBy, attempts, overdue, ex, rec, history>>

\* _CLOSE_REMEDIATION: the actor who closes an action nobody authorised is
\* written into authorized_by.
Close(a, h, to, fromStatuses) ==
    /\ status[a] \in fromStatuses
    /\ Move(a, to)
    /\ authorizedBy' = [authorizedBy EXCEPT ![a] = IF @ = NoOne THEN h ELSE @]
    /\ UNCHANGED <<attemptCount, executedBy, attempts, overdue, ex, rec, history>>

Reject(a, h) == Close(a, h, "rejected", {"proposed"})

\* Mutation: cancelling does not wait for the reconciliation the trigger's
\* table would let it skip.
CancelUnreconciled(a, h) ==
    Close(a, h, "cancelled", {"proposed", "approved", "failed", "execution_unknown"})

Cancel(a, h) == Close(a, h, "cancelled", {"proposed", "approved", "failed"})

-----------------------------------------------------------------------------
(* Execution: claim, call, record; three steps and no lock between them.   *)

\* Mutation: the conditional UPDATE forgets that a claim is exclusive; the
\* trigger lets a same-status UPDATE through.
ClaimableTwice(a) ==
    /\ status[a] \in {"approved", "failed", "executing"}
    /\ attemptCount[a] < MaxAttempts

\* Mutation: the budget predicate is off by one.
ClaimableOneShort(a) ==
    /\ status[a] \in {"approved", "failed"}
    /\ attemptCount[a] + 1 < MaxAttempts

Claimable(a) ==
    /\ status[a] \in {"approved", "failed"}
    /\ attemptCount[a] < MaxAttempts

Claim(e, a) ==
    /\ ex[e].pc = "idle"
    /\ Claimable(a)
    /\ Move(a, "executing")
    /\ executedBy' = [executedBy EXCEPT ![a] = e]
    /\ overdue' = [overdue EXCEPT ![a] = FALSE]
    /\ ex' = [ex EXCEPT ![e] = [pc |-> "claimed", action |-> a,
                                n |-> attemptCount[a] + 1, outcome |-> "none"]]
    /\ UNCHANGED <<attemptCount, authorizedBy, attempts, rec, history>>

ProviderAnswers(e, o) ==
    /\ ex[e].pc = "claimed"
    /\ ex' = [ex EXCEPT ![e].pc = "returned", ![e].outcome = o]
    /\ UNCHANGED <<rows, overdue, rec, verdict>>

\* Twice is once too often; the history counts no further.
Enough == 2

Perform(e) ==
    performed' = [performed EXCEPT ![ex[e].action][ex[e].n] =
                     IF @ < Enough THEN @ + 1 ELSE @]

\* The provider classifies its own result: a success did the work, a failure
\* did not.
ProviderReturns(e, o) ==
    /\ ProviderAnswers(e, o)
    /\ IF o = "success" THEN Perform(e) ELSE UNCHANGED performed

\* A provider is contracted never to raise. One that does may have done the
\* work first; either way the service writes a permanent failure.
ProviderRaises(e) ==
    /\ ProviderAnswers(e, "permanent_failure")
    /\ Perform(e)

\* Mutation: a retryable failure is not told from a success.
SettlesUnlessPermanent(o) == IF o = "permanent_failure" THEN "failed" ELSE "executed"

\* The action's status after an answer.
SettledStatus(o) == IF o = "success" THEN "executed" ELSE "failed"

\* One transaction: INSERT the attempt row, then UPDATE the action only if it
\* is still executing. An UPDATE that finds no row is not noticed.
Record(e) ==
    LET a == ex[e].action
        n == ex[e].n
        to == SettledStatus(ex[e].outcome)
    IN  /\ ex[e].pc = "returned"
        /\ attempts[a][n] = "none"
        /\ attempts' = [attempts EXCEPT ![a][n] = ex[e].outcome]
        /\ IF status[a] = "executing"
           THEN /\ Move(a, to)
                /\ attemptCount' = [attemptCount EXCEPT ![a] = n]
                /\ executedBy' = [executedBy EXCEPT ![a] =
                                     IF to = "executed" THEN e ELSE NoOne]
                /\ overdue' = [overdue EXCEPT ![a] = FALSE]
           ELSE UNCHANGED <<status, attemptCount, executedBy, overdue>>
        /\ ex' = [ex EXCEPT ![e] = Idle]
        /\ UNCHANGED <<authorizedBy, rec, history>>

\* Mutation: the INSERT ignores a conflict, so the late executor's UPDATE runs.
RecordOnConflict(e) ==
    LET a == ex[e].action
    IN  /\ ex[e].pc = "returned"
        /\ attempts[a][ex[e].n] # "none"
        /\ Move(a, IF status[a] = "executing" THEN SettledStatus(ex[e].outcome)
                                              ELSE status[a])
        /\ ex' = [ex EXCEPT ![e] = Idle]
        /\ UNCHANGED <<attemptCount, authorizedBy, executedBy, attempts,
                       overdue, rec, history>>

\* UNIQUE (remediation_id, attempt_number) refuses the INSERT: the whole
\* transaction rolls back and the late executor changes nothing.
RecordRefused(e) ==
    /\ ex[e].pc = "returned"
    /\ attempts[ex[e].action][ex[e].n] # "none"
    /\ ex' = [ex EXCEPT ![e] = Idle]
    /\ UNCHANGED <<rows, overdue, rec, history>>

\* The process dies, or its recording transaction fails, before anything is
\* written: the row stays at 'executing' and its memory is lost.
Crash(e) ==
    /\ ex[e].pc # "idle"
    /\ ex' = [ex EXCEPT ![e] = Idle]
    /\ UNCHANGED <<rows, overdue, rec, history>>

-----------------------------------------------------------------------------
(* Stage 10: recovery and reconciliation.                                  *)

InFlight(e, a) == ex[e].pc # "idle" /\ ex[e].action = a

TimeoutPasses(a) ==
    /\ status[a] = "executing" /\ ~overdue[a]
    /\ PromptExecutors => \A e \in Executors : ~InFlight(e, a)
    /\ overdue' = [overdue EXCEPT ![a] = TRUE]
    /\ UNCHANGED <<rows, ex, rec, history>>

\* Mutation: recovery looks only at actions whose attempt left a row, which a
\* crash never does.
StrandedWithRow ==
    {a \in Actions : /\ status[a] = "executing" /\ overdue[a]
                     /\ attempts[a][attemptCount[a] + 1] # "none"}

Stranded == {a \in Actions : status[a] = "executing" /\ overdue[a]}

\* Mutation: the attempt that was lost track of is not counted.
RecoveredCountKept(a) == attemptCount[a]

\* The number under which recovery books the lost attempt.
RecoveredCount(a) == attemptCount[a] + 1

\* recover_stale_remediation(): one transaction over every stale row. The
\* attempt row is written ON CONFLICT DO NOTHING; no provider is called.
RecoverStale ==
    /\ Stranded # {}
    /\ status' = [a \in Actions |-> IF a \in Stranded THEN "execution_unknown"
                                                      ELSE status[a]]
    /\ attempts' = [a \in Actions |->
          IF a \in Stranded /\ attempts[a][attemptCount[a] + 1] = "none"
          THEN [attempts[a] EXCEPT ![attemptCount[a] + 1] = "unknown"]
          ELSE attempts[a]]
    /\ attemptCount' = [a \in Actions |-> IF a \in Stranded
                                          THEN RecoveredCount(a)
                                          ELSE attemptCount[a]]
    /\ executedBy' = [a \in Actions |-> IF a \in Stranded THEN NoOne
                                                          ELSE executedBy[a]]
    /\ overdue' = [a \in Actions |-> overdue[a] /\ a \notin Stranded]
    /\ UNCHANGED <<authorizedBy, ex, rec, history>>

\* reconcile_remediation() reads the status without a lock ...
ReconcileRead(r, a, v) ==
    /\ rec[r] = NotReading
    /\ status[a] = "execution_unknown"
    /\ SerialReconcile => \A s \in Reconcilers : rec[s].action # a
    /\ TruthfulEvidence => (v = "confirmed_executed" <=> performed[a][attemptCount[a]] > 0)
    /\ rec' = [rec EXCEPT ![r] = [action |-> a, outcome |-> v,
                                  seen |-> attemptCount[a]]]
    /\ UNCHANGED <<rows, overdue, ex, history>>

\* Mutation: the judged attempt, which recovery has counted, is counted again.
JudgedCountedAgain(r) == rec[r].seen + 1

\* attempt_count after "confirmed_executed".
JudgedCount(r) == rec[r].seen

\* ... and then updates the row by its id alone, whatever its status is by now.
ReconcileWrite(r) ==
    LET a == rec[r].action
        done == rec[r].outcome = "confirmed_executed"
    IN  /\ rec[r] # NotReading
        /\ Move(a, IF done THEN "executed" ELSE "failed")
        /\ attemptCount' = IF done THEN [attemptCount EXCEPT ![a] = JudgedCount(r)]
                                   ELSE attemptCount
        /\ executedBy' = IF done THEN [executedBy EXCEPT ![a] = r] ELSE executedBy
        /\ overdue' = [overdue EXCEPT ![a] = FALSE]
        /\ verdict' = [verdict EXCEPT ![a][rec[r].seen] = rec[r].outcome]
        /\ rec' = [rec EXCEPT ![r] = NotReading]
        /\ UNCHANGED <<authorizedBy, attempts, ex, performed>>

\* The trigger refuses the UPDATE, or the request is abandoned.
ReconcileFails(r) ==
    /\ rec[r] # NotReading
    /\ rec' = [rec EXCEPT ![r] = NotReading]
    /\ UNCHANGED <<rows, overdue, ex, history>>

-----------------------------------------------------------------------------
HumanStep(a) ==
    \/ Propose(a)
    \/ \E h \in Humans : Authorize(a, h) \/ Reject(a, h) \/ Cancel(a, h)

ProviderStep(e) ==
    (\E o \in ProviderOutcome : ProviderReturns(e, o)) \/ ProviderRaises(e)

ExecutorStep(e) ==
    \/ \E a \in Actions : Claim(e, a)
    \/ ProviderStep(e)
    \/ Record(e)
    \/ RecordRefused(e)
    \/ Crash(e)

ReconcilerStep(r) ==
    \/ \E a \in Actions, v \in Verdict : ReconcileRead(r, a, v)
    \/ ReconcileWrite(r)
    \/ ReconcileFails(r)

Next ==
    \/ \E a \in Actions : HumanStep(a) \/ TimeoutPasses(a)
    \/ \E e \in Executors : ExecutorStep(e)
    \/ RecoverStale
    \/ \E r \in Reconcilers : ReconcilerStep(r)

\* The schedule: n8n runs the remediation workflow daily and the maintenance
\* workflow after it, clocks advance, and a live executor finishes its call.
\* Nothing makes a human act.
Fairness ==
    /\ \A a \in Actions : WF_vars(TimeoutPasses(a))
    /\ \A a \in Actions : WF_vars(\E e \in Executors : Claim(e, a))
    /\ \A e \in Executors : WF_vars(ProviderStep(e)) /\ WF_vars(Record(e) \/ RecordRefused(e))
    /\ WF_vars(RecoverStale)

Spec == Init /\ [][Next]_vars
FairSpec == Spec /\ Fairness

-----------------------------------------------------------------------------
(* What must hold of every state.                                          *)

ExecutorRecord == [pc : {"idle", "claimed", "returned"},
                   action : Actions \cup {NoOne},
                   n : 0 .. MaxAttempts,
                   outcome : ProviderOutcome \cup {"none"}]

\* Every variable ranges over its column's or its memory's type.
TypeOK ==
    /\ status \in [Actions -> Status]
    /\ attemptCount \in [Actions -> 0 .. MaxAttempts]
    /\ authorizedBy \in [Actions -> Actors \cup {NoOne}]
    /\ executedBy \in [Actions -> Actors \cup {NoOne}]
    /\ attempts \in [Actions -> [AttemptNumbers -> AttemptOutcome \cup {"none"}]]
    /\ overdue \in [Actions -> BOOLEAN]
    /\ ex \in [Executors -> ExecutorRecord]
    /\ rec \in [Reconcilers -> [action : Actions \cup {NoOne},
                                outcome : Verdict \cup {"none"},
                                seen : 0 .. MaxAttempts]]
    /\ performed \in [Actions -> [AttemptNumbers -> 0 .. Enough]]
    /\ verdict \in [Actions -> [AttemptNumbers -> Verdict \cup {"none"}]]

\* The attempt ledger and the counter agree: the rows recorded for an action
\* are exactly those numbered 1 .. attempt_count, although executors, recovery
\* and reconciliation each write one or the other.
LedgerExact ==
    \A a \in Actions, n \in AttemptNumbers :
        attempts[a][n] # "none" <=> n <= attemptCount[a]

\* The attempt number is a fencing token: no two executors hold the same one
\* for an action, and one whose claim recovery has taken away holds a number
\* already spent, so its INSERT can only be refused.
ClaimsAreFenced ==
    \A a \in Actions, e \in Executors : InFlight(e, a) =>
        /\ ex[e].n > attemptCount[a] =>
              status[a] = "executing" /\ ex[e].n = attemptCount[a] + 1
        /\ \A f \in Executors : InFlight(f, a) /\ e # f => ex[e].n # ex[f].n

\* An action is retried, closed or executed only when a human has settled
\* every attempt whose outcome was unknown: "confirmed_not_executed", or
\* "confirmed_executed" for the last one of an executed action.
UncertaintyIsSettled ==
    \A a \in Actions, n \in AttemptNumbers :
        attempts[a][n] = "unknown" =>
            \/ verdict[a][n] = "confirmed_not_executed"
            \/ n = attemptCount[a] /\ status[a] = "execution_unknown"
            \/ /\ n = attemptCount[a] /\ status[a] = "executed"
               /\ verdict[a][n] = "confirmed_executed"

Evidenced(a) ==
    \E n \in AttemptNumbers :
        \/ attempts[a][n] = "success"
        \/ attempts[a][n] = "unknown" /\ verdict[a][n] = "confirmed_executed"

\* 'executed' means evidence and evidence means 'executed': an action is
\* executed exactly when its last attempt is a recorded success or an unknown
\* one that a human vouched for. A recorded success is never lost, retried or
\* closed over.
ExecutedIffEvidenced ==
    \A a \in Actions : status[a] = "executed" <=> Evidenced(a)

\* The guarantee of the stage, under prompt executors and truthful evidence:
\* the work of an action is done at most once, unless a provider that raised
\* (and so broke its contract) hid the first time.
PerformedAtMostOnce ==
    \A a \in Actions, n \in AttemptNumbers : performed[a][n] > 0 =>
        /\ performed[a][n] = 1
        /\ \A m \in 1 .. n - 1 :
              performed[a][m] > 0 => attempts[a][m] = "permanent_failure"

\* Under the same assumptions a rejected or cancelled action has not been
\* done, nor will be: nobody is about to call the provider for it.
ClosedMeansUndone ==
    \A a \in Actions : status[a] \in {"rejected", "cancelled"} =>
        /\ \A n \in AttemptNumbers :
              performed[a][n] > 0 => attempts[a][n] = "permanent_failure"
        /\ \A e \in Executors : ~InFlight(e, a)

-----------------------------------------------------------------------------
(* What a step may never do, and what must happen.                         *)

\* Only the executor holding the current claim moves its action from
\* 'executing' to a settled status, and the attempt row it writes says why.
\* Recovery is the one other way out, to 'execution_unknown'.
ClaimantSettles ==
    [][\A a \in Actions :
         status[a] = "executing" /\ status'[a] \in {"executed", "failed"} =>
            \E e \in Executors :
                /\ InFlight(e, a) /\ ex'[e] = Idle
                /\ attempts'[a][attemptCount'[a]] = ex[e].outcome
                /\ attemptCount'[a] = attemptCount[a] + 1]_vars

\* No action stays claimed: a crash anywhere between claim and record ends in
\* the executor's answer or in recovery.
NothingStaysExecuting ==
    \A a \in Actions : status[a] = "executing" ~> status[a] # "executing"

\* An authorised action converges: it is executed, or it waits for a human
\* (unknown, or failed with its budget spent), or a human cancelled it.
AuthorizedConverges ==
    \A a \in Actions : status[a] = "approved" ~>
        \/ status[a] \in {"executed", "cancelled", "execution_unknown"}
        \/ status[a] = "failed" /\ attemptCount[a] = MaxAttempts

-----------------------------------------------------------------------------
(* The abstract lifecycle, implemented.                                    *)

PhaseOf(s) ==
    CASE s = "absent" -> "none"
      [] s = "approved" -> "authorised"
      [] s = "executing" -> "running"
      [] s = "execution_unknown" -> "uncertain"
      [] s = "failed" -> "retry"
      [] s = "executed" -> "done"
      [] s \in {"rejected", "cancelled"} -> "closed"
      [] OTHER -> s

Lifecycle == INSTANCE RemediationLifecycle
                WITH phase <- [a \in Actions |-> PhaseOf(status[a])],
                     tries <- attemptCount

\* Read through its status and attempt_count alone, an action under all the
\* concurrency above behaves as the lifecycle promises: each attempt settled
\* and counted once, by its claimant or by recovery, and never restarted
\* from uncertainty without a human's judgement.
ImplementsLifecycle == Lifecycle!Spec
=============================================================================
