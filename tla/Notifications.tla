---------------------------- MODULE Notifications ----------------------------
(***************************************************************************)
(* Stage 8's routing runs: the schedule's, the retry n8n makes of a call it *)
(* timed out on while the first is still working, and maintenance's, all   *)
(* through one loop.  A run reads what Stage 6 made actionable, queues what *)
(* needs a person, and delivers the rest in two transactions with the       *)
(* provider's call between them, while Stage 6 goes on re-deciding.         *)
(***************************************************************************)
EXTENDS Integers, FiniteSets, FiniteSetsExt

CONSTANTS
    Anomalies,            \* anomalies with a decision under one decision_version
    Recipients,           \* configured recipients of the channel
    Runs,                 \* routing runs that may overlap
    Resenders,            \* the runs asked to resend
    MaxDeliveryAttempts,  \* MAX_DELIVERY_ATTEMPTS
    MaxCrashes,           \* bound: runs killed
    MaxNumber             \* bound: a row with this attempt_count is left alone

ASSUME ConstantsAssumption ==
    /\ Resenders \subseteq Runs
    /\ IsFiniteSet(Runs)
    /\ MaxDeliveryAttempts \in Nat \ {0}
    /\ MaxCrashes \in Nat /\ MaxNumber \in Nat

\* "none" is no action, "minor" a notification; "major" stands for the two
\* severities that go to review.
Verdicts == {"none", "minor", "major"}
Statuses == {"absent", "pending", "sent", "failed", "abandoned"}
Outcomes == {"success", "retryable", "permanent"}
Notes == Anomalies \X Recipients

VARIABLES
    decision,  \* the live verdict of each anomaly
    queued,    \* anomalies with a review_queue row
    note,      \* notifications: status and attempt_count
    attempts,  \* notification_attempts, by notification
    told,      \* notifications the recipient has received at least once
    todo,      \* what each run has read for a recipient and not handled
    run,       \* where each run is with the notification it delivers
    crashes

vars == <<decision, queued, note, attempts, told, todo, run, crashes>>
db == <<decision, queued, note, attempts>>

Idle == [pc |-> "idle"]

Init ==
    /\ decision \in [Anomalies -> Verdicts]
    /\ queued = {}
    /\ note = [n \in Notes |-> [status |-> "absent", count |-> 0]]
    /\ attempts = [n \in Notes |-> {}]
    /\ told = {}
    /\ todo = [u \in Runs |-> {}]
    /\ run = [u \in Runs |-> Idle]
    /\ crashes = 0

\* decide_anomalies upserts whatever the evidence now says.
Redecide(a, v) ==
    /\ decision[a] # v
    /\ decision' = [decision EXCEPT ![a] = v]
    /\ UNCHANGED <<queued, note, attempts, told, todo, run, crashes>>

-----------------------------------------------------------------------------
(* The run's loop.                                                         *)

\* Mutation: what was notified is taken to be handled, whatever it becomes.
ActionableOnce(a) ==
    /\ decision[a] = "minor" \/ (decision[a] = "major" /\ a \notin queued)
    /\ \A n \in Notes : n[1] = a => note[n].status # "sent"

\* load_routable_decisions for one recipient. Rows that the loop would only
\* count as skipped are left out.
Actionable(a) == decision[a] = "minor" \/ (decision[a] = "major" /\ a \notin queued)

Read(u, p) ==
    /\ run[u] = Idle /\ todo[u] = {}
    /\ todo' = [todo EXCEPT ![u] =
          {[note |-> <<a, p>>, verdict |-> decision[a]] : a \in {b \in Anomalies : Actionable(b)}}]
    /\ UNCHANGED <<db, told, run, crashes>>

Takes(u, row) ==
    /\ run[u] = Idle /\ row \in todo[u]
    /\ todo' = [todo EXCEPT ![u] = @ \ {row}]

\* guard_stage8_snapshot, before every insert and update.
SnapshotHolds(row) == decision[row.note[1]] = row.verdict

\* _queue_review: refused when the verdict has moved, ignored when queued.
QueueReview(u, row) ==
    /\ Takes(u, row) /\ row.verdict = "major"
    /\ queued' = IF SnapshotHolds(row) THEN queued \cup {row.note[1]} ELSE queued
    /\ UNCHANGED <<decision, note, attempts, told, run, crashes>>

\* Mutations: what was sent is sent again; what was abandoned is tried again.
ResendsAlways(status, count, resend) ==
    status = "sent" \/ status = "pending" \/ (status = "failed" /\ count < MaxDeliveryAttempts)
RetriesAbandoned(status, count, resend) == status # "sent"

ShouldAttempt(status, count, resend) ==
    CASE status \in {"sent", "abandoned"} -> resend
      [] status = "failed" -> count < MaxDeliveryAttempts
      [] OTHER -> TRUE

\* _deliver up to its first commit: the row is inserted or, if it exists, read.
\* The guard judges the insert even when the row exists.
ClaimRow(u, row) ==
    LET n == row.note
        current == IF note[n].status = "absent" THEN [note[n] EXCEPT !.status = "pending"]
                                                ELSE note[n]
        goesOn == ShouldAttempt(current.status, current.count, u \in Resenders)
    IN  /\ Takes(u, row) /\ row.verdict = "minor"
        /\ note[n].count < MaxNumber
        /\ IF SnapshotHolds(row)
           THEN /\ note' = [note EXCEPT ![n] = current]
                /\ run' = [run EXCEPT ![u] =
                      IF goesOn THEN [pc |-> "claimed", note |-> n, seen |-> current.count]
                                ELSE Idle]
           ELSE UNCHANGED <<note, run>>
        /\ UNCHANGED <<decision, queued, attempts, told, crashes>>

\* provider.send. A timed-out call may have been delivered.
Send(u, outcome) ==
    /\ run[u].pc = "claimed"
    /\ run' = [run EXCEPT ![u] = [pc |-> "answered", note |-> @.note, seen |-> @.seen,
                                  outcome |-> outcome]]
    /\ \/ outcome # "permanent" /\ told' = told \cup {run[u].note}
       \/ outcome # "success" /\ UNCHANGED told
    /\ UNCHANGED <<db, todo, crashes>>

\* The number an attempt is given: GREATEST(requested, recorded maximum + 1).
AttemptNumber(n, seen) == Max({seen + 1} \cup {a.number + 1 : a \in attempts[n]})

\* _RECORD_ATTEMPT sees what is committed when it starts; two that start
\* together compute one number.
InsertAttempt(u) ==
    /\ run[u].pc = "answered"
    /\ run' = [run EXCEPT ![u] = [pc |-> "recording", note |-> @.note, outcome |-> @.outcome,
                                  number |-> AttemptNumber(@.note, @.seen)]]
    /\ UNCHANGED <<db, told, todo, crashes>>

\* Mutation: the budget is one larger here than in _should_attempt.
StatusOneOver(outcome, number) ==
    IF outcome = "success" THEN "sent"
    ELSE IF outcome = "retryable" /\ number <= MaxDeliveryAttempts THEN "failed"
    ELSE "abandoned"

StatusAfter(outcome, number) ==
    IF outcome = "success" THEN "sent"
    ELSE IF outcome = "retryable" /\ number < MaxDeliveryAttempts THEN "failed"
    ELSE "abandoned"

\* Mutation: attempts without the unique key.
RecordableTwice(r) == decision[r.note[1]] = "minor"

\* The unique key of attempts and the snapshot guard of the row, either of
\* which rolls back the attempt and the result together.
Recordable(r) ==
    /\ \A a \in attempts[r.note] : a.number # r.number
    /\ decision[r.note[1]] = "minor"

\* Attempt, result and commit.
Finish(u) ==
    LET r == run[u]
    IN  /\ r.pc = "recording"
        /\ IF Recordable(r)
           THEN /\ attempts' = [attempts EXCEPT ![r.note] =
                      @ \cup {[number |-> r.number, outcome |-> r.outcome]}]
                /\ note' = [note EXCEPT ![r.note] =
                      [status |-> StatusAfter(r.outcome, r.number), count |-> r.number]]
           ELSE UNCHANGED <<attempts, note>>
        /\ run' = [run EXCEPT ![u] = Idle]
        /\ UNCHANGED <<decision, queued, told, todo, crashes>>

\* A provider or payload error that _deliver does not return: the loop rolls
\* back and goes on with the next row.
RowFails(u) ==
    /\ run[u].pc = "claimed"
    /\ run' = [run EXCEPT ![u] = Idle]
    /\ UNCHANGED <<db, told, todo, crashes>>

\* The service is killed: what was not committed is gone, what was sent is not.
Crash(u) ==
    /\ run[u] # Idle \/ todo[u] # {}
    /\ crashes < MaxCrashes
    /\ crashes' = crashes + 1
    /\ run' = [run EXCEPT ![u] = Idle]
    /\ todo' = [todo EXCEPT ![u] = {}]
    /\ UNCHANGED <<db, told>>

-----------------------------------------------------------------------------
RunStep(u) ==
    \/ \E p \in Recipients : Read(u, p)
    \/ \E row \in todo[u] : QueueReview(u, row) \/ ClaimRow(u, row)
    \/ \E outcome \in Outcomes : Send(u, outcome)
    \/ InsertAttempt(u)
    \/ Finish(u)

Next ==
    \/ \E a \in Anomalies, v \in Verdicts : Redecide(a, v)
    \/ \E u \in Runs : RunStep(u) \/ RowFails(u) \/ Crash(u)

Spec == Init /\ [][Next]_vars

\* The schedule starts a run for every recipient again and again, and a run
\* works until it is done. What the workflow asks first, whether Stage 6's newest run
\* succeeded, turns some of its runs away (a retried call, maintenance and people do
\* not ask): that runs get past it again and again is part of this assumption. Errors
\* and kills need not happen, and neither does an error every time.
Fairness ==
    /\ \A u \in Runs : WF_vars(RunStep(u))
    /\ \A u \in Runs, p \in Recipients : SF_vars(Read(u, p))
    /\ \A u \in Runs : SF_vars(\E outcome \in Outcomes : Send(u, outcome))

FairSpec == Spec /\ Fairness

-----------------------------------------------------------------------------
Rows == [note : Notes, verdict : Verdicts]

RunStates ==
    {Idle}
    \cup [pc : {"claimed"}, note : Notes, seen : 0 .. MaxNumber]
    \cup [pc : {"answered"}, note : Notes, seen : 0 .. MaxNumber, outcome : Outcomes]
    \cup [pc : {"recording"}, note : Notes, outcome : Outcomes, number : Nat \ {0}]

TypeOK ==
    /\ decision \in [Anomalies -> Verdicts]
    /\ queued \subseteq Anomalies
    /\ note \in [Notes -> [status : Statuses, count : Nat]]
    /\ attempts \in [Notes -> SUBSET [number : Nat \ {0}, outcome : Outcomes]]
    /\ told \subseteq Notes
    /\ todo \in [Runs -> SUBSET Rows]
    /\ run \in [Runs -> RunStates]
    /\ crashes \in 0 .. MaxCrashes

\* The counter and the history do not drift apart, although runs overlap and
\* are refused or killed between the call and its record: attempts are numbered
\* from one up to attempt_count, each number once.
LedgerExact ==
    \A n \in Notes :
        /\ {a.number : a \in attempts[n]} = 1 .. note[n].count
        /\ \A a, b \in attempts[n] : a.number = b.number => a = b

LastOutcome(n) == (CHOOSE a \in attempts[n] : a.number = note[n].count).outcome

\* A row's status is what its last recorded attempt made of it, "sent" is never a
\* guess, and "failed" always means that a later run will try again.
StatusIsLastOutcome ==
    \A n \in Notes :
        LET s == note[n].status
        IN  IF note[n].count = 0 THEN s \in {"absent", "pending"}
            ELSE CASE LastOutcome(n) = "success" -> s = "sent" /\ n \in told
                   [] LastOutcome(n) = "permanent" -> s = "abandoned"
                   [] OTHER -> s = IF note[n].count < MaxDeliveryAttempts THEN "failed"
                                   ELSE "abandoned"

\* Overlapping runs can spend more than the budget, because each decides on what
\* it read; but by no more than one attempt each.
BudgetOverrunIsBounded ==
    Resenders = {} =>
        \A n \in Notes :
            note[n].count <= MaxDeliveryAttempts + Cardinality(Runs) - 1

Succeeded(n, i) == \E a \in attempts[n] : a.number = i /\ a.outcome = "success"

\* No run starts to repeat a delivery that stands: while nothing fails, only runs
\* that were already on their way can deliver again, so a longer series of
\* successes than there are runs is impossible; a run by itself delivers once.
RepeatsNeedOverlap ==
    Resenders = {} =>
        \A n \in Notes : \A i \in 1 .. note[n].count :
            \E j \in i .. i + Cardinality(Runs) : ~Succeeded(n, j)

\* Once the verdict stays "minor", every recipient's notification ends up sent
\* or given up on by name, however runs overlap.
DeliveryConverges ==
    \A n \in Notes :
        (<>[](decision[n[1]] = "minor")) => <>[](note[n].status \in {"sent", "abandoned"})

\* A verdict that settles on one meant for people reaches the queue, although it
\* was notified before it escalated, and runs that read it while it moved were
\* refused or killed.
EscalationIsQueued ==
    \A a \in Anomalies : (<>[](decision[a] = "major")) => <>(a \in queued)
=============================================================================
