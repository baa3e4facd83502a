----------------------------- MODULE Maintenance -----------------------------
(***************************************************************************)
(* Stage 10: the maintenance run over what the other stages leave behind,   *)
(* and the two operations that touch dead letters, replay and purge.        *)
(* Maintenance runs overlap with one another and with an operator's replay. *)
(* Every step is a transaction or several of its own; any may raise, and    *)
(* the process may die between two of them.                                 *)
(***************************************************************************)
EXTENDS Integers, Sequences, FiniteSets

CONSTANTS
    Runs,         \* maintenance runs that may overlap
    Callers,      \* operators who ask for one step, overlapping with them
    Orders,
    Causes,       \* what may be wrong with a payload, of those in Wrong
    MaxAttempts,  \* max_replay_attempts
    MaxBatch,     \* bound: rows of one ingestion batch
    MaxRows       \* bound: rows ever staged

\* drift: a region, product or channel that reference data lacks; outside: a date
\* that dim_date lacks; unsupported: a well-formed currency that nobody supports;
\* broken: anything both sets of rules refuse.
Wrong == {"none", "drift", "outside", "unsupported", "broken"}

ASSUME MaintenanceAssumption ==
    /\ Orders # {} /\ Causes # {} /\ Causes \subseteq Wrong
    /\ Runs \cap Callers = {}
    /\ {MaxAttempts, MaxBatch, MaxRows} \subseteq Nat \ {0}

VARIABLES
    rows,     \* raw_orders_staging, by ingestion_id; a deleted row is "gone"
    facts,    \* fact_orders: of each order there, the row whose payload it was loaded from
    known,    \* the operator has added the missing reference data
    replays,  \* ingestion_replays
    maint     \* per run: its step and its summary

database == <<rows, facts, known, replays>>
vars == <<database, maint>>

Statuses == {"pending", "processed", "skipped", "failed", "gone"}

\* The steps of run_maintenance in their order. A run is idle at 0, done at 8.
Step == [runs |-> 1, remediation |-> 2, ageing |-> 3, retention |-> 4, replay |-> 5,
         notification |-> 6, health |-> 7]
Done == 8

\* alone: an operator asked for this step only. todo: the batches the replay step has
\* before it; picks: what it read of the first, the number of the next attempt of
\* each row. staged: what it will report. debt, which no code has: changes made that
\* the summary does not count (yet). failed: a step has failed, the status is not "success".
NoPicks == [i \in {} |-> 0]
Idle == [at |-> 0, alone |-> FALSE, todo |-> <<>>, picks |-> NoPicks, staged |-> 0,
         debt |-> 0, failed |-> FALSE]

Init ==
    /\ rows = <<>> /\ facts = {} /\ known = FALSE
    /\ replays = {}
    /\ maint = [m \in Runs \cup Callers |-> Idle]

Ids == DOMAIN rows

-----------------------------------------------------------------------------
(* Loading a batch.                                                        *)

\* Mutation: a replay trusts reference data.
ReplayTrusts == {"broken"}

Drifted == IF known THEN {} ELSE {"drift"}

\* The rules of Validate Orders, Stage 3, and those of load_staged_batch.
StageThreeRejects == {"broken", "unsupported", "outside"} \cup Drifted
ReplayRejects == {"broken"} \cup Drifted

IsFact(order) == \E f \in facts : rows[f].order = order

\* "rejected" and "marked": whatever the rules let pass is processed when the batch has
\* brought its order in, whichever row did, and skipped when the order was there before.
Settled(new, rejected) ==
    [i \in DOMAIN new |->
        [new[i] EXCEPT !.status = IF new[i].cause \in rejected THEN "failed"
                                  ELSE IF IsFact(new[i].order) THEN "skipped" ELSE "processed"]]

\* "ready" and "inserted": of the rows that pass with one new order, the first.
Inserted(settled) ==
    {i \in DOMAIN settled :
        /\ settled[i].status = "processed"
        /\ \A j \in DOMAIN settled :
              settled[j].status = "processed" /\ settled[j].order = settled[i].order => i <= j}

Loads(settled) ==
    /\ rows' = rows \o settled
    /\ facts' = facts \cup {Len(rows) + i : i \in Inserted(settled)}

Staged(payloads) ==
    [i \in DOMAIN payloads |-> [batch |-> Len(rows) + 1, order |-> payloads[i].order,
                                cause |-> payloads[i].cause, status |-> "pending"]]

\* A batch of Stage 3 by the time its run has ended ...
Ingest(payloads) ==
    LET settled == Settled(Staged(payloads), StageThreeRejects)
    IN  /\ Len(rows) + Len(payloads) <= MaxRows
        /\ Loads(settled)
        /\ UNCHANGED <<known, replays, maint>>

\* ... or has failed between staging and validation: one row, whose payload nobody looks at.
Strand(payload) ==
    /\ Len(rows) < MaxRows
    /\ rows' = rows \o Staged(<<payload>>)
    /\ UNCHANGED <<facts, known, replays, maint>>

\* The operator adds the missing reference data.
LearnReference ==
    /\ ~known /\ known' = TRUE
    /\ UNCHANGED <<rows, facts, replays, maint>>

-----------------------------------------------------------------------------
(* Maintenance.                                                            *)

Free(m) == maint[m].at \in {0, Done}

\* POST /operations/maintenance. Whether the caller wants a purge, and a replay, is
\* chosen at the step that asks.
Start(m) ==
    /\ Free(m)
    /\ maint' = [maint EXCEPT ![m] = [Idle EXCEPT !.at = 1]]
    /\ UNCHANGED database

Asks(m, step, batches) ==
    /\ Free(m)
    /\ maint' = [maint EXCEPT ![m] = [Idle EXCEPT !.at = step, !.alone = TRUE, !.todo = batches]]
    /\ UNCHANGED database

\* POST /operations/staging/purge.
AskPurge(m) == Asks(m, Step.retention, <<>>)

\* POST /operations/replay: a batch, and nothing else.
AskReplay(m, batch) == Asks(m, Step.replay, <<batch>>)

After(r, reported, failed) ==
    IF r.alone THEN Idle
    ELSE [r EXCEPT !.at = @ + 1, !.todo = <<>>, !.picks = NoPicks, !.staged = 0,
                   !.debt = @ - reported, !.failed = failed]

\* _step, for an operation that returns the number of its changes, and for one that
\* raises, whose detail is lost.
Returned(r, reported) == After(r, reported, r.failed)
Raised(r) == After(r, 0, TRUE)

Did(r, changes) == [r EXCEPT !.debt = @ + changes]

\* The two recoveries are one statement each; what they recover is not modelled here.
Recover(m) ==
    LET r == maint[m]
    IN  /\ r.at \in {Step.runs, Step.remediation}
        /\ \E n \in 0 .. 1 : maint' = [maint EXCEPT ![m] = Returned(Did(r, n), n)]
        /\ UNCHANGED database

\* _ageing_counts and _health_step read what there is.
Ageing(m) ==
    /\ maint[m].at = Step.ageing
    /\ maint' = [maint EXCEPT ![m] = Returned(maint[m], 0)]
    /\ UNCHANGED database

Health(m) ==
    /\ maint[m].at = Step.health
    /\ maint' = [maint EXCEPT ![m] = Returned(maint[m], 0)]
    /\ UNCHANGED database

\* RoutingRunSummary.status.
RoutingFailed(sent, unsent, queued) == unsent > 0 /\ sent + queued = 0

\* retry_stale_notifications: a routing run over the dates that have one, none without
\* a channel. Deliveries tried are its changes; when routing as a whole failed the step
\* is made to raise, after the fact.
Renotify(m) ==
    LET r == maint[m]
    IN  /\ r.at = Step.notification
        /\ \E sent, unsent, queued \in 0 .. 1 :
              LET retried == sent + unsent
                  did     == Did(r, retried)
              IN  maint' = [maint EXCEPT ![m] =
                      IF RoutingFailed(sent, unsent, queued) THEN Raised(did)
                      ELSE Returned(did, retried)]
        /\ UNCHANGED database

Involved == {p.origin : p \in replays} \cup {p.target : p \in replays}

\* Mutation: whatever has settled, for better or worse.
PurgeableFailed == {i \in Ids : rows[i].status \notin {"pending", "gone"}} \ Involved

Purgeable == {i \in Ids : rows[i].status \in {"processed", "skipped"}} \ Involved

\* purge_staging. Any rows may be past the retention period; none are in a dry run.
Retain(m) ==
    LET r == maint[m]
    IN  /\ r.at = Step.retention
        /\ \E doomed \in SUBSET Purgeable :
              LET n == Cardinality(doomed)
              IN  /\ rows' = [i \in Ids |-> IF i \in doomed THEN [rows[i] EXCEPT !.status = "gone"]
                                            ELSE rows[i]]
                  /\ maint' = [maint EXCEPT ![m] = Returned(Did(r, n), n)]
        /\ UNCHANGED <<facts, known, replays>>

StepRaises(m) ==
    /\ ~Free(m)
    /\ maint' = [maint EXCEPT ![m] = Raised(maint[m])]
    /\ UNCHANGED database

\* The service is killed; what is committed stays.
Killed(m) ==
    /\ ~Free(m)
    /\ maint' = [maint EXCEPT ![m] = Idle]
    /\ UNCHANGED database

-----------------------------------------------------------------------------
(* Replay.                                                                 *)

Used(i) == Cardinality({p \in replays : p.origin = i})

\* The failed rows of a batch that have attempts left.
Spendable(b) == {i \in Ids : rows[i].batch = b /\ rows[i].status = "failed" /\ Used(i) < MaxAttempts}

\* ORDER BY: numbers from the smallest up.
Ascending(S) ==
    {s \in [1 .. Cardinality(S) -> S] : \A i, j \in DOMAIN s : i < j => s[i] < s[j]}

Batches == {rows[i].batch : i \in Ids}

\* ingestion_replay_candidates, those that are eligible.
Candidates == {b \in Batches : Spendable(b) # {}}

\* _replay_step reads the candidates once, oldest first.
Plan(m) ==
    LET r == maint[m]
    IN  /\ r.at = Step.replay /\ r.todo = <<>>
        /\ \/ maint' = [maint EXCEPT ![m] = Returned(r, 0)]
           \/ /\ Candidates # {}
              /\ \E batches \in Ascending(Candidates) :
                    maint' = [maint EXCEPT ![m] = [r EXCEPT !.todo = batches]]
        /\ UNCHANGED database

\* Mutation: the step reports its last batch only.
BatchDoneLast(r, n) ==
    LET s == [Did(r, n) EXCEPT !.todo = Tail(@), !.picks = NoPicks, !.staged = n]
    IN  IF s.todo = <<>> THEN Returned(s, s.staged) ELSE s

\* The step's work is done when its last batch is.
BatchDone(r, n) ==
    LET s == [Did(r, n) EXCEPT !.todo = Tail(@), !.picks = NoPicks, !.staged = @ + n]
    IN  IF s.todo = <<>> THEN Returned(s, s.staged) ELSE s

\* stage_replay_batch up to its INSERTs: the rows, and their attempt numbers, as a
\* statement sees them that does not see what another replay has not committed. A batch
\* without such rows is closed at once.
ReplayReads(m) ==
    LET r == maint[m]
        rowsLeft == Spendable(Head(r.todo))
    IN  /\ r.at = Step.replay /\ r.todo # <<>> /\ DOMAIN r.picks = {}
        /\ maint' = [maint EXCEPT ![m] =
               IF rowsLeft = {} THEN BatchDone(r, 0)
               ELSE [r EXCEPT !.picks = [i \in rowsLeft |-> Used(i) + 1]]]
        /\ UNCHANGED database

\* Mutation: an overlapping replay goes unnoticed.
TakenNever(picks) == DOMAIN picks = {}

\* The unique key of (row, attempt).
Taken(picks) ==
    \E i \in DOMAIN picks, q \in replays : q.origin = i /\ q.attempt = picks[i]

Outcome == [processed |-> "succeeded", skipped |-> "duplicate", failed |-> "failed_again"]

\* The rest of replay_failed_batch, to its commit: copies, their provenance, their
\* load. A taken attempt, or an inserted date that fact_orders' foreign key refuses,
\* rolls all of it back, and the step is over.
ReplayCommits(m) ==
    LET r == maint[m]
    IN  /\ DOMAIN r.picks # {}
        /\ Len(rows) + Cardinality(DOMAIN r.picks) <= MaxRows
        /\ \E originals \in Ascending(DOMAIN r.picks) :
              LET copies  == [i \in DOMAIN originals |-> [rows[originals[i]] EXCEPT !.batch = Len(rows) + 1]]
                  settled == Settled(copies, ReplayRejects)
                  refused == Taken(r.picks) \/ \E i \in Inserted(settled) : settled[i].cause = "outside"
              IN  IF refused
                  THEN maint' = [maint EXCEPT ![m] = Raised(r)] /\ UNCHANGED <<rows, facts, replays>>
                  ELSE /\ Loads(settled)
                       /\ replays' = replays \cup
                             {[origin |-> originals[i], attempt |-> r.picks[originals[i]],
                               target |-> Len(rows) + i, outcome |-> Outcome[settled[i].status]] :
                                  i \in DOMAIN originals}
                       /\ maint' = [maint EXCEPT ![m] = BatchDone(r, Len(copies))]
        /\ UNCHANGED known

MaintStep(m) ==
    \/ Recover(m) \/ Ageing(m) \/ Retain(m) \/ Renotify(m) \/ Health(m)
    \/ Plan(m) \/ ReplayReads(m) \/ ReplayCommits(m)
    \/ StepRaises(m) \/ Killed(m)

Payloads == [order : Orders, cause : Causes]

Next ==
    \/ \E n \in 1 .. MaxBatch : \E payloads \in [1 .. n -> Payloads] : Ingest(payloads)
    \/ Strand(CHOOSE payload \in Payloads : TRUE)
    \/ LearnReference
    \/ \E m \in Runs : Start(m)
    \/ \E c \in Callers : AskPurge(c)
    \/ \E c \in Callers, b \in Batches : AskReplay(c, b)
    \/ \E m \in Runs \cup Callers : MaintStep(m)

Spec == Init /\ [][Next]_vars

-----------------------------------------------------------------------------
\* Nothing that maintenance does makes a failure look as if it had not happened: a
\* dead letter stays one, with every record of its replays.
DeadLettersSurvive ==
    [][/\ \A i \in Ids : rows[i].status = "failed" => rows'[i] = rows[i]
       /\ replays \subseteq replays']_vars

\* What an outcome tells of the copy's order: "succeeded", that this replay brought it
\* in, by this copy or by one beside it; "duplicate", that an earlier batch had. The
\* copy that a fact was loaded from has succeeded.
OutcomeIsTrue(p) ==
    /\ p.outcome = Outcome[rows[p.target].status]
    /\ p.outcome # "failed_again" =>
          \E f \in facts : /\ rows[f].order = rows[p.target].order
                           /\ IF p.outcome = "succeeded" THEN rows[f].batch = rows[p.target].batch
                              ELSE rows[f].batch < rows[p.target].batch
    /\ p.target \in facts => p.outcome = "succeeded"

\* Replays overlap, are refused and die, and yet: the attempts on a row are numbered
\* from one up and within the budget, rows of one batch are replayed together or not
\* at all, a copy has one origin and its payload, and its outcome is true and stays so,
\* whatever other replays load and the purge deletes.
ReplaysAreExact ==
    /\ \A i \in Ids :
          /\ {p.attempt : p \in {q \in replays : q.origin = i}} = 1 .. Used(i)
          /\ Used(i) <= MaxAttempts
          /\ \A j \in Ids : rows[i].batch = rows[j].batch /\ rows[i].status = "failed" /\ rows[j].status = "failed"
                               => Used(i) = Used(j)
    /\ \A p \in replays :
          /\ \A q \in replays : q.target = p.target => q = p
          /\ rows[p.origin].status = "failed"
          /\ rows[p.target].order = rows[p.origin].order /\ rows[p.target].cause = rows[p.origin].cause
          /\ rows[p.target].status \in DOMAIN Outcome /\ OutcomeIsTrue(p)

\* What is in fact_orders was loaded from a payload that Stage 3 would have let pass, or,
\* by a replay, from one in a currency that nobody supports: never from one that both
\* refuse, or dated outside the calendar. (A staging row of such a date may call itself
\* processed, when another row of its batch brought the order in.)
OnlyCurrencyRulesDiffer ==
    \A f \in facts : rows[f].cause # "none" =>
        \/ rows[f].cause = "drift" /\ known
        \/ rows[f].cause = "unsupported" /\ \E p \in replays : p.target = f

\* A summary never claims a change that was not made, and a run that calls itself a
\* success leaves none out. One with a failed step may: replay after its first batch,
\* notification after a send.
SummaryIsHonest ==
    \A m \in Runs :
        LET r == maint[m]
        IN  /\ r.debt >= r.staged
            /\ ~r.failed => r.debt = r.staged

\* What its comment says of replay_failed_batch: "bounded by max_replay_attempts".
\* Copies of a payload, and copies of its copies.
Copies[n \in Nat] ==
    [i \in Ids |-> IF n = 0 THEN {}
                   ELSE LET direct == {p.target : p \in {q \in replays : q.origin = i}}
                        IN  direct \cup UNION {Copies[n - 1][j] : j \in direct}]

ReplayIsBounded == \A i \in Ids : Cardinality(Copies[MaxRows][i]) <= MaxAttempts
=============================================================================
