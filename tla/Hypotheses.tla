------------------------------ MODULE Hypotheses ------------------------------
(***************************************************************************)
(* Stage 7: a language model explains what Stage 6 made actionable.  A run  *)
(* reads the eligible decisions once and then works through them by date,   *)
(* one transaction per anomaly, which stays open during the call to the     *)
(* model: a regeneration deletes first, asks, and inserts.  Runs overlap     *)
(* (n8n repeats a call that timed out, people call the endpoint), Stage 6    *)
(* re-decides, and Stage 8 goes on referring to what is stored.             *)
(***************************************************************************)
EXTENDS Evidence

CONSTANTS
    LastDate,     \* bound: anomalies, by their date
    Scheduled,    \* the runs n8n starts
    Manual,       \* the runs people start, with arguments of their own
    MaxManual,    \* bound: runs people start
    MaxUpsets,    \* bound: runs killed and verdicts changed
    Settled,      \* bound: anomalies whose verdict is "major" from the start and stays
    Served,       \* names the provider may put in "model"
    Configured,   \* LLM_MODEL, one of them
    JsonMode,     \* LLM_JSON_MODE
    Metrics       \* metric names a model may think of

Anomalies == 1 .. LastDate
Runs == Scheduled \cup Manual

ASSUME ConstantsAssumption ==
    /\ LastDate \in Nat /\ MaxManual \in Nat /\ MaxUpsets \in Nat
    /\ Scheduled \cap Manual = {}
    /\ IsFiniteSet(Runs)
    /\ Configured \in Served
    /\ JsonMode \in {"schema", "object"}
    /\ Anomalies \subseteq DOMAIN Measured

VARIABLES
    ready,     \* Stage 6's newest run is neither running nor failed
    decision,  \* the live verdict: "none", or what makes it actionable
    hyps,      \* anomaly_hypotheses: the id stored for an anomaly and a model name
    lastId,    \* the last id given to an analysis of each anomaly
    notice,    \* the notification of an anomaly: absent, or the id it refers to
    run,       \* each run: its rows, its summary and its open transaction
    manual,    \* runs people have started
    upsets     \* runs killed and verdicts changed

vars == <<ready, decision, hyps, lastId, notice, run, manual, upsets>>
bounds == <<manual, upsets>>
db == <<ready, decision, hyps, lastId, notice>>

\* Only "minor" is notified.
Verdicts == {"none", "minor", "major"}
Actionable(a) == decision[a] # "none"
Absent == -1
NoId == 0

NoTxn == [removed |-> FALSE]
Idle == [pc |-> "idle", txn |-> NoTxn]

Init ==
    /\ ready \in BOOLEAN
    /\ decision \in [Anomalies -> Verdicts]
    /\ \A a \in Settled : decision[a] = "major"
    /\ hyps = [a \in Anomalies |-> [m \in Served |-> NoId]]
    /\ lastId = [a \in Anomalies |-> 0]
    /\ notice = [a \in Anomalies |-> Absent]
    /\ run = [u \in Runs |-> Idle]
    /\ manual = 0 /\ upsets = 0

Explained(a) == \E m \in Served : hyps[a][m] # NoId

\* decide_anomalies upserts the verdict; the decision keeps its id.
Redecide(a, v) ==
    /\ a \notin Settled /\ decision[a] # v
    /\ upsets < MaxUpsets /\ upsets' = upsets + 1
    /\ decision' = [decision EXCEPT ![a] = v]
    /\ UNCHANGED <<ready, hyps, lastId, notice, run, manual>>

\* A run of Stage 6's is opened or fails ...
Unready ==
    /\ ready /\ ready' = FALSE
    /\ UNCHANGED <<decision, hyps, lastId, notice, run, bounds>>

\* ... and, it or a later one, succeeds.
Recovered ==
    /\ ~ready /\ ready' = TRUE
    /\ UNCHANGED <<decision, hyps, lastId, notice, run, bounds>>

-----------------------------------------------------------------------------
(* A run.                                                                  *)

First(n, S) == {a \in S : Cardinality({b \in S : b < a}) < n}

\* already_analysed, for the name the run asks for.
AlreadyAnalysed(a) == hyps[a][Configured] # NoId

\* run_analysis up to its loop: one read of the eligible decisions, the dates
\* asked for, what there is to do, and the first `limit` of it.
Start(u, regenerate, only, limit) ==
    LET found == {a \in only : Actionable(a)}
        pending == {a \in found : regenerate \/ ~AlreadyAnalysed(a)}
        taken == First(limit, pending)
    IN  /\ run[u] = Idle
        /\ run' = [run EXCEPT ![u] =
              [pc |-> "loop", regenerate |-> regenerate, covered |-> found \ (pending \ taken),
               todo |-> {[day |-> a, verdict |-> decision[a]] : a \in taken},
               failed |-> FALSE, txn |-> NoTxn]]
        /\ UNCHANGED db

\* Mutation: the schedule asks for one anomaly at a time.
StartScheduledCapped(u) ==
    u \in Scheduled /\ ready /\ Start(u, FALSE, Anomalies, 1) /\ UNCHANGED bounds

\* "Stage 6 Ready?", and the schedule asks for all there is. One that is turned away
\* changes nothing here.
StartScheduled(u) ==
    u \in Scheduled /\ ready /\ Start(u, FALSE, Anomalies, LastDate) /\ UNCHANGED bounds

StartManual(u) ==
    /\ u \in Manual /\ manual < MaxManual /\ manual' = manual + 1 /\ UNCHANGED upsets
    /\ \E regenerate \in BOOLEAN, only \in (SUBSET Anomalies) \ {{}}, limit \in Anomalies :
           Start(u, regenerate, only, limit)

Day(u) == run[u].txn.row.day

\* build_evidence_package, for each anomaly.
Shown == [a \in Anomalies |-> Package(a)]

\* _analyse_one begins with the earliest row left, and its evidence. A DELETE judges
\* the row as it is now.
Begin(u) ==
    /\ run[u].pc = "loop"
    /\ \E row \in run[u].todo :
          /\ \A other \in run[u].todo : row.day <= other.day
          /\ run' = [run EXCEPT ![u] =
                IF NoFutureData(Shown[row.day])
                THEN [run[u] EXCEPT !.pc = IF run[u].regenerate THEN "deleting" ELSE "asking",
                                    !.todo = @ \ {row},
                                    !.txn = [row |-> row, target |-> hyps[row.day][Configured],
                                             removed |-> FALSE, served |-> Configured]]
                ELSE [run[u] EXCEPT !.todo = @ \ {row}, !.failed = TRUE]]
    /\ UNCHANGED <<db, bounds>>

\* Another transaction that has not ended has deleted this analysis: who wants
\* it waits.
Locked(u, a, id) ==
    \E w \in Runs \ {u} : run[w].txn.removed /\ Day(w) = a /\ run[w].txn.target = id

\* Mutation: a notification may lose the analysis it was sent with.
RemovableAlways(a, id, queued) == id # NoId

\* ON DELETE SET NULL updates what refers to the row: a notification, and one that says
\* 'available' may not be without its id; a review item, if one was queued with it, and
\* guard_stage8_snapshot refuses if its verdict has moved.
Removable(a, id, queued) == notice[a] # id /\ (queued => decision[a] = "major")

\* Mutation: a row lost to a moved verdict is not counted.
FailedUncounted(u) == run' = [run EXCEPT ![u] = [@ EXCEPT !.pc = "loop", !.txn = NoTxn]]

\* connection.rollback(), and the loop goes on. The status is 'success' while
\* nothing failed.
Failed(u) == run' = [run EXCEPT ![u] = [@ EXCEPT !.pc = "loop", !.txn = NoTxn,
                                                 !.failed = TRUE]]

\* Mutation: the deletion is committed before the model is asked.
DeleteFirst(u) ==
    LET t == run[u].txn
        there == t.target # NoId /\ hyps[Day(u)][Configured] = t.target
    IN  /\ run[u].pc = "deleting"
        /\ run' = [run EXCEPT ![u].pc = "asking"]
        /\ hyps' = IF there THEN [hyps EXCEPT ![Day(u)][Configured] = NoId] ELSE hyps
        /\ UNCHANGED <<ready, decision, lastId, notice, bounds>>

\* delete_hypothesis. Who waited for a transaction that replaced the row finds
\* it gone, and does not see the new one.
Delete(u) ==
    LET t == run[u].txn
        there == t.target # NoId /\ hyps[Day(u)][Configured] = t.target
    IN  /\ run[u].pc = "deleting"
        /\ ~Locked(u, Day(u), t.target)
        /\ \E queued \in BOOLEAN :
              IF there /\ ~Removable(Day(u), t.target, queued) THEN Failed(u)
              ELSE run' = [run EXCEPT ![u] = [@ EXCEPT !.pc = "asking", !.txn.removed = there]]
        /\ UNCHANGED <<db, bounds>>

\* What an HTTP request brings: a body; a 400 that names the response format; or an
\* error, which is a timeout, another status, or a body that is not JSON.
Bodies == [kind : {"body"}, served : Served, valid : {TRUE}, cites : (SUBSET Metrics) \ {{}}]
          \cup [kind : {"body"}, served : Served, valid : {FALSE}]
Replies == Bodies \cup [kind : {"unsupported", "error"}]

\* complete(): a schema that is not supported is asked again as "object", once.
Negotiated(first, second) ==
    IF JsonMode = "schema" /\ first.kind = "unsupported" THEN second ELSE first

\* What complete() may come back with.
Answers == {Negotiated(first, second) : first, second \in Replies}

\* _parse: a message, which is JSON, which is a hypothesis and nothing more.
Parsed(reply) == reply.kind = "body" /\ reply.valid

\* guard_hypothesis_snapshot: the verdict is still the one that was read.
SnapshotHolds(row) == decision[row.day] = row.verdict

Accepted(row, reply) ==
    /\ Parsed(reply)
    /\ CitesKnownMetrics(reply.cites, Shown[row.day])
    /\ SnapshotHolds(row)

\* The call, and all that is judged of its answer before the insert.
Ask(u, reply) ==
    /\ run[u].pc = "asking"
    /\ IF Accepted(run[u].txn.row, reply)
       THEN run' = [run EXCEPT ![u] = [@ EXCEPT !.pc = "saving", !.txn.served = reply.served]]
       ELSE Failed(u)
    /\ UNCHANGED <<db, bounds>>

\* The insert and the commit. An analysis stored meanwhile under the served name
\* is kept and this one dropped, with what was deleted for it deleted all the same.
Save(u) ==
    LET t == run[u].txn
        a == Day(u)
        left == IF t.removed THEN [hyps[a] EXCEPT ![Configured] = NoId] ELSE hyps[a]
        fresh == left[t.served] = NoId
    IN  /\ run[u].pc = "saving"
        /\ ~Locked(u, a, left[t.served])
        /\ hyps' = [hyps EXCEPT ![a] =
              IF fresh THEN [left EXCEPT ![t.served] = lastId[a] + 1] ELSE left]
        /\ lastId' = IF fresh THEN [lastId EXCEPT ![a] = @ + 1] ELSE lastId
        /\ run' = [run EXCEPT ![u] = [@ EXCEPT !.pc = "loop", !.txn = NoTxn]]
        /\ UNCHANGED <<ready, decision, notice, bounds>>

\* The loop is through, and the summary is returned.
Finish(u) ==
    /\ run[u].pc = "loop" /\ run[u].todo = {}
    /\ run' = [run EXCEPT ![u] = Idle]
    /\ UNCHANGED <<db, bounds>>

\* The process or its connection dies: the transaction is rolled back.
Kill(u) ==
    /\ run[u] # Idle
    /\ upsets < MaxUpsets /\ upsets' = upsets + 1
    /\ run' = [run EXCEPT ![u] = Idle]
    /\ UNCHANGED <<db, manual>>

-----------------------------------------------------------------------------
\* Stage 8 notifies with the newest analysis, or with none. "Newest" is by when a
\* transaction started, which is any of those that are stored.
Notify(a) ==
    /\ decision[a] = "minor" /\ notice[a] = Absent
    /\ \E id \in IF Explained(a) THEN {hyps[a][m] : m \in Served} \ {NoId} ELSE {NoId} :
          /\ \A u \in Runs : ~(run[u].txn.removed /\ Day(u) = a /\ run[u].txn.target = id)
          /\ notice' = [notice EXCEPT ![a] = id]
    /\ UNCHANGED <<ready, decision, hyps, lastId, run, bounds>>

RunStep(u) ==
    \/ Begin(u) \/ Delete(u) \/ Save(u) \/ Finish(u)
    \/ \E reply \in Answers : Ask(u, reply)

Next ==
    \/ Unready \/ Recovered
    \/ \E a \in Anomalies : Notify(a) \/ \E v \in Verdicts : Redecide(a, v)
    \/ \E u \in Runs : StartScheduled(u) \/ StartManual(u) \/ RunStep(u) \/ Kill(u)

Spec == Init /\ [][Next]_vars

\* Stage 6 is ready again and again, and the schedule, which tries again and again, finds
\* it so at last; every run goes on working, and the model does not fail on one anomaly
\* for ever. Nothing else is sure to happen.
Good(u, a) ==
    /\ run[u].pc = "asking" /\ Day(u) = a
    /\ \E reply \in Bodies :
          /\ Parsed(reply) /\ CitesKnownMetrics(reply.cites, Shown[a])
          /\ Ask(u, reply)

Fairness ==
    /\ WF_vars(Recovered)
    /\ \A u \in Runs : WF_vars(RunStep(u))
    /\ \A u \in Scheduled : SF_vars(StartScheduled(u))
    /\ \A u \in Scheduled, a \in Anomalies : SF_vars(Good(u, a))

FairSpec == Spec /\ Fairness

-----------------------------------------------------------------------------
\* A run that reports success has left nothing it took up unexplained, although
\* it may have lost the race for the row, or the row it read as analysed may be
\* under regeneration.
SuccessMeansExplained ==
    \A u \in Runs :
        run[u].pc = "loop" /\ run[u].todo = {} /\ ~run[u].failed =>
            \A a \in run[u].covered : Explained(a)

\* What a person has been sent is not taken away: the analysis a notification was
\* delivered with is never replaced.
DeliveredReasonsStand ==
    \A a \in Anomalies : notice[a] \in {Absent, NoId} \cup {hyps[a][m] : m \in Served}

\* A regeneration that fails, is killed, or loses to another run never leaves an
\* anomaly without the analysis it had.
ExplainedStaysExplained == [][\A a \in Anomalies : Explained(a) => Explained(a)']_vars

\* An anomaly that stays actionable is explained in the end, although the model
\* may fail time and again, earlier dates may stay unexplained or be asked about
\* on every run, and regenerations hold the rows meanwhile.
ExplanationConverges ==
    \A a \in Anomalies :
        <>[]Actionable(a) /\ <>[][decision'[a] = decision[a]]_vars => <>[]Explained(a)

===============================================================================
