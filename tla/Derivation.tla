------------------------------ MODULE Derivation ------------------------------
(***************************************************************************)
(* From orders to decisions.  The KPI rebuild, the detector and the        *)
(* decision engine run on their own schedules over tables that the others  *)
(* replace: each reads a snapshot, computes, and writes what it computed   *)
(* over whatever is there by then, while orders and exchange rates arrive  *)
(* late for days already judged.                                           *)
(***************************************************************************)
EXTENDS Decision, FiniteSetsExt

CONSTANTS
    Orders, OrderDate, Gross, Refund,   \* the orders there may be, and their facts
    History,                            \* those the warehouse holds, with a rate, at the start
    Detectors,                          \* detections that may overlap
    Deciders,                           \* decision runs that may overlap
    Scheduled,                          \* the runs n8n starts every day; other detections come
                                        \* by HTTP or CLI, or outlive a call that timed out,
                                        \* and other decision runs are started by hand
    Judge(_, _)                         \* the detector: KPI series and day to result

ASSUME OrdersAssumption ==
    /\ IsFiniteSet(Orders) /\ History \subseteq Orders
    /\ \A r, q \in Scheduled \cap Detectors : r = q

VARIABLES
    landed,    \* fact_orders
    rated,     \* those of them with exchange_rate_to_usd
    kpi,       \* kpi_daily, by day
    anomaly,   \* anomaly_daily, by day
    stage5,    \* status of the latest 'anomaly-detector' run in the ledger
    detector,  \* where each detection is, and the results it computed
    decider,   \* where each decision run is, and the evidence it graded
    decision,  \* anomaly_decisions, by day
    reasons    \* anomaly_decision_reasons, by day

vars == <<landed, rated, kpi, anomaly, stage5, detector, decider, decision, reasons>>

NoRows == [d \in {} |-> Null]
Idle == [pc |-> "idle"]

Init ==
    /\ landed = History /\ rated = History
    /\ kpi = NoRows /\ anomaly = NoRows
    /\ stage5 = "none"
    /\ detector = [r \in Detectors |-> Idle]
    /\ decider = [r \in Deciders |-> Idle]
    /\ decision = NoRows /\ reasons = NoRows

\* INSERT ... ON CONFLICT DO UPDATE of some days' rows.
Upsert(table, rows) ==
    [d \in DOMAIN table \cup DOMAIN rows |-> IF d \in DOMAIN rows THEN rows[d] ELSE table[d]]

\* ---- facts ----------------------------------------------------------------

\* Ingestion inserts an order, and a later node looks for a rate.
Land(o) ==
    /\ o \notin landed
    /\ landed' = landed \cup {o}
    /\ UNCHANGED <<rated, kpi, anomaly, stage5, detector, decider, decision, reasons>>

\* Ingestion, or the FX sync, attaches a rate to an order that has none.
AttachRate(o) ==
    /\ o \in landed \ rated
    /\ rated' = rated \cup {o}
    /\ UNCHANGED <<landed, kpi, anomaly, stage5, detector, decider, decision, reasons>>

\* ---- refresh_kpi_daily() ---------------------------------------------------

KpiRow(orders, converted) ==
    LET gross == MapThenSumSet(LAMBDA o : Gross[o], converted)
        refund == MapThenSumSet(LAMBDA o : Refund[o], converted)
        known == converted # {}
    IN [orders |-> Cardinality(orders),
        revenue |-> IF known THEN gross - refund ELSE Null,
        aov |-> IF known THEN (gross - refund) \div Cardinality(converted) ELSE Null,
        refund |-> IF known /\ gross # 0 THEN (100 * refund) \div gross ELSE Null,
        complete |-> converted = orders]

KpiOf(orders, converted) ==
    [d \in {OrderDate[o] : o \in orders} |->
        LET day == {o \in orders : OrderDate[o] = d} IN KpiRow(day, day \cap converted)]

\* Every table the rebuild can leave; without orders it is empty.
KpiTables == {KpiOf(orders, converted) : orders \in SUBSET Orders, converted \in SUBSET Orders}

\* The CHECKs of anomaly_daily: a verdict needs a score.
Coherent(a) ==
    /\ a.status \in BaselineStatus /\ a.anomaly \in BOOLEAN
    /\ a.anomaly => a.status = "scored"

ASSUME JudgeAssumption ==
    \A table \in KpiTables : \A d \in DOMAIN table : Coherent(Judge(table, d))

\* DELETE and INSERT in one transaction: readers see the old table or the new.
RefreshKpi ==
    /\ kpi' = KpiOf(landed, rated)
    /\ UNCHANGED <<landed, rated, anomaly, stage5, detector, decider, decision, reasons>>

\* ---- run_detection() ---------------------------------------------------------

DetectOpen(r) ==
    /\ r \in Scheduled /\ detector[r].pc = "idle"
    /\ stage5' = "running"
    /\ detector' = [detector EXCEPT ![r] = [pc |-> "opened"]]
    /\ UNCHANGED <<landed, rated, kpi, anomaly, decider, decision, reasons>>

\* Mutation: every run is an incremental one.
NewTargets(mode) == DOMAIN kpi \ DOMAIN anomaly

\* An incremental run narrows what is written, not what is compared with.
Targets(mode) == IF mode = "full" THEN DOMAIN kpi ELSE DOMAIN kpi \ DOMAIN anomaly

\* n8n asks for a full run.
Modes(r) == IF r \in Scheduled THEN {"full"} ELSE {"full", "incremental"}

DetectRead(r, mode) ==
    /\ detector[r].pc = IF r \in Scheduled THEN "opened" ELSE "idle"
    /\ mode \in Modes(r)
    /\ detector' = [detector EXCEPT ![r] =
            [pc |-> "computed", results |-> [d \in Targets(mode) |-> Judge(kpi, d)]]]
    /\ UNCHANGED <<landed, rated, kpi, anomaly, stage5, decider, decision, reasons>>

DetectWrite(r) ==
    /\ detector[r].pc = "computed"
    /\ anomaly' = Upsert(anomaly, detector[r].results)
    /\ detector' = [detector EXCEPT ![r] = IF r \in Scheduled THEN [pc |-> "written"] ELSE Idle]
    /\ UNCHANGED <<landed, rated, kpi, stage5, decider, decision, reasons>>

\* 'partial' counts as a success for what follows.
DetectFinalize(r) ==
    /\ detector[r].pc = "written"
    /\ stage5' = "success"
    /\ detector' = [detector EXCEPT ![r] = Idle]
    /\ UNCHANGED <<landed, rated, kpi, anomaly, decider, decision, reasons>>

\* The call, n8n or the database fails before or after the write; the error
\* handler, or in its absence maintenance, closes the ledger row.
DetectFails(r) ==
    /\ detector[r].pc # "idle"
    /\ detector' = [detector EXCEPT ![r] = Idle]
    /\ stage5' = IF r \in Scheduled THEN "failed" ELSE stage5
    /\ UNCHANGED <<landed, rated, kpi, anomaly, decider, decision, reasons>>

\* ---- decide_anomalies() ------------------------------------------------------

\* Stage 5 has results and its latest run neither hangs nor failed.
Stage5Ready == DOMAIN anomaly # {} /\ stage5 \notin {"running", "failed"}

DecideOpen(r) ==
    /\ decider[r].pc = "idle"
    /\ Stage5Ready
    /\ decider' = [decider EXCEPT ![r] = [pc |-> "opened"]]
    /\ UNCHANGED <<landed, rated, kpi, anomaly, stage5, detector, decision, reasons>>

\* The detection row LEFT JOINed to the KPI row of today, which may be younger.
Actual(d) ==
    IF anomaly[d].status = "scored" /\ d \in DOMAIN kpi THEN kpi[d].revenue ELSE Null

EvidenceOf(d) ==
    LET a == anomaly[d] IN
    [status |-> a.status, anomaly |-> a.anomaly, signals |-> a.signals,
     refund |-> a.refund, aov |-> a.aov, orders |-> a.orders,
     expected |-> a.expected, actual |-> Actual(d)]

\* The temporary table: one statement, one snapshot of both tables.
DecideEvaluate(r) ==
    /\ decider[r].pc = "opened"
    /\ decider' = [decider EXCEPT ![r] =
            [pc |-> "graded", rows |-> [d \in DOMAIN anomaly |-> Decided(EvidenceOf(d))]]]
    /\ UNCHANGED <<landed, rated, kpi, anomaly, stage5, detector, decision, reasons>>

\* Mutation: the codes of earlier verdicts stay.
ReasonsAdded(rows) ==
    Upsert(reasons, [d \in DOMAIN rows |->
        Codes(rows[d].evidence) \cup IF d \in DOMAIN reasons THEN reasons[d] ELSE {}])

\* The codes of the decisions written are replaced, not added to.
ReasonsAfter(rows) == Upsert(reasons, [d \in DOMAIN rows |-> Codes(rows[d].evidence)])

\* Upsert and codes under the row locks of the upsert, in the function's transaction.
DecidePersist(r) ==
    /\ decider[r].pc = "graded"
    /\ \A d \in DOMAIN decider[r].rows : Accepted(decider[r].rows[d])
    /\ decider' = [decider EXCEPT ![r] = Idle]
    /\ decision' = Upsert(decision, decider[r].rows)
    /\ reasons' = ReasonsAfter(decider[r].rows)
    /\ UNCHANGED <<landed, rated, kpi, anomaly, stage5, detector>>

DecideFails(r) ==
    /\ decider[r].pc # "idle"
    /\ decider' = [decider EXCEPT ![r] = Idle]
    /\ UNCHANGED <<landed, rated, kpi, anomaly, stage5, detector, decision, reasons>>

Next ==
    \/ \E o \in Orders : Land(o) \/ AttachRate(o)
    \/ RefreshKpi
    \/ \E r \in Detectors :
        \/ DetectOpen(r) \/ DetectWrite(r) \/ DetectFinalize(r) \/ DetectFails(r)
        \/ \E mode \in {"full", "incremental"} : DetectRead(r, mode)
    \/ \E r \in Deciders :
        DecideOpen(r) \/ DecideEvaluate(r) \/ DecidePersist(r) \/ DecideFails(r)

Spec == Init /\ [][Next]_vars

\* The schedules come round every day, and a run that is tried again and again
\* succeeds at last.  Nobody owes an order, a rate, or a run beside the schedule.
Fairness ==
    /\ WF_vars(RefreshKpi)
    /\ \A r \in Detectors \cap Scheduled :
        /\ WF_vars(DetectOpen(r)) /\ SF_vars(DetectRead(r, "full"))
        /\ SF_vars(DetectWrite(r)) /\ SF_vars(DetectFinalize(r))
    /\ \A r \in Deciders \cap Scheduled :
        SF_vars(DecideOpen(r)) /\ SF_vars(DecideEvaluate(r)) /\ SF_vars(DecidePersist(r))

FairSpec == Spec /\ Fairness

-------------------------------------------------------------------------------
\* ---- properties -------------------------------------------------------------

\* Whatever two overlapping decision runs did, a decision and the reason codes
\* stored in the other table are one verdict on one body of evidence, and the
\* headline is among the codes.
VerdictIsExplained ==
    \A d \in DOMAIN decision :
        /\ decision[d] = Decided(decision[d].evidence)
        /\ reasons[d] = Codes(decision[d].evidence)
        /\ decision[d].headline \in reasons[d]

\* Once orders and rates stop arriving, every day is decided, and stays
\* decided, as its final figures deserve: no stale write survives the schedule.
DecisionsConverge ==
    <>[] /\ kpi = KpiOf(landed, rated)
         /\ anomaly = [d \in DOMAIN kpi |-> Judge(kpi, d)]
         /\ decision = [d \in DOMAIN anomaly |-> Decided(EvidenceOf(d))]
===============================================================================
