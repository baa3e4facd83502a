------------------------------- MODULE Evidence -------------------------------
(***************************************************************************)
(* What a language model is shown of one anomaly: the numbers of the day,   *)
(* each under the name by which an answer must cite it, and some earlier    *)
(* days to compare it with. A number that is NULL is not shown. What the    *)
(* numbers are, and how they are worded, is left out.                       *)
(***************************************************************************)
EXTENDS Integers, FiniteSets, FiniteSetsExt

CONSTANTS
    Kpi,       \* kpi_daily: of each date with a row, the columns that are not NULL, ...
    Complete,  \* ... and the dates whose orders all have a rate
    Measured   \* of each decision, by its date, the columns that are not NULL

KpiMetrics ==
    {"net_revenue_usd", "expected_net_revenue_usd", "revenue_delta_usd", "revenue_delta_pct",
     "gross_revenue_usd", "refund_amount_usd", "average_order_value_usd", "refund_rate",
     "orders_count", "customers_count", "units_sold",
     "rolling_7d_net_revenue_usd", "rolling_28d_net_revenue_usd"}

\* These two are worded, and so shown, whatever they are.
Always == {"baseline_status", "business_impact_tier"}

StatisticsMetrics ==
    {"anomaly_score", "revenue_robust_z", "aov_robust_z", "refund_robust_z", "orders_robust_z",
     "aov_deviation_pct", "orders_deviation_pct", "refund_rate_deviation", "signal_count"} \cup Always

\* Columns of anomaly_decisions that are shown among the KPIs.
Decided == {"expected_net_revenue_usd", "revenue_delta_usd", "revenue_delta_pct"}

ASSUME EvidenceAssumption ==
    /\ DOMAIN Kpi \subseteq Int /\ IsFiniteSet(DOMAIN Kpi) /\ Complete \subseteq DOMAIN Kpi
    /\ \A d \in DOMAIN Kpi : Kpi[d] \subseteq KpiMetrics \ Decided
    /\ \A d \in DOMAIN Measured : Measured[d] \subseteq Decided \cup StatisticsMetrics

\* The eligible decision's row: LEFT JOIN kpi_daily.
Columns(date) == Measured[date] \cup (IF date \in DOMAIN Kpi THEN Kpi[date] ELSE {})

-----------------------------------------------------------------------------
(* History. Dates are numbered by days.                                    *)

Newest(n, dates) == {d \in dates : Cardinality({e \in dates : e > d}) < n}

SAME_WEEKDAY_HISTORY_LIMIT == 6
PRECEDING_DAY_HISTORY_LIMIT == 5

DayOfWeek(date) == date % 7

SameWeekdayHistory(date) ==
    Newest(SAME_WEEKDAY_HISTORY_LIMIT,
           {d \in Complete : d < date /\ DayOfWeek(d) = DayOfWeek(date)})

\* Complete or not.
PrecedingDays(date) == Newest(PRECEDING_DAY_HISTORY_LIMIT, {d \in DOMAIN Kpi : d < date})

Observation(d, relation) == [calendar_date |-> d, relation |-> relation]

History(date) ==
    {Observation(d, "same_weekday") : d \in SameWeekdayHistory(date)}
    \cup {Observation(d, "preceding_day") : d \in PrecedingDays(date)}

-----------------------------------------------------------------------------
(* The package.                                                            *)

Package(date) ==
    [calendar_date |-> date,
     kpi           |-> KpiMetrics \cap Columns(date),
     statistics    |-> (StatisticsMetrics \cap Columns(date)) \cup Always,
     history       |-> History(date)]

\* metric_vocabulary: what an answer may cite. The days of the history are not in it.
MetricVocabulary(package) == package.kpi \cup package.statistics

\* assert_no_future_data.
NoFutureData(package) == \A o \in package.history : o.calendar_date < package.calendar_date

\* assert_cites_known_metrics.
CitesKnownMetrics(cited, package) == cited \subseteq MetricVocabulary(package)
===============================================================================
