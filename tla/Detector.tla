------------------------------- MODULE Detector -------------------------------
(***************************************************************************)
(* The detector of the analytics service as operators: which earlier days  *)
(* a day is compared with, how far each of four signals lies from them,    *)
(* and whether together they make an anomaly.  Money and rates are whole   *)
(* numbers and z-scores tenths, truncated toward zero.                     *)
(***************************************************************************)
EXTENDS Amounts, FiniteSets, FiniteSetsExt

CONSTANTS
    DayOfWeek, IsWeekend,                       \* dim_date, by day
    MinDayOfWeek, MaxDayOfWeek,                 \* observations of a same-weekday baseline
    MinDayType, MaxDayType                      \* and of the fallback

ASSUME WindowsAssumption ==
    /\ MinDayOfWeek \in Nat \ {0} /\ MaxDayOfWeek \in Nat /\ MaxDayOfWeek >= MinDayOfWeek
    /\ MinDayType \in Nat \ {0} /\ MaxDayType \in Nat /\ MaxDayType >= MinDayType

Signals == {"revenue", "aov", "refund", "orders"}
Weight(s) == IF s = "revenue" THEN 2 ELSE 1     \* in halves
SignalNoiseFloor == 10
RobustZCap == 100
RobustZSignificant == 35
AnomalyScoreThreshold == Weight("revenue") * (RobustZSignificant - SignalNoiseFloor)

Larger(m, n) == IF m < n THEN n ELSE m
Truncate(m, n) == IF m < 0 THEN -((-m) \div n) ELSE m \div n

\* ---- statistics.py: v is a series indexed by the days of a baseline -------

Below(days, v, d) == {e \in days : v[e] < v[d] \/ (v[e] = v[d] /\ e < d)}

Median(days, v) ==
    LET n == Cardinality(days)
        At(k) == v[CHOOSE d \in days : Cardinality(Below(days, v, d)) = k]
    IN (At((n - 1) \div 2) + At(n \div 2)) \div 2

\* In ten-thousandths: the median deviation, else the mean one, as standard
\* deviations, and never less than 5% of the level; 0 when there is none.
RobustScale(days, v) ==
    LET mid == Median(days, v)
        dev == [d \in days |-> Abs(v[d] - mid)]
        mad == Median(days, dev)
        level == 500 * Abs(mid)
    IN IF mad > 0 THEN Larger(14826 * mad, level)
       ELSE Larger((12533 * MapThenSumSet(LAMBDA d : dev[d], days)) \div Cardinality(days), level)

\* |z| of an observation; a baseline without spread gives Null.
RobustZ(x, days, v) ==
    LET scale == RobustScale(days, v) IN
    IF scale = 0 THEN Null
    ELSE (100000 * Abs(x - Median(days, v))) \div scale

\* ---- baseline.py: table is kpi_daily, from days to rows ----

HasMoney(row) == row.revenue # Null /\ row.aov # Null /\ row.refund # Null

\* Mutation: a day that waits for a rate is compared with.
UnfinishedHistory(table, d) == {e \in DOMAIN table : e < d /\ HasMoney(table[e])}

EligibleHistory(table, d) ==
    {e \in DOMAIN table : e < d /\ table[e].complete /\ HasMoney(table[e])}

MostRecent(days, limit) ==
    {d \in days : Cardinality({e \in days : e > d}) < limit}

\* The comparison set, or none when neither tier has enough history.
Baseline(table, d) ==
    LET history == EligibleHistory(table, d)
        sameWeekday == {e \in history : DayOfWeek[e] = DayOfWeek[d]}
        sameDayType == {e \in history : IsWeekend[e] = IsWeekend[d]}
    IN IF Cardinality(sameWeekday) >= MinDayOfWeek THEN MostRecent(sameWeekday, MaxDayOfWeek)
       ELSE IF Cardinality(sameDayType) >= MinDayType THEN MostRecent(sameDayType, MaxDayType)
       ELSE {}

\* ---- detector.py -----------------------------------------------------------

\* An unscored row is not an anomaly and carries no number at all.
Unscored(status) ==
    [status |-> status, anomaly |-> FALSE, signals |-> 0,
     refund |-> Null, aov |-> Null, orders |-> Null, expected |-> Null]

PercentDeviation(x, mid) == IF mid = 0 THEN Null ELSE Truncate(100 * (x - mid), mid)

\* What a signal adds to the score: only what exceeds ordinary variation.
Excess(z) ==
    IF z = Null THEN 0
    ELSE Larger((IF z > RobustZCap THEN RobustZCap ELSE z) - SignalNoiseFloor, 0)

Significant(z) == z # Null /\ z >= RobustZSignificant

\* What each signal was on the days of a baseline.
Series(history, days) == [s \in Signals |-> [d \in days |-> history[d][s]]]

Scored(row, days, series) ==
    LET mid(s) == Median(days, series[s])
        z(s) == RobustZ(row[s], days, series[s])
        score == MapThenSumSet(LAMBDA s : Weight(s) * Excess(z(s)), Signals)
    IN [status |-> "scored",
        anomaly |-> score >= AnomalyScoreThreshold,
        signals |-> Cardinality({s \in Signals : Significant(z(s))}),
        refund |-> row.refund - mid("refund"),
        aov |-> PercentDeviation(row.aov, mid("aov")),
        orders |-> PercentDeviation(row.orders, mid("orders")),
        expected |-> mid("revenue")]

Detect(table, d) ==
    IF ~table[d].complete \/ ~HasMoney(table[d]) THEN Unscored("incomplete_kpi")
    ELSE LET days == Baseline(table, d) IN
         IF days = {} THEN Unscored("insufficient_history")
         ELSE Scored(table[d], days, Series(table, days))

\* A day is judged by itself and by earlier complete days: neither a later day
\* nor one that still waits for a rate moves any other day's result.
LooksOnlyBack(table) ==
    \A d \in DOMAIN table :
        LET admissible == {e \in DOMAIN table : e = d \/ (e < d /\ table[e].complete)} IN
        Detect(table, d) = Detect([e \in admissible |-> table[e]], d)
===============================================================================
