---------------------------- MODULE MCDerivation ----------------------------
(* Four days of orders for TLC: two weekdays, so that both baselines occur, *)
(* a shortfall on day 3, a spike on day 4, and an order that comes late for *)
(* day 2 and waits for its rate.                                            *)
EXTENDS Derivation, Detector

MCOrderDate == <<1, 2, 3, 4, 2>>
MCGross     == <<100, 96, 70, 400, 60>>
MCRefund    == <<4, 4, 20, 160, 0>>
MCDayOfWeek == <<1, 1, 1, 2>>
MCIsWeekend == [d \in 1..4 |-> FALSE]

\* What the detector says of each day of every KPI table these orders can make; a
\* table, so that TLC judges each of them once.
MCResults == [p \in UNION {{<<d, k>> : d \in DOMAIN k} : k \in KpiTables} |->
                Detect(p[2], p[1])]
MCJudge(k, d) == MCResults[<<d, k>>]

\* What LooksOnlyBack says of the KPI table as it is.
DetectionLooksOnlyBack == LooksOnlyBack(kpi)
=============================================================================
