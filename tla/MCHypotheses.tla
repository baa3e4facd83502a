----------------------------- MODULE MCHypotheses -----------------------------
(* An instance of Hypotheses for TLC. *)
EXTENDS Hypotheses

\* Two Sundays ago up to the first anomaly, one day of it incomplete; the second anomaly's
\* date has no row yet, and nothing about it could be measured.
Series == [d \in -13 .. 1 |-> IF d = -6 THEN {"orders_count"}
                              ELSE {"net_revenue_usd", "orders_count"}]
Whole == DOMAIN Series \ {-6}
Known == [a \in Anomalies |-> IF a = 1 THEN {"anomaly_score"} ELSE {}]
===============================================================================
