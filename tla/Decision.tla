------------------------------ MODULE Decision ------------------------------
(***************************************************************************)
(* The rules of Stage 6, salesops.decide_anomalies(), as operators: how    *)
(* much money a flagged day moved, which operational damage came with it,  *)
(* and the severity, routing, headline and reason codes that follow.       *)
(* Derivation.tla runs them over evidence that changes.                    *)
(***************************************************************************)
EXTENDS Amounts, FiniteSets

CONSTANTS
    TrivialUsd, MaterialUsd, SevereUsd,
    MaterialPct, SeverePct,
    RefundSpike, AovDecline, OrdersDecline,
    MultiSignalMin

Tiers == {"unknown", "trivial", "limited", "material", "severe"}

ASSUME TiersAssumption == Null \notin Tiers
ASSUME ThresholdsAssumption ==
    /\ TrivialUsd \in Nat /\ MaterialUsd \in Nat /\ SevereUsd \in Nat
    /\ MaterialPct \in Nat /\ SeverePct \in Nat
    /\ RefundSpike \in Nat /\ AovDecline \in Nat /\ OrdersDecline \in Nat
    /\ MultiSignalMin \in Nat

BaselineStatus == {"scored", "insufficient_history", "incomplete_kpi"}
Severities == {"none", "minor", "major", "critical"}
DamageCodes == {"SEVERE_REFUND_SPIKE", "SEVERE_AOV_DECLINE", "HIGH_ORDER_VOLUME_DECLINE"}
ReasonCodes == DamageCodes \cup
    {"INSUFFICIENT_HISTORY", "INCOMPLETE_KPI", "NORMAL_VARIATION", "STATISTICAL_ANOMALY",
     "HIGH_REVENUE_IMPACT", "INSUFFICIENT_BUSINESS_IMPACT", "BUSINESS_IMPACT_UNAVAILABLE",
     "MULTI_SIGNAL_EVENT", "CRITICAL_COMBINED_IMPACT"}

\* What a detection row and the day's KPI row say together.  V006 keeps an
\* unscored row from being an anomaly; the money is there for scored rows only.
Evidence ==
    {e \in [status : BaselineStatus, anomaly : BOOLEAN, signals : 0..4,
            refund : Amount, aov : Amount, orders : Amount,
            expected : Amount, actual : Amount] :
        e.status # "scored" => ~e.anomaly /\ e.expected = Null /\ e.actual = Null}

Delta(e) == Abs(e.actual - e.expected)

\* The percentage is NULL when the expected revenue is missing or zero.
Measured(e) == e.expected # Null /\ e.actual # Null /\ e.expected # 0

\* |revenue_delta_pct|, rounded to four decimals, is at least p.
PctAtLeast(e, p) ==
    2000000 * Delta(e) + Abs(e.expected) >= 20000 * p * Abs(e.expected)

Tier(e) ==
    IF e.status # "scored" THEN Null
    ELSE IF ~Measured(e) THEN "unknown"
    ELSE IF Delta(e) >= SevereUsd /\ PctAtLeast(e, SeverePct) THEN "severe"
    ELSE IF Delta(e) >= MaterialUsd /\ PctAtLeast(e, MaterialPct) THEN "material"
    ELSE IF Delta(e) >= TrivialUsd THEN "limited"
    ELSE "trivial"

\* Only deterioration is damage.
Damage(e) ==
    {c \in DamageCodes :
        \/ c = "SEVERE_REFUND_SPIKE" /\ e.refund # Null /\ e.refund >= RefundSpike
        \/ c = "SEVERE_AOV_DECLINE" /\ e.aov # Null /\ e.aov <= -AovDecline
        \/ c = "HIGH_ORDER_VOLUME_DECLINE" /\ e.orders # Null /\ e.orders <= -OrdersDecline}

MultiSignal(e) == e.signals >= MultiSignalMin

\* severe_ops >= 2
Compound(e) == \E c, d \in Damage(e) : c # d

Critical(e) ==
    \/ Tier(e) = "severe" /\ (Damage(e) # {} \/ MultiSignal(e))
    \/ Tier(e) \in {"severe", "material"} /\ Compound(e)

Severity(e) ==
    IF e.status # "scored" \/ ~e.anomaly THEN "none"
    ELSE IF Tier(e) = "unknown" THEN "major"
    ELSE IF Critical(e) THEN "critical"
    ELSE IF Tier(e) \in {"severe", "material"} THEN "major"
    ELSE "minor"

Rank(severity) ==
    CASE severity = "none" -> 0 [] severity = "minor" -> 1
      [] severity = "major" -> 2 [] severity = "critical" -> 3

Routing(severity) ==
    CASE severity = "none" -> "no_action"
      [] severity = "minor" -> "auto_notify"
      [] severity \in {"major", "critical"} -> "human_review"

\* The code that best explains the severity, most specific first.
Headline(e) ==
    IF Severity(e) = "critical" THEN "CRITICAL_COMBINED_IMPACT"
    ELSE IF Tier(e) = "unknown" /\ e.anomaly THEN "BUSINESS_IMPACT_UNAVAILABLE"
    ELSE IF Severity(e) = "major" THEN "HIGH_REVENUE_IMPACT"
    ELSE IF Severity(e) = "minor" THEN
        IF "SEVERE_REFUND_SPIKE" \in Damage(e) THEN "SEVERE_REFUND_SPIKE"
        ELSE IF "SEVERE_AOV_DECLINE" \in Damage(e) THEN "SEVERE_AOV_DECLINE"
        ELSE IF "HIGH_ORDER_VOLUME_DECLINE" \in Damage(e) THEN "HIGH_ORDER_VOLUME_DECLINE"
        ELSE IF MultiSignal(e) THEN "MULTI_SIGNAL_EVENT"
        ELSE "INSUFFICIENT_BUSINESS_IMPACT"
    ELSE IF e.status = "insufficient_history" THEN "INSUFFICIENT_HISTORY"
    ELSE IF e.status = "incomplete_kpi" THEN "INCOMPLETE_KPI"
    ELSE "NORMAL_VARIATION"

\* Every rule that fired, whichever of them decided.
Applies(c, e) ==
    \/ c = "INSUFFICIENT_HISTORY" /\ e.status = "insufficient_history"
    \/ c = "INCOMPLETE_KPI" /\ e.status = "incomplete_kpi"
    \/ c = "NORMAL_VARIATION" /\ e.status = "scored" /\ ~e.anomaly
    \/ c = "CRITICAL_COMBINED_IMPACT" /\ Severity(e) = "critical"
    \/ /\ e.anomaly
       /\ \/ c = "STATISTICAL_ANOMALY"
          \/ c = "HIGH_REVENUE_IMPACT" /\ Tier(e) \in {"material", "severe"}
          \/ c = "INSUFFICIENT_BUSINESS_IMPACT" /\ Tier(e) \in {"trivial", "limited"}
          \/ c = "BUSINESS_IMPACT_UNAVAILABLE" /\ Tier(e) = "unknown"
          \/ c = "MULTI_SIGNAL_EVENT" /\ MultiSignal(e)
          \/ c \in Damage(e)

Codes(e) == {c \in ReasonCodes : Applies(c, e)}

\* A row of anomaly_decisions: the evidence as it stood, and the verdict.
Decided(e) ==
    [evidence |-> e, tier |-> Tier(e), severity |-> Severity(e),
     routing |-> Routing(Severity(e)), headline |-> Headline(e)]

\* The CHECK constraints of anomaly_decisions; one that fails aborts the run.
Accepted(row) ==
    LET e == row.evidence IN
    /\ row.severity \in Severities
    /\ row.routing = Routing(row.severity)
    /\ row.severity # "none" => e.anomaly /\ e.status = "scored"
    /\ e.status # "scored" => e.expected = Null /\ e.actual = Null /\ row.tier = Null
    /\ row.severity \in {"major", "critical"} => row.tier # Null
    /\ row.headline \in ReasonCodes
=============================================================================
