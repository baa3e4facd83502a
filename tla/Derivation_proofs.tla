-------------------------- MODULE Derivation_proofs --------------------------
(***************************************************************************)
(* Decisions and their reason codes stay one verdict on one body of        *)
(* evidence, for any orders, any overlapping runs and any detector whose   *)
(* results satisfy the CHECKs of anomaly_daily; the grading rules agree    *)
(* with themselves for all evidence and for any thresholds, in whatever    *)
(* order a version may set them; and the detector looks only back.         *)
(***************************************************************************)
EXTENDS MCDerivation, TLAPS

-------------------------------------------------------------------------------
(* The grading rules.                                                      *)

LEMMA EvidenceType ==
    ASSUME NEW e \in Evidence
    PROVE  /\ e.status \in BaselineStatus /\ e.anomaly \in BOOLEAN /\ e.signals \in 0..4
           /\ e.refund \in Amount /\ e.aov \in Amount /\ e.orders \in Amount
           /\ e.expected \in Amount /\ e.actual \in Amount
           /\ e.anomaly => e.status = "scored"
           /\ e.status # "scored" => e.expected = Null /\ e.actual = Null
BY DEF Evidence

\* The tier of a scored row is never NULL.
LEMMA ScoredTier ==
    ASSUME NEW e, e.status = "scored"
    PROVE  Tier(e) \in Tiers
BY DEF Tier, Tiers

LEMMA SeverityType == \A e \in Evidence : Severity(e) \in Severities
BY DEF Severity, Severities

\* The headline of a decision is one of the reason codes stored beside it:
\* decision_reason_code never names a rule that did not fire.
THEOREM HeadlineIsCited ==
    ASSUME NEW e, e.status \in BaselineStatus, e.anomaly \in BOOLEAN,
           e.anomaly => e.status = "scored"
    PROVE  Headline(e) \in Codes(e)
<1> SUFFICES Headline(e) \in ReasonCodes /\ Applies(Headline(e), e)
    BY DEF Codes
<1>1. e.status \in BaselineStatus /\ e.anomaly \in BOOLEAN /\ (e.anomaly => e.status = "scored")
    OBVIOUS
<1>2. CASE Severity(e) = "critical"
    BY <1>2 DEF Headline, Applies, ReasonCodes
<1>3. CASE Severity(e) # "critical" /\ e.anomaly /\ Tier(e) = "unknown"
    BY <1>3 DEF Headline, Applies, ReasonCodes
<1>4. CASE Severity(e) # "critical" /\ e.anomaly /\ Tier(e) # "unknown"
    <2>1. Tier(e) \in {"severe", "material", "limited", "trivial"}
        BY <1>1, <1>4, ScoredTier DEF Tiers
    <2>2. Severity(e) \in {"major", "minor"}
        BY <1>1, <1>4 DEF Severity
    <2>3. CASE Severity(e) = "major"
        <3>1. Tier(e) \in {"severe", "material"}
            BY <1>4, <2>3 DEF Severity
        <3> QED BY <1>4, <2>3, <3>1 DEF Headline, Applies, ReasonCodes
    <2>4. CASE Severity(e) = "minor"
        <3>1. Tier(e) \in {"limited", "trivial"}
            BY <1>4, <2>1, <2>4 DEF Severity
        <3> QED BY <1>4, <2>4, <3>1 DEF Headline, Applies, ReasonCodes, DamageCodes
    <2> QED BY <2>2, <2>3, <2>4
<1>5. CASE ~e.anomaly
    <2>1. Severity(e) = "none"
        BY <1>5 DEF Severity
    <2> QED BY <1>1, <1>5, <2>1 DEF Headline, Applies, ReasonCodes, BaselineStatus
<1> QED BY <1>1, <1>2, <1>3, <1>4, <1>5

\* No evidence makes the table refuse the decision, so a run is never aborted
\* half-way by a CHECK: unscored rows stay silent, escalations have a tier.
THEOREM DecisionsAreAccepted == \A e \in Evidence : Accepted(Decided(e))
<1> SUFFICES ASSUME NEW e \in Evidence PROVE Accepted(Decided(e))
    OBVIOUS
<1>1. Severity(e) \in Severities
    BY SeverityType
<1>2. Severity(e) # "none" => e.anomaly /\ e.status = "scored"
    BY EvidenceType DEF Severity
<1>3. e.status # "scored" => e.expected = Null /\ e.actual = Null /\ Tier(e) = Null
    BY EvidenceType DEF Tier
<1>4. Severity(e) \in {"major", "critical"} => Tier(e) # Null
    BY <1>2, ScoredTier, TiersAssumption DEF Tiers
<1>5. Headline(e) \in ReasonCodes
    BY EvidenceType, HeadlineIsCited DEF Codes
<1> QED BY <1>1, <1>2, <1>3, <1>4, <1>5 DEF Accepted, Decided

\* An impact that could not be measured goes to a person.
THEOREM UnmeasuredIsEscalated ==
    ASSUME NEW e \in Evidence, e.anomaly, ~Measured(e)
    PROVE  Routing(Severity(e)) = "human_review"
<1>1. Severity(e) = "major"
    BY EvidenceType DEF Severity, Tier
<1> QED BY <1>1 DEF Routing

\* The stored codes alone tell the severity: two decisions explained alike are
\* graded alike.
THEOREM CodesImplySeverity ==
    ASSUME NEW e \in Evidence, NEW f \in Evidence, Codes(e) = Codes(f)
    PROVE  Severity(e) = Severity(f)
<1> DEFINE Told(g) ==
        IF "STATISTICAL_ANOMALY" \notin Codes(g) THEN "none"
        ELSE IF "CRITICAL_COMBINED_IMPACT" \in Codes(g) THEN "critical"
        ELSE IF "HIGH_REVENUE_IMPACT" \in Codes(g) \/ "BUSINESS_IMPACT_UNAVAILABLE" \in Codes(g)
        THEN "major" ELSE "minor"
<1>1. ASSUME NEW g \in Evidence PROVE Severity(g) = Told(g)
    <2>1. "STATISTICAL_ANOMALY" \in Codes(g) <=> g.anomaly
        BY DEF Codes, Applies, ReasonCodes, Damage, DamageCodes
    <2>2. "CRITICAL_COMBINED_IMPACT" \in Codes(g) <=> Severity(g) = "critical"
        BY DEF Codes, Applies, ReasonCodes, Damage, DamageCodes
    <2>3. "HIGH_REVENUE_IMPACT" \in Codes(g) <=> g.anomaly /\ Tier(g) \in {"material", "severe"}
        BY DEF Codes, Applies, ReasonCodes, Damage, DamageCodes
    <2>4. "BUSINESS_IMPACT_UNAVAILABLE" \in Codes(g) <=> g.anomaly /\ Tier(g) = "unknown"
        BY DEF Codes, Applies, ReasonCodes, Damage, DamageCodes
    <2>5. g.anomaly => g.status = "scored"
        BY EvidenceType
    <2> QED BY <2>1, <2>2, <2>3, <2>4, <2>5 DEF Severity
<1>2. Told(e) = Told(f)
    OBVIOUS
<1> QED BY <1>1, <1>2

\* Less money moved, no damage the other lacks, fewer signals.
NoWorse(e, f) ==
    /\ Measured(e) /\ Measured(f) /\ e.expected = f.expected
    /\ Delta(e) <= Delta(f)
    /\ Damage(e) \subseteq Damage(f)
    /\ e.signals <= f.signals

\* Of two flagged days judged against the same expectation, the one on which
\* more went wrong never gets the milder severity, whatever the thresholds.
THEOREM WorseNeverMilder ==
    ASSUME NEW e \in Evidence, NEW f \in Evidence, e.anomaly, f.anomaly, NoWorse(e, f)
    PROVE  Rank(Severity(e)) <= Rank(Severity(f))
<1>1. e.status = "scored" /\ f.status = "scored" /\ e.signals \in Int /\ f.signals \in Int
    BY EvidenceType
<1>2. /\ e.expected \in Int /\ e.actual \in Int /\ f.actual \in Int /\ f.expected = e.expected
      /\ Measured(e) /\ Measured(f) /\ Delta(e) <= Delta(f)
    BY EvidenceType DEF NoWorse, Measured, Amount
<1>3. Delta(e) \in Int /\ Delta(f) \in Int /\ Abs(e.expected) \in Int /\ Abs(f.expected) = Abs(e.expected)
    BY <1>2 DEF Delta, Abs
<1>4. \A p \in Nat : PctAtLeast(e, p) => PctAtLeast(f, p)
    <2> SUFFICES ASSUME NEW p \in Nat, PctAtLeast(e, p) PROVE PctAtLeast(f, p)
        OBVIOUS
    <2> DEFINE bar == 20000 * p * Abs(e.expected)
    <2>1. bar \in Int
        BY <1>3
    <2>2. 2000000 * Delta(e) + Abs(e.expected) >= bar
        BY DEF PctAtLeast
    <2>3. 2000000 * Delta(f) + Abs(e.expected) >= bar
        <3> HIDE DEF bar
        <3> QED BY <1>2, <1>3, <2>1, <2>2
    <2> QED BY <1>3, <2>3 DEF PctAtLeast
<1>5. Tier(e) = "severe" => Tier(f) = "severe"
    BY <1>1, <1>2, <1>3, <1>4, ThresholdsAssumption DEF Tier
<1>6. Tier(e) = "material" => Tier(f) \in {"severe", "material"}
    BY <1>1, <1>2, <1>3, <1>4, ThresholdsAssumption DEF Tier
<1>7. Tier(e) # "unknown" /\ Tier(f) # "unknown"
    BY <1>1, <1>2 DEF Tier
<1>8. Damage(e) \subseteq Damage(f) /\ (MultiSignal(e) => MultiSignal(f)) /\ (Compound(e) => Compound(f))
    BY <1>1, ThresholdsAssumption DEF NoWorse, MultiSignal, Compound
<1>9. Critical(e) => Critical(f)
    BY <1>5, <1>6, <1>8 DEF Critical
<1>10. CASE Critical(e)
    <2>1. Severity(f) = "critical" /\ Severity(e) = "critical"
        BY <1>1, <1>7, <1>9, <1>10 DEF Severity
    <2> QED BY <2>1 DEF Rank
<1>11. CASE ~Critical(e) /\ Tier(e) \in {"severe", "material"}
    <2>1. Severity(e) = "major" /\ Severity(f) \in {"major", "critical"}
        BY <1>1, <1>5, <1>6, <1>7, <1>11 DEF Severity
    <2> QED BY <2>1 DEF Rank
<1>12. CASE ~Critical(e) /\ Tier(e) \notin {"severe", "material"}
    <2>1. Severity(e) = "minor" /\ Severity(f) \in {"minor", "major", "critical"}
        BY <1>1, <1>7, <1>12 DEF Severity
    <2> QED BY <2>1 DEF Rank
<1> QED BY <1>10, <1>11, <1>12

-------------------------------------------------------------------------------
(* The detector.                                                           *)

\* The history a day is compared with is among the earlier complete days, and what
\* happens to other days does not touch it.
LEMMA HistoryIsAdmissible ==
    ASSUME NEW table, NEW d, NEW S \in SUBSET DOMAIN table,
           \A e \in DOMAIN table : e < d /\ table[e].complete => e \in S
    PROVE  EligibleHistory([e \in S |-> table[e]], d) = EligibleHistory(table, d)
BY DEF EligibleHistory, HasMoney

LEMMA BaselineIsHistory ==
    ASSUME NEW table, NEW d
    PROVE  /\ Baseline(table, d) \subseteq EligibleHistory(table, d)
           /\ EligibleHistory(table, d) \subseteq DOMAIN table
<1>1. \A days, limit : MostRecent(days, limit) \subseteq days
    BY DEF MostRecent
<1>2. Baseline(table, d) \subseteq EligibleHistory(table, d)
    <2> DEFINE history == EligibleHistory(table, d)
               sameWeekday == {e \in history : DayOfWeek[e] = DayOfWeek[d]}
               sameDayType == {e \in history : IsWeekend[e] = IsWeekend[d]}
    <2>1. Baseline(table, d) \in {MostRecent(sameWeekday, MaxDayOfWeek), MostRecent(sameDayType, MaxDayType), {}}
        BY DEF Baseline
    <2>2. sameWeekday \subseteq history /\ sameDayType \subseteq history
        OBVIOUS
    <2> QED BY <1>1, <2>1, <2>2
<1> QED BY <1>2 DEF EligibleHistory

\* A day's result is the same without the days that are later, or wait for a rate.
LEMMA DetectionIgnoresTheRest ==
    ASSUME NEW table, NEW d \in DOMAIN table, NEW S \in SUBSET DOMAIN table, d \in S,
           \A e \in DOMAIN table : e < d /\ table[e].complete => e \in S
    PROVE  Detect(table, d) = Detect([e \in S |-> table[e]], d)
<1> DEFINE part == [e \in S |-> table[e]]
           days == Baseline(table, d)
<1>1. part[d] = table[d]
    OBVIOUS
<1>2. EligibleHistory(part, d) = EligibleHistory(table, d)
    BY HistoryIsAdmissible
<1>3. Baseline(part, d) = days
    BY <1>2 DEF Baseline
<1>4. days \subseteq S
    <2>1. \A e \in EligibleHistory(table, d) : e \in S
        BY DEF EligibleHistory
    <2> QED BY <2>1, BaselineIsHistory
<1>5. Series(part, days) = Series(table, days)
    BY <1>4 DEF Series
<1> QED BY <1>1, <1>3, <1>5 DEF Detect

\* A day's verdict rests on the day itself and on earlier complete days, whatever the
\* orders, the days and the windows: no later day, and none that waits for a rate,
\* moves it.
THEOREM DetectorLooksOnlyBack == Spec => []DetectionLooksOnlyBack
<1>1. DetectionLooksOnlyBack
    <2> SUFFICES ASSUME NEW d \in DOMAIN kpi
                 PROVE  LET admissible == {e \in DOMAIN kpi : e = d \/ (e < d /\ kpi[e].complete)}
                        IN  Detect(kpi, d) = Detect([e \in admissible |-> kpi[e]], d)
        BY DEF DetectionLooksOnlyBack, LooksOnlyBack
    <2> QED BY DetectionIgnoresTheRest
<1> QED BY <1>1, PTL

-------------------------------------------------------------------------------
(* The tables.                                                             *)

\* A decision row on coherent evidence, before or after it is written.
Explained(row) == Coherent(row.evidence) /\ row = Decided(row.evidence)

\* What is in flight in a run will be written, so it is as good as what is stored.
InFlight ==
    /\ DOMAIN detector = Detectors /\ DOMAIN decider = Deciders
    /\ \A r \in Detectors : detector[r].pc = "computed" =>
        \A d \in DOMAIN detector[r].results : Coherent(detector[r].results[d])
    /\ \A r \in Deciders : decider[r].pc = "graded" =>
        \A d \in DOMAIN decider[r].rows : Explained(decider[r].rows[d])

Stored ==
    /\ kpi \in KpiTables
    /\ \A d \in DOMAIN anomaly : Coherent(anomaly[d])
    /\ DOMAIN reasons = DOMAIN decision
    /\ \A d \in DOMAIN decision :
        Explained(decision[d]) /\ reasons[d] = Codes(decision[d].evidence)

IInv == landed \subseteq Orders /\ rated \subseteq landed /\ InFlight /\ Stored

\* The join adds the money of the day and takes the verdict as it is.
LEMMA EvidenceIsCoherent ==
    ASSUME NEW d, Coherent(anomaly[d])
    PROVE  Explained(Decided(EvidenceOf(d)))
BY DEF Coherent, EvidenceOf, Decided, Explained

LEMMA InitHolds == Init => IInv
<1> SUFFICES ASSUME Init PROVE IInv
    OBVIOUS
<1>1. landed \subseteq Orders /\ rated \subseteq landed
    BY OrdersAssumption DEF Init
<1>2. NoRows \in KpiTables
    <2>1. NoRows = KpiOf({}, {})
        BY DEF NoRows, KpiOf
    <2> QED BY <2>1 DEF KpiTables
<1>3. InFlight
    BY DEF Init, InFlight, Idle
<1>4. Stored
    BY <1>2 DEF Init, Stored, NoRows
<1> QED BY <1>1, <1>3, <1>4 DEF IInv

LEMMA StepKeepsIInv == IInv /\ [Next]_vars => IInv'
<1> SUFFICES ASSUME IInv, [Next]_vars PROVE IInv'
    OBVIOUS
<1> USE DEF IInv
<1>1. ASSUME NEW o \in Orders, Land(o) PROVE IInv'
    BY <1>1 DEF Land, InFlight, Stored
<1>2. ASSUME NEW o \in Orders, AttachRate(o) PROVE IInv'
    BY <1>2 DEF AttachRate, InFlight, Stored
<1>3. ASSUME RefreshKpi PROVE IInv'
    <2>1. kpi' \in KpiTables
        BY <1>3 DEF RefreshKpi, KpiTables
    <2> QED BY <1>3, <2>1 DEF RefreshKpi, InFlight, Stored
<1>4. ASSUME NEW r \in Detectors, DetectOpen(r) PROVE IInv'
    BY <1>4 DEF DetectOpen, InFlight, Stored
<1>5. ASSUME NEW r \in Detectors, NEW mode \in {"full", "incremental"}, DetectRead(r, mode)
      PROVE  IInv'
    <2> DEFINE results == [d \in Targets(mode) |-> Judge(kpi, d)]
    <2>1. \A d \in DOMAIN results : Coherent(results[d])
        BY JudgeAssumption DEF Stored, Targets
    <2>2. InFlight'
        <3> HIDE DEF results
        <3>1. detector' = [detector EXCEPT ![r] = [pc |-> "computed", results |-> results]]
            BY <1>5 DEF DetectRead, results
        <3> QED BY <1>5, <2>1, <3>1 DEF DetectRead, InFlight, Coherent
    <2> QED BY <1>5, <2>2 DEF DetectRead, Stored
<1>6. ASSUME NEW r \in Detectors, DetectWrite(r) PROVE IInv'
    <2>1. anomaly' = Upsert(anomaly, detector[r].results)
        BY <1>6 DEF DetectWrite
    <2>2. \A d \in DOMAIN anomaly' : Coherent(anomaly'[d])
        BY <1>6, <2>1 DEF DetectWrite, InFlight, Stored, Upsert
    <2>3. InFlight'
        BY <1>6 DEF DetectWrite, InFlight, Idle
    <2> QED BY <1>6, <2>2, <2>3 DEF DetectWrite, Stored
<1>7. ASSUME NEW r \in Detectors, DetectFinalize(r) \/ DetectFails(r) PROVE IInv'
    BY <1>7 DEF DetectFinalize, DetectFails, InFlight, Stored, Idle
<1>8. ASSUME NEW r \in Deciders, DecideOpen(r) \/ DecideFails(r) PROVE IInv'
    BY <1>8 DEF DecideOpen, DecideFails, InFlight, Stored, Idle
<1>9. ASSUME NEW r \in Deciders, DecideEvaluate(r) PROVE IInv'
    <2> DEFINE rows == [d \in DOMAIN anomaly |-> Decided(EvidenceOf(d))]
    <2>1. \A d \in DOMAIN rows : Explained(rows[d])
        BY EvidenceIsCoherent DEF Stored
    <2>2. InFlight'
        <3> HIDE DEF rows
        <3>1. decider' = [decider EXCEPT ![r] = [pc |-> "graded", rows |-> rows]]
            BY <1>9 DEF DecideEvaluate, rows
        <3> QED BY <1>9, <2>1, <3>1 DEF DecideEvaluate, InFlight, Explained
    <2> QED BY <1>9, <2>2 DEF DecideEvaluate, Stored
<1>10. ASSUME NEW r \in Deciders, DecidePersist(r) PROVE IInv'
    <2> DEFINE rows == decider[r].rows
               codes == [d \in DOMAIN rows |-> Codes(rows[d].evidence)]
    <2>1. \A d \in DOMAIN rows : Explained(rows[d])
        BY <1>10 DEF DecidePersist, InFlight
    <2>2. decision' = Upsert(decision, rows) /\ reasons' = Upsert(reasons, codes)
        BY <1>10 DEF DecidePersist, ReasonsAfter
    <2>3. DOMAIN reasons' = DOMAIN decision'
        BY <2>2 DEF Stored, Upsert
    <2>4. \A d \in DOMAIN decision' :
            Explained(decision'[d]) /\ reasons'[d] = Codes(decision'[d].evidence)
        <3> SUFFICES ASSUME NEW d \in DOMAIN decision'
                     PROVE  Explained(decision'[d]) /\ reasons'[d] = Codes(decision'[d].evidence)
            OBVIOUS
        <3>1. decision'[d] = IF d \in DOMAIN rows THEN rows[d] ELSE decision[d]
            BY <2>2 DEF Upsert
        <3>2. reasons'[d] = IF d \in DOMAIN codes THEN codes[d] ELSE reasons[d]
            BY <2>2, <2>3 DEF Upsert
        <3>3. d \in DOMAIN rows \/ d \in DOMAIN decision
            BY <2>2 DEF Upsert
        <3> QED BY <2>1, <3>1, <3>2, <3>3 DEF Stored
    <2>5. InFlight'
        BY <1>10 DEF DecidePersist, InFlight, Idle, Explained
    <2> QED BY <1>10, <2>3, <2>4, <2>5 DEF DecidePersist, Stored
<1>11. CASE UNCHANGED vars
    BY <1>11 DEF vars, InFlight, Stored, Explained, Coherent
<1> QED BY <1>1, <1>2, <1>3, <1>4, <1>5, <1>6, <1>7, <1>8, <1>9, <1>10, <1>11 DEF Next

LEMMA IInvExplains == IInv => VerdictIsExplained
BY HeadlineIsCited DEF IInv, Stored, Explained, Coherent, Decided, VerdictIsExplained

\* Whatever overlapping runs of decide_anomalies() did, and however stale the
\* evidence they graded, a decision, its stored evidence and its reason codes are
\* one verdict.
THEOREM VerdictsAreExplained == Spec => []VerdictIsExplained
<1>1. Spec => []IInv
    BY InitHolds, StepKeepsIInv, PTL DEF Spec
<1> QED BY <1>1, IInvExplains, PTL
===============================================================================
