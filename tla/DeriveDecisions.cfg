SPECIFICATION FairSpec
CONSTANTS
    Null = Null
    Orders = {1, 2, 3, 4, 5}
    OrderDate <- MCOrderDate
    Gross <- MCGross
    Refund <- MCRefund
    History = {1, 2, 3, 4}
    DayOfWeek <- MCDayOfWeek
    IsWeekend <- MCIsWeekend
    MinDayOfWeek = 2
    MaxDayOfWeek = 2
    MinDayType = 2
    MaxDayType = 3
    TrivialUsd = 10
    MaterialUsd = 50
    SevereUsd = 100
    MaterialPct = 25
    SeverePct = 50
    RefundSpike = 10
    AovDecline = 50
    OrdersDecline = 30
    MultiSignalMin = 3
    Detectors = {n8n, cli}
    Scheduled = {n8n, s1}
    Deciders = {s1, s2}
    Judge <- MCJudge
INVARIANTS
    VerdictIsExplained DetectionLooksOnlyBack
PROPERTY DecisionsConverge
CHECK_DEADLOCK FALSE
