\* Two overlapping runs, one of which may be killed, over one notification.
SPECIFICATION FairSpec
CONSTANTS
    Anomalies = {a1}
    Recipients = {p1}
    Runs = {u1, u2}
    Resenders = {}
    MaxDeliveryAttempts = 3
    MaxCrashes = 1
    MaxNumber = 6
INVARIANTS LedgerExact StatusIsLastOutcome BudgetOverrunIsBounded RepeatsNeedOverlap
PROPERTIES DeliveryConverges EscalationIsQueued
CHECK_DEADLOCK FALSE
