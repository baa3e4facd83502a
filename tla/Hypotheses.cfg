\* One scheduled and one manual run over two anomalies, with a model whose name is an alias.
SPECIFICATION FairSpec
CONSTANTS
    LastDate = 2
    Scheduled = {s}
    Manual = {h}
    MaxManual = 1
    MaxUpsets = 1
    Settled = {2}
    Served = {alias, dated}
    Configured = alias
    JsonMode = "schema"
    Metrics = {"orders_count", "baseline_status", "imagined"}
    Kpi <- Series
    Complete <- Whole
    Measured <- Known
INVARIANTS SuccessMeansExplained DeliveredReasonsStand
PROPERTIES ExplainedStaysExplained ExplanationConverges
CHECK_DEADLOCK FALSE
