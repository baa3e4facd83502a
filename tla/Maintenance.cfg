\* Two maintenance runs or operators' calls over two batches and their replays.
SPECIFICATION Spec
CONSTANTS
    Runs = {m1}
    Callers = {c1}
    Orders = {o1}
    Causes = {"drift", "outside", "unsupported"}
    MaxAttempts = 2
    MaxBatch = 2
    MaxRows = 4
INVARIANTS ReplaysAreExact OnlyCurrencyRulesDiffer SummaryIsHonest
PROPERTIES DeadLettersSurvive
CHECK_DEADLOCK FALSE
