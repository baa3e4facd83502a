SPECIFICATION Spec
CONSTANTS
    Actions = {a1}
    Executors = {e1, e2}
    Humans = {h1}
    Reconcilers = {r1, r2}
    NoOne = NoOne
    MaxAttempts = 2
    SerialReconcile = FALSE
    PromptExecutors = TRUE
    TruthfulEvidence = TRUE
INVARIANTS
    PerformedAtMostOnce
CHECK_DEADLOCK FALSE
