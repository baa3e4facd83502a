SPECIFICATION FairSpec
CONSTANTS
    Actions = {a1, a2}
    Executors = {e1, e2}
    Humans = {h1}
    Reconcilers = {r1}
    NoOne = NoOne
    MaxAttempts = 2
    SerialReconcile = TRUE
    PromptExecutors = TRUE
    TruthfulEvidence = TRUE
INVARIANTS
    PerformedAtMostOnce
    ClosedMeansUndone
PROPERTIES
    NothingStaysExecuting
    AuthorizedConverges
CHECK_DEADLOCK FALSE
