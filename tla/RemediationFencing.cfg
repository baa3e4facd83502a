SPECIFICATION Spec
CONSTANTS
    Actions = {a1}
    Executors = {e1, e2, e3}
    Humans = {h1}
    Reconcilers = {r1, r2}
    NoOne = NoOne
    MaxAttempts = 3
    SerialReconcile = TRUE
    PromptExecutors = FALSE
    TruthfulEvidence = FALSE
INVARIANTS
    TypeOK
    LedgerExact
    ClaimsAreFenced
    UncertaintyIsSettled
    ExecutedIffEvidenced
PROPERTIES
    ClaimantSettles
    ImplementsLifecycle
CHECK_DEADLOCK FALSE
