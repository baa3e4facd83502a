\* Two reviewers, who also approve, and two routing runs over one anomaly that
\* Stage 6 re-decides at will.
SPECIFICATION Spec
CONSTANTS
    Anomalies = {a1}
    Reviewers = {r1, r2}
    Runs = {u1, u2}
    Verdicts = {"minor", "major", "critical"}
    Resolutions = {"confirmed", "requires_follow_up", "false_positive"}
    ActionTypes = {"create_investigation", "request_refund_review"}
    NoOne = NoOne
    MaxEvents = 4
SYMMETRY Symmetry
INVARIANTS HistoryIsAPath ActionsRestOnApproval ApprovedWithAction
PROPERTIES ConclusionsAreFinal
CHECK_DEADLOCK FALSE
