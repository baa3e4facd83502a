\* Two maintenance runs or operators' calls over two batches and their replays.
SPECIFICATION Spec
CONSTANTS
    Runs = {m1}
    Callers = {c1}
    Orders = {o1}
    Causes = {"drift", "outside", "unsupported"}
    MaxAttempts = 1
    MaxBatch = 2
    MaxRows = 3
INVARIANT ReplayIsBounded
CHECK_DEADLOCK FALSE
