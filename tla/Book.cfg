\* A book of three orders, two injections, and one kill or failed write anywhere.
SPECIFICATION BookSpec
CONSTANTS
    Regions = {"na", "eu"}
    Draws <- Drawn
    Severities = {30}
    LastDay = 2
    MaxOrders = 3
    MaxBatch = 1
    MaxBackdate = 0
    MaxAhead = 1
    MaxInjections = 2
    MaxFaults = 1
INVARIANTS NothingVanishesSilently IdsAreUniqueInTheBook OnlyRoundingIsRefused
PROPERTIES ImplementsUpstream
CHECK_DEADLOCK FALSE
