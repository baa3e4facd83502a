\* A scheduled and a manual execution, one order and one fault of the order system.
SPECIFICATION FairSpec
CONSTANTS
 LastDay = 3
 MaxOrders = 1
 MaxBatch = 1
 MaxBackdate = 1
 MaxAhead = 0
 MaxFaults = 1
 Slots = {s1, s2}
 Scheduled = s1
 ColdStart = 2
INVARIANTS WindowsLeaveNoGap
PROPERTIES OrdersLand
CHECK_DEADLOCK FALSE
