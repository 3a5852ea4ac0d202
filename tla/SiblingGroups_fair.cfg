SPECIFICATION GroupsFairSpec
CONSTANTS
    p = p
    c1 = c1
    c2 = c2
    s1 = s1
    s2 = s2
    NoTask = NoTask
    Issue <- Group
    Slot <- TwoSlots
    MaxRetries = 2
    Setups <- AllSetups
INVARIANT OneRebase
PROPERTIES BarrierKept GroupsSettle
CHECK_DEADLOCK FALSE
