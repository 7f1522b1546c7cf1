CONSTANTS
    s1 = s1
    s2 = s2
    Sender <- TwoSenders
    Cap = 2
    MaxCalls = 2
SPECIFICATION Spec
CHECK_DEADLOCK FALSE
INVARIANT NoPanic
