SPECIFICATION FairSpec
CONSTANTS
    s1 = s1
    s2 = s2
    Sender <- TwoSenders
    Cap = 3
    MaxCalls = 4
CHECK_DEADLOCK FALSE
INVARIANTS ChanTypeOK OrderKept Counted
PROPERTIES SendReleased
