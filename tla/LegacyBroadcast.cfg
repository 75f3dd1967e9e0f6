CONSTANTS
    Senders = {s1, s2}
    Requests = {r1, r2}
    Margin = 2
    MaxTime = 5
    MaxFaults = 1
SPECIFICATION Spec
INVARIANT PacingRespected
