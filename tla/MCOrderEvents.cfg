SPECIFICATION FairSpec
CONSTANTS
    Messages = {m1, m2}
    Copies = {k1, k2, k3}
    None = None
    MaxFailures = 1
    MaxForgotten = 1
CHECK_DEADLOCK FALSE
INVARIANTS AtMostOncePerKey NothingLost UnappliedIsExplained
PROPERTIES EventuallySettled ImplementsIdempotentEvents
