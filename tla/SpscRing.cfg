CONSTANTS
    N = 3
    Consumers = {c1, c2}
    MaxPush = 6
    Lapping = FALSE
SPECIFICATION RingFairSpec
PROPERTIES Implements PopReturns AllDelivered
CHECK_DEADLOCK FALSE
