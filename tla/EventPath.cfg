CONSTANTS
    None = None
    f1 = f1
    p1 = p1
    k1 = k1
    mario = mario
    luigi = luigi
    badge1 = badge1
    badge2 = badge2
    host1 = host1
    host2 = host2
    lo = lo
    Stages <- MCStages
    Retried = {}
    CoinStages <- MCCoins
    Charas = {mario}
    SecretPalace = TRUE
    ShopBadges = {badge2}
    Hosts = {host1}
    Failing = FALSE
    Loopback = lo
    Cap = 2
    WireCap = 1
    MaxMoves = 2
    MaxFaults = 1
SPECIFICATION Spec
INVARIANTS Sound Complete RedundantSurvives
CHECK_DEADLOCK FALSE
