CONSTANTS
    None = None
    f1 = f1
    p1 = p1
    k1 = k1
    mario = mario
    luigi = luigi
    badge1 = badge1
    badge2 = badge2
    host1 = host1
    host2 = host2
    lo = lo
    Stages <- MCRetried
    Retried <- MCRetried
    CoinStages = {}
    Charas = {mario}
    SecretPalace = TRUE
    ShopBadges = {}
    Hosts <- MCHosts
    Failing = TRUE
    Loopback = lo
    Cap = 1
    WireCap = 1
    MaxMoves = 0
    MaxFaults = 2
SPECIFICATION Spec
PROPERTIES Reconnects SeedRecovered
CHECK_DEADLOCK FALSE
