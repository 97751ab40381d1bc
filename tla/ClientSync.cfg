SPECIFICATION SyncFairSpec
CONSTANTS
    Starts <- MCStarts
    BIT_COUNT = 3
    BIT_SPECS <- MCSpecs
    BADGES <- MCBadges
    DENY_BITS <- MCDeny
    ROSTER = {c1}
    SEEDS <- MCSeeds
    BITS_PER_WORLD = 1
    ROYAL_SEEDS = {r1}
    CASTLE_UNLOCK_ITEM = castle
    shop_badges <- MCShop
    SEED_SHOP_SLOTS <- MCSlots
    FORCE_CLEARED_COURSES <- MCForce
    SeedLocations = {l1, l3, l4, n1}
    Worlds = {"W1"}
    Grants = {g1}
    MaxQueue = 1
    MaxFaults = 2
    MaxCommands = 2
    b1 = b1
    p1 = p1
    p2 = p2
    c1 = c1
    s1 = s1
    s2 = s2
    s3 = s3
    r1 = r1
    castle = castle
    l1 = l1
    l2 = l2
    l3 = l3
    l4 = l4
    l5 = l5
    n1 = n1
    x1 = x1
    x2 = x2
    g1 = g1
    None = None
INVARIANT PromptlyShown
PROPERTY ShownInTheEnd
