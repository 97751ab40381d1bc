CONSTANTS
    Courses = {ga, gb, free}
    Gated = {ga, gb}
    WorldGated = {gb}
    None = None
    Delay = 2
    MaxKills = 2
    MaxEnters = 2
    MaxReboots = 1
    MaxReconnects = 1
SPECIFICATION FairSpec
INVARIANTS OneLoop GraceKept BannerHonest
PROPERTY GatedBounced
CHECK_DEADLOCK FALSE
