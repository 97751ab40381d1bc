SPECIFICATION FairSpec
CONSTANTS
    Badges = {b1}
    PowerUps = {p1}
    Gating = TRUE
    Drains = {d1, d2}
    RingCap = 1
    MaxPipe = 2
    MaxFaults = 1
    Starts <- MCStarts
    d1 = d1
    d2 = d2
    None = None
INVARIANTS DenySettled EquippedIsOwned
PROPERTY BadgesConverge
