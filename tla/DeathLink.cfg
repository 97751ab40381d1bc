CONSTANTS
    FreshTicks = 1
    GuardTicks = 1
    SettleTicks = 2
    TtlTicks = 3
    WindowTicks = 2
    TransitionTicks = 2
    MaxTime = 7
    MaxKills = 2
    Pausing = FALSE
SPECIFICATION Spec
INVARIANTS BypassesOwedToGates OneDeathPerKill NoEcho
PROPERTIES NoStaleKill WriteWithinRun
CHECK_DEADLOCK FALSE
