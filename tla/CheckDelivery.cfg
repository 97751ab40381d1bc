CONSTANTS
    Checks = {coin, block, goal}
    CharBlocks = {block}
    TenCoins = {coin}
    GoalCheck = goal
    NerveGoal = TRUE
    Lans = {lan}
    Nothing = Nothing
    Nerve = Nerve
    MaxDrops = 1
    MaxRepeats = 1
    Raising = TRUE
SPECIFICATION FairSpec
INVARIANTS NoneLost RefundOnce
PROPERTIES Delivered
CHECK_DEADLOCK FALSE
