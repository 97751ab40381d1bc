CONSTANTS
    MaxConns = 2
    MaxLines = 1
    MaxSends = 1
    Hashes = {h1}
    Starts <- MCStarts
SPECIFICATION FairSpec
INVARIANTS OneSession Conservation
PROPERTIES EventuallyInstalled EventuallyDropped
CHECK_DEADLOCK FALSE
