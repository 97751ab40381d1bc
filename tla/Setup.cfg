CONSTANTS
    None = None
    py1 = py1
    py2 = py2
    lan1 = lan1
    lan2 = lan2
    Pythons <- MCPythons
    Winget = py1
    Seeds <- MCSeeds
    Compiled = compiled
    Machines <- MCMachines
    Leftovers = {"none"}
    Reverts = FALSE
    MaxRelease = 2
    MaxEvents = 1
    MaxFaults = 2
SPECIFICATION Spec
INVARIANTS Fresh GreenMeansImportable
PROPERTIES Recovers
CHECK_DEADLOCK FALSE
