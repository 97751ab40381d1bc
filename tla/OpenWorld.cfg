CONSTANTS
    None = None
    other = other
    played = played
    WORLD_NUMBERS = {1, 2}
    region_table <- MCRegions
    location_table <- MCLocations
    item_table <- MCItems
    PALACE_LOCATION <- MCPalaces
    Slots <- MCSlots
    Played = played
    Sections <- MCSections
    Options <- MCOptions
SPECIFICATION Spec
INVARIANTS NoBleed TrackerAgrees GatesMatchLogic Beatable TrackerShowsLogic
CHECK_DEADLOCK FALSE
