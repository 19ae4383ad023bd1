CONSTANTS
    l1 = l1
    l2 = l2
    l3 = l3
    NoLocation = NoLocation
    Locations <- MCLocations
    Start <- MCStart
    DiscardMayThrow = TRUE

SPECIFICATION Spec

INVARIANT InterceptsWhileDirty
