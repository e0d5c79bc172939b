SPECIFICATION Spec
CONSTANTS
    Items = {i1, i2}
CHECK_DEADLOCK FALSE
INVARIANTS
 GoneFailsUncaught
 SurvivorsListed
PROPERTIES
 ListingEnds
