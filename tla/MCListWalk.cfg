SPECIFICATION Spec
CONSTANTS
    MaxItems = 6
    MinInitial = 4
    MaxInitial = 5
    PageSize = 2
    MaxPages = 3
    Items <- MCItems
    Collections <- MCCollections
INVARIANT TypeOK
INVARIANT WalkIsASnapshot
INVARIANT MissesAreDeletions
INVARIANT RepeatsAreCreations
INVARIANT LimitIsEarned
PROPERTY WalkEnds
CHECK_DEADLOCK FALSE
