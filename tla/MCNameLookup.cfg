SPECIFICATION Spec
CONSTANTS
    MaxItems = 4
    MaxInitial = 3
    PageSize = 2
    None = None
    Items <- MCItems
    Collections <- MCCollections
    Names <- MCNames
INVARIANT TypeOK
INVARIANT LookupIsASnapshot
INVARIANT AbsenceIsReal
PROPERTY LookupEnds
CHECK_DEADLOCK FALSE
