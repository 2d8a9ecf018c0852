CONSTANTS
    MaxSessions = 2
    MaxTexts = 3
    MaxOthers = 2
SPECIFICATION FairSpec
INVARIANTS
    OwnTextIsMarked
    RowsOfSession
    ReportedInOrder
PROPERTY
    ButtonReturns
CHECK_DEADLOCK FALSE
