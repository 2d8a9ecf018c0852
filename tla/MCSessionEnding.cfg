CONSTANTS
    UserActions = {"None", "CreateMeeting"}
    MaxRequests = 2
SPECIFICATION FairSpec
CHECK_DEADLOCK FALSE
PROPERTIES
    EndingEnds
