CONSTANTS
    Limit <- MCLimit
    Sends = {"SendAudio", "SendText"}
    Tries = 2
    MaxAccepted = 3
    MaxClears = 1
SPECIFICATION FairSpec
PROPERTIES
    RequestsGoOut
