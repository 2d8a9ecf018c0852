CONSTANTS
    Limit <- MCLimit
    Sends = {"SendAudio", "SendText", "SendImage"}
    Tries = 2
    MaxAccepted = 3
    MaxClears = 1
SPECIFICATION Spec
INVARIANTS
    TypeOK
    NewestKept
    EachInOnePlace
    NoLostWakeup
    CameraOffIsLast
