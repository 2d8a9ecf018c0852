CONSTANTS
    NoIp = NoIp
    Self = self
    Others = {o1, o2}
    MaxMeetings = 2
    MaxPackets = 3
    MaxClicks = 2
SYMMETRY OtherSymmetry
SPECIFICATION Spec
INVARIANTS
    
    
    LiveMicIsShown
    
CHECK_DEADLOCK FALSE
