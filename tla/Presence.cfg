CONSTANTS
    s1 = s1
    s2 = s2
    p1 = p1
    p2 = p2
    Socket = {s1, s2}
    Process = {p1, p2}
    Beat = Beat
    Host <- OnePerProcess
SPECIFICATION Spec
SYMMETRY Mirror
INVARIANTS
    PresenceTypeOK
    AttendedKeep
    
    
