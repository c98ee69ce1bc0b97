CONSTANTS
    mx1 = mx1
    mx2 = mx2
    s1 = s1
    Nodes = {mx1, mx2}
    Owner = mx1
    Sessions <- NoSessions
    Revocable = FALSE
    MaxSeq = 2
    MaxFaults = 0
    MaxEvents = 4
SPECIFICATION FairSpec
PROPERTIES AbortRestoresAdmission
CHECK_DEADLOCK FALSE
