CONSTANTS
    mx1 = mx1
    mx2 = mx2
    s1 = s1
    Nodes = {mx1, mx2}
    Owner = mx1
    Sessions <- NoSessions
    Revocable = FALSE
    MaxSeq = 2
    MaxFaults = 1
    MaxEvents = 2
    m1 = m1
    l1 = l1
    c1 = c1
    nil = nil
SPECIFICATION LiveSpec
PROPERTIES
    AdmissionResumes
    Converges
    EveryCommandEnds
CHECK_DEADLOCK FALSE
