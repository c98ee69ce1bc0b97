SPECIFICATION Spec
CONSTANTS
    Mails = 2
    MaxRow = 3
    MaxGen = 4
    MaxRestores = 1
INVARIANT FreshDsnIdentity
CHECK_DEADLOCK FALSE
