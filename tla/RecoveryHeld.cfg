SPECIFICATION Spec
CONSTANTS
    Mails = 1
    MaxRow = 2
    MaxGen = 4
    MaxRestores = 1
INVARIANT HeldCanBeReleased
CHECK_DEADLOCK FALSE
