SPECIFICATION Spec
CONSTANTS
    Users = {1}
    Groups = {11}
    Mails = {1}
    Providers = {"okta"}
    MaxRequests = 4
    Crossing = TRUE
    Timeout = 1
    Stale = 1
    MaxAge = 1
    MaxChanges = 1
    MaxTime = 1
    MaxGen = 1
INVARIANT Complete
CHECK_DEADLOCK FALSE
