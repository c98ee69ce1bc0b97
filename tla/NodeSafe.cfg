CONSTANTS
    m1 = m1
    m2 = m2
    r1 = r1
    r2 = r2
    Mail = {m1}
    Rcpt = {r1, r2}
    Envelope <- OneRecipient
    Batches <- OneVariantTxn
    NullSender = {}
    Hostile = {m1}
    Workers = 1
    Hosts = 2
    NoticeLimit = 1
    Replicated = TRUE
    MaxCrashes = 2
    mx1 = mx1
    mx2 = mx2
    s1 = s1
SPECIFICATION NodeSpec
INVARIANTS
    QueueInv BodyOnDisk UnacceptedInvisible NoSilentDuplicate OneAnswer UnresolvedHasBody
    OneOpenPolicy ReleasedEverywhere ReadyMeansFenced
PROPERTIES NothingForgotten AtomicSwitch
CHECK_DEADLOCK FALSE
