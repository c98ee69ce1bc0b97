CONSTANTS
    m1 = m1
    m2 = m2
    r1 = r1
    r2 = r2
    Mail = {m1}
    Rcpt = {r1, r2}
    Envelope <- OneRecipient
    Batches <- OneVariantTxn
    NullSender = {}
    Hostile = {}
    Workers = 1
    Hosts = 1
    NoticeLimit = 1
    Replicated = FALSE
    MaxCrashes = 1
    mx1 = mx1
    mx2 = mx2
    s1 = s1
SPECIFICATION FairQueue
PROPERTIES EventuallyResolved BodyReclaimed
