SPECIFICATION FairSpec
CONSTANTS
    w1 = w1
    w2 = w2
    c1 = c1
    JobType <- MCJobType
    limit <- MClimit
    skip <- MCskip
    Threads <- MCThreads
    Children <- MCChildren
    MaxWaiting = 2
CHECK_DEADLOCK FALSE
INVARIANTS
    AccountingExact
PROPERTIES
    Completes
