\* Two threads, of which one is paused before the object is destroyed.
SPECIFICATION FairSpec
CONSTANTS
    w1 = w1
    w2 = w2
    w3 = w3
    Worker <- TwoWorkers
    Calls <- TwoThenOne
    MaxTasks = 3
PROPERTIES
    
    EveryTaskProcessed
    
