\* One tool thread and a queue with room.
SPECIFICATION FairSpec
CONSTANTS
    i1 = i1  i2 = i2   f1 = f1  w1 = w1  w2 = w2
    Ingest = {i1, i2}
    Touches <- SharedFact
    ThreadOf <- OneThread
    Client = {w1}
    QueueMax = 16
    None = None
INVARIANTS
    QuietPageIsCurrent
PROPERTIES
    PageCatchesUp
