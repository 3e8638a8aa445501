\* Two tool threads, a queue that overflows, clients that come and go.
SPECIFICATION Spec
CONSTANTS
    i1 = i1  i2 = i2   f1 = f1  w1 = w1  w2 = w2
    Ingest = {i1, i2}
    Touches <- OneFact
    ThreadOf <- OwnThread
    Client = {w1}
    QueueMax = 2
    None = None
INVARIANTS
    Inv
    DeliveredInOrder
    NoGaps
