\* A coroutine and a read tool, with a store whose sync methods run on
\* the loop.
SPECIFICATION FairSpec
CONSTANTS
    t1 = t1  t2 = t2  t3 = t3  s1 = s1  r1 = r1  f1 = f1  f2 = f2
    Task = {t1}
    Work = {r1}
    Reader = {r1}
    Touches <- MCTouches
    Request <- MCRequest
    Checked = {t1}
    Loop = Loop  None = None
    SyncNeedsLoop = TRUE
    StoreMayFail = FALSE
PROPERTIES
    EveryCallEnds
CHECK_DEADLOCK FALSE
