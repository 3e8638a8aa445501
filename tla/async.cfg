\* Three coroutines, a sync tool and a read tool; the store may fail.
\* Deadlock is not checked apart: EveryCallEnds says more.
SPECIFICATION FairSpec
CONSTANTS
    t1 = t1  t2 = t2  t3 = t3  s1 = s1  r1 = r1  f1 = f1  f2 = f2
    Task = {t1, t2, t3}
    Work = {s1, r1}
    Reader = {r1}
    Touches <- MCTouches
    Request <- MCRequest
    Checked = {t1, t2, s1}
    Loop = Loop  None = None
    SyncNeedsLoop = FALSE
    StoreMayFail = TRUE
INVARIANTS
    Inv
    LockMatchesBlocks
    LogTellsTruth
PROPERTIES
    EveryCallEnds
CHECK_DEADLOCK FALSE
