\* Three calls in two workers that share the store; a worker may
\* crash.
SPECIFICATION Spec
CONSTANTS
    c1 = c1  c2 = c2  c3 = c3  r1 = r1  p1 = p1  p2 = p2
    f1 = f1  f2 = f2  srcIp = srcIp  dstIp = dstIp  lookup = lookup  scan = scan
    Call = {c1, c2, c3}
    Reader = {}
    Proc = {p1, p2}
    ProcOf <- TwoWorkers
    Tool = {lookup, scan}
    ToolOf <- MCToolOf
    Args = {"args"}
    ArgsOf <- MCArgsOf
    Policy <- MCPolicy
    StoreRaw = {scan}
    Returns <- ShortReturns
    Fact = {f1, f2}
    Value = {"1.2.3.4", " 1.2.3.4 ", "evil.com", "", "malformed"}
    EdgeType = {srcIp, dstIp}
    Canonical <- MCCanonical
    Time = {1, 2}
    ScanLimit = 4
    Dropped = Dropped  Raises = Raises  Missing = Missing  None = None
    MayCrash = TRUE
    StoreMayFail = FALSE
INVARIANTS
    EdgeEndpointsStored
    CommittedDeltaStored
    RecordImpliesIngested
    SkippedWorkIsInGraph
    HandlersSeeStored
PROPERTIES
    ImplementsMerged
