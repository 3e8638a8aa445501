\* A read tool in one worker, a call in another.
SPECIFICATION Spec
CONSTANTS
    c1 = c1  c2 = c2  c3 = c3  r1 = r1  p1 = p1  p2 = p2
    f1 = f1  f2 = f2  srcIp = srcIp  dstIp = dstIp  lookup = lookup  scan = scan
    Call = {c3}
    Reader = {r1}
    Proc = {p1, p2}
    ProcOf <- TwoWorkers
    Tool = {lookup, scan}
    ToolOf <- MCToolOf
    Args = {"args"}
    ArgsOf <- MCArgsOf
    Policy <- MCPolicy
    StoreRaw = {scan}
    Returns <- MCReturns
    Fact = {f1, f2}
    Value = {"1.2.3.4", " 1.2.3.4 ", "evil.com", "", "malformed"}
    EdgeType = {srcIp, dstIp}
    Canonical <- MCCanonical
    Time = {1}
    ScanLimit = 100
    Dropped = Dropped  Raises = Raises  Missing = Missing  None = None
    MayCrash = FALSE
    StoreMayFail = FALSE
INVARIANTS
    LoadsAreConsistent
