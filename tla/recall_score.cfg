\* Three calls of a tool that returns an item and of one that returns a list.
SPECIFICATION Spec
CONSTANTS
    f1 = f1  f2 = f2  srcIp = srcIp  dstIp = dstIp  lookup = lookup  scan = scan
    Call = {1, 2, 3}
    Fact = {f1, f2}
    Value = {"1.2.3.4", " 1.2.3.4 ", "8.8.8.8", ""}
    EdgeType = {srcIp, dstIp}
    Canonical <- MCCanonical
    Dropped = Dropped  Raises = Raises  Missing = Missing
    Tool = {lookup, scan}
    Results <- MCResults
    TypeOf <- MCTypeOf
    Limit = {0, 1, 2, 50}
    StoreRaw = {scan}
    Declared = {"Domain"}
    Top = {0, 1, 2, 30}
    None = None
INVARIANTS
    NoOverlapScoresZero
