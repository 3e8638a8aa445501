\* Every graph of three events and four facts.
SPECIFICATION Spec
CONSTANTS
    c1 = c1  c2 = c2  c3 = c3
    f1 = f1  f2 = f2  f3 = f3  f4 = f4  field = field
    Call = {c1, c2, c3}
    Fact = {f1, f2, f3, f4}
    Value = {f1, f2, f3, f4}
    EdgeType = {field}
    Canonical <- MCCanonical
    Dropped = Dropped  Raises = Raises  Missing = Missing
    Graphs <- MCGraphs
    Requests <- MCRequests
INVARIANTS
    Inv
    FoundHasPath
    PathIsFound
    DirectionsAsDocumented
    CapRespected
SYMMETRY Symmetry
