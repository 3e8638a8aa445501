\* Five models, pinned in any order and again, and ten instances.
\* The session never stops: a tool may always be called again.
SPECIFICATION Spec
CONSTANTS
    process = process  alert = alert  host = host  broken = broken  wrapper = wrapper
    pid = pid  ip = ip  otherIp = otherIp
    e1 = e1  e2 = e2  e3 = e3  e4 = e4  e5 = e5  e6 = e6  e7 = e7  p1 = p1  p2 = p2  h1 = h1
    Class = {process, alert, host, broken, wrapper}
    Entity = {pid, ip, otherIp}
    Name = {"PID", "IP"}
    None = None
    Object = {e1, e2, e3, e4, e5, e6, e7, p1, p2, h1}
    Fields <- MCFields
    NameOf <- MCNameOf
    ClassOf <- MCClassOf
    Holds <- MCHolds
INVARIANTS
    Inv
    VerdictIsReachability
    DeclaredOrWarned
    WalkIsExact
    EmittedIsDeclared
PROPERTIES
    ScansEnd
