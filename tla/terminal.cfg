SPECIFICATION Spec
CONSTANTS
    r1 = r1
    r2 = r2
    r3 = r3
    t1 = t1
    t2 = t2
    p1 = p1
    p2 = p2
    None = None
    Requests = {r1, r2, r3}
    Tabs = {t1}
    Profiles = {p1, p2}
    MaxEdits = 1
INVARIANTS  EditClosesSessions
 
CHECK_DEADLOCK FALSE
