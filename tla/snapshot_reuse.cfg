SPECIFICATION Spec
CONSTANTS
    w1 = w1
    w2 = w2
    c1 = c1
    c2 = c2
    t1 = t1
    t2 = t2
    raw = raw
    adjusted = adjusted
    Absent = Absent
    Partial = Partial
    None = None
    Writers = {w1, w2}
    Contents = {c1}
    Instants = {t1}
    Modes = {raw}
    MaxCalls = 2
    MaxFaults = 0
    MaxKills = 0
INVARIANTS IdenticalContentReused
CHECK_DEADLOCK FALSE
