SPECIFICATION Spec
CONSTANTS
    root = root
    captures = captures
    shard = shard
    manifests = manifests
    c1 = c1
    c2 = c2
    m1 = m1
    m2 = m2
    m3 = m3
    tc1 = tc1
    tc2 = tc2
    tc3 = tc3
    tm1 = tm1
    tm2 = tm2
    tm3 = tm3
    w1 = w1
    w2 = w2
    r1 = r1
    None = None
    Root = root
    Dirs <- DeepDirs
    Parent <- DeepParent
    Writers = {w1}
    Readers = {}
    Contents = {c1}
    Manifests = {m1}
    Objects = {c1, m1}
    ContentOf <- OneContent
    Admissible = {m1}
    Foreign = {}
    Temps = {tc1, tm1}
    RootPreexists = FALSE
    MaxCalls = 1
    MaxFaults = 0
    MaxCrashes = 1
INVARIANTS AckedIsDurable
CHECK_DEADLOCK FALSE
