SPECIFICATION FairSpec
CONSTANTS
    root = root
    captures = captures
    shard = shard
    manifests = manifests
    c1 = c1
    c2 = c2
    m1 = m1
    m2 = m2
    m3 = m3
    tc1 = tc1
    tc2 = tc2
    tc3 = tc3
    tm1 = tm1
    tm2 = tm2
    tm3 = tm3
    w1 = w1
    w2 = w2
    r1 = r1
    None = None
    Root = root
    Dirs <- FlatDirs
    Parent <- FlatParent
    Writers = {w1, w2}
    Readers = {}
    Contents = {c1, c2}
    Manifests = {m1, m2, m3}
    Objects = {c1, c2, m1, m2, m3}
    ContentOf <- TwoContents
    Admissible = {m1, m2}
    Foreign = {c1}
    Temps = {tc1, tc2, tm1, tm2}
    RootPreexists = TRUE
    MaxCalls = 2
    MaxFaults = 1
    MaxCrashes = 1
PROPERTIES NeverOverwritten LedgerSpec RetrySucceeds
CHECK_DEADLOCK FALSE
