SPECIFICATION WorldsSpec
CONSTANTS
    root = root
    artifacts = artifacts
    manifests = manifests
    a1 = a1
    m1 = m1
    m2 = m2
    m3 = m3
    m4 = m4
    ta1 = ta1
    ta2 = ta2
    tm1 = tm1
    tm2 = tm2
    w1 = w1
    w2 = w2
    r1 = r1
    c1 = c1
    c2 = c2
    t1 = t1
    raw = raw
    adjusted = adjusted
    Absent = Absent
    Partial = Partial
    None = None
    Root = root
    Dirs <- TreeDirs
    Parent <- TreeParent
    Writers = {w1, w2}
    Readers = {r1}
    Artifacts = {a1}
    Manifests = {m1, m2, m3, m4}
    Objects = {a1, m1, m2, m3, m4}
    ArtifactOf <- SameResult
    Admissible = {m1, m2, m3}
    Foreign = {m3}
    Temps = {ta1, ta2, tm1, tm2}
    MaxCalls = 2
    Responses = {c1, c2}
    Instants = {t1}
    Modes = {raw, adjusted}
    MaxSnapshotCalls = 4
    MaxFaults = 1
    MaxKills = 1
    MaxPowerLosses = 1
SYMMETRY Symmetric
INVARIANTS NoSilentDebris NeverTorn ReplayResolves
PROPERTIES NeverOverwritten LedgerSpec SnapshotsAreKept
CHECK_DEADLOCK FALSE
