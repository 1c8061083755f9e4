SPECIFICATION PinsSpec
CONSTANTS
    r1 = r1
    r2 = r2
    r3 = r3
    Package <- Quantverify
    Catalog <- Files
    Root <- Roots
    Sources <- Written
    Missing = Missing
    Registries <- Installations
    Runtimes = {r1, r2, r3}
    Reviewed = {r1, r2}
    Facilities = {"builtins", "importlib", "pkgutil", "runpy"}
    MaxChanges = 1
    None = None
    PlannedSpecs <- MCPlannedSpecs
    PlannedRuntimes = {r1, r2}
    FullCost <- MCFullCost
    MaxDigits = 2
    MaxAdjusted = 3
    MaxFixedCharacters = 4
INVARIANTS PinsWhatRuns RefusalHasCause SpecIdIsScience
PROPERTIES CallsEnd
CHECK_DEADLOCK FALSE
