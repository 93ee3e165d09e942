SPECIFICATION Spec
CONSTANTS
    Keys = {k1}
    None = None
    KvDay = 1
    Older = {1, 2}
    Base = 3
    Blocks = {4, 5, 6, 7, 8, 9}
    Parent <- MCParent
    Height <- MCHeight
    Outputs <- MCOutputs
    PaysNotaries = TRUE
    PayAbove = 4
    Epochs = 4
    Gap = 2
    FirstNotaries = n0
    MaxRecords = 14
    MaxRestarts = 1
    MaxDisconnects = 3
    k1 = k1
    v1 = v1
    n0 = n0
    n1 = n1
    n2 = n2
    other = other
INVARIANTS ReplayFaithful NotarizedMonotone LookupSound
PROPERTIES NotarizationsKept RunningKeepsOrder ElectionsFixed
