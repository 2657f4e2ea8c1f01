SPECIFICATION Spec
CONSTANTS
    error = error
    tiny = tiny
    ordinary = ordinary
    old = old
    c1 = c1
    c2 = c2
    c3 = c3
    c4 = c4
    alone = alone
    Ids <- MCIds
    Registry <- MCRegistry
    Retired = {old}
    Clusters = {c1, c2, c3, c4}
    NoCluster = alone
    Ordinary = ordinary
    Inputs <- MCInputs
INVARIANTS
    GlobalCapOnlyBlamed
