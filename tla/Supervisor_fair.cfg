SPECIFICATION FairSpec
CONSTANTS
    Issue = {i1}
    Erratum = e1
    NoItem = NoItem
    Item = {i1, e1}
    Package = {p1}
    MaxUpsets = 1
INVARIANTS
    ReproducedOnce
PROPERTY WorkSettles
CHECK_DEADLOCK FALSE
