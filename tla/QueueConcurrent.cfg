\* Two requests at a time, three items.
SPECIFICATION Spec
CONSTANTS
    i1 = i1  i2 = i2  i3 = i3  i4 = i4  f1 = f1  f2 = f2  f3 = f3
    Items = {i1, i2, i3}
    FileOf <- OwnFile
    Clients = {c1, c2}
    MaxPosition = 0
    Targets = {"in_progress"}
    NoItem = NoItem
SYMMETRY OwnFileSymmetry
CHECK_DEADLOCK FALSE
PROPERTIES
    MovesKeepOtherLanes
    MoveRestoresOrder
    RemovalClosesGap
