\* One request at a time, four items, two of them for the same file.
SPECIFICATION Spec
CONSTANTS
    i1 = i1  i2 = i2  i3 = i3  i4 = i4  f1 = f1  f2 = f2  f3 = f3
    Items = {i1, i2, i3, i4}
    FileOf <- OneFileTwice
    Clients = {c1}
    MaxPosition = 1
    Targets = {"pending", "completed"}
    NoItem = NoItem
SYMMETRY OneFileTwiceSymmetry
CHECK_DEADLOCK FALSE
INVARIANT Dense
PROPERTIES
    ImplementsBoard
    MovesAsAsked
