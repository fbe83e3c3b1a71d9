SPECIFICATION Spec
CONSTANTS
    k1 = k1
    k2 = k2
    k3 = k3
    k4 = k4
    v = v
    w = w
    Keys = {k1, k2, k3, k4}
    Values = {v, w}
    NotFound = NotFound
    Hash <- MCHash
    InitCap = 4
    SizeMod = 16
    Ops = {"get", "insert_move"}
    GivenAgain = TRUE
PROPERTY TableSpec
