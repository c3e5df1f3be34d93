SPECIFICATION Spec
SYMMETRY Symmetry
CONSTANTS
    Object = {o1, o2}
    Index = {i1, i2}
    Store = store
    Reader = {r1}
    Writer = {w1, w2}
    NoWriter = noWriter
    NoObject = noObject
    MaxVersion = 7
    Ops = {"update"}
    ReAdd = FALSE
    MayFail = TRUE
INVARIANTS IndInv ReadCommitted
