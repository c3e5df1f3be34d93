SPECIFICATION Spec
CONSTANTS
    Object = {o1, o2}
    Index = {i1}
    Store = store
    Reader = {r1, r2}
    Writer = {w1}
    NoWriter = noWriter
    NoObject = noObject
    MaxVersion = 7
    Ops = {"update"}
    ReAdd = FALSE
    MayFail = FALSE
PROPERTY ImplementsReadCommittedCollection
