SPECIFICATION Spec
SYMMETRY Symmetry
CONSTANTS
    Object = {o1, o2}
    Index = {i1}
    Store = store
    Reader = {r1}
    Writer = {w1}
    NoWriter = noWriter
    NoObject = noObject
    MaxVersion = 4
    Ops = {"retainAll"}
    ReAdd = FALSE
    MayFail = FALSE
INVARIANT ReadsWholeTransactions
