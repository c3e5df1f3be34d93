SPECIFICATION PFairSpec
CONSTANTS
    Object = {o1, o2}
    Index = {i1}
    Store = store
    Reader = {r1}
    Writer = {w1}
    NoWriter = noWriter
    NoObject = noObject
    MaxVersion = 6
    Ops = {"update"}
    ReAdd = FALSE
    MayFail = TRUE
    Persisted = {store}
    Locking = FALSE
    Replacing = FALSE
INVARIANTS PIndInv AllOrNothing PReadsWholeOrUndone NothingHiddenWhenIdle
PROPERTY WriterReturns
